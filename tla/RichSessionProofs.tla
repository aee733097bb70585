-------------------------- MODULE RichSessionProofs --------------------------
(***************************************************************************)
(* Theorems on RichOperation, for every limit on the body, every size of   *)
(* the first buffer and every number of empty chunks, and on RichSession,  *)
(* for every description a Hub may give, every set of schemas and bodies   *)
(* and any number of operations.                                           *)
(***************************************************************************)
EXTENDS RichSession, TLAPS

-----------------------------------------------------------------------------
(* One operation.                                                          *)

(* Who owns the body, by where the operation is.                           *)
BodyInv ==
    /\ place \in {"idle", "authorizing", "authorized", "sent"} =>
          body = "none" /\ response = "none"
    /\ place = "headers" => body = "open"
    /\ place \in {"reading", "emptying"} => body = "locked"
    /\ place \in {"parsed", "decoded", "done"} => body \in {"none", "released"}

(* What is known of a command that may have been carried out.              *)
CommandInv ==
    /\ executed => kind = "command" /\ dispatched /\ response \notin Problems
    /\ place \in {"idle", "authorizing", "authorized"} => ~dispatched
    /\ place \in {"sent", "headers", "reading", "emptying", "parsed", "decoded"} =>
          dispatched
    /\ place = "decoded" /\ response = "notModified" => kind # "command"
    /\ kind = "command" /\ dispatched /\ place = "done" =>
          \/ outcome \in {"ok", "uncertain"}
          \/ outcome = "problem" /\ response = "problem"

(* The empty chunks of a 304 never reach the limit while it is read.       *)
EmptiesInv ==
    /\ place \in {"idle", "authorizing", "authorized", "sent", "headers"} =>
          empties = 0
    /\ place = "emptying" => empties < MaxEmpty

(* The inductive invariant.                                                *)
IInv == OperationTypeOK /\ BufferFits /\ BodyInv /\ CommandInv /\ EmptiesInv

-----------------------------------------------------------------------------
(* A failure is told as itself or as uncertainty, never as a success.      *)
LEMMA ReportedIsFailure ==
    ASSUME NEW how \in Outcomes, how \notin {"ok", "notModified"}
    PROVE  /\ Reported(how) \in Outcomes
           /\ Reported(how) \notin {"ok", "notModified"}
BY DEF Reported, Outcomes

(* What is told of a command that has been dispatched.                     *)
LEMMA ReportedOfCommand ==
    ASSUME NEW how, kind = "command", dispatched, how # "problem"
    PROVE  Reported(how) = "uncertain"
BY DEF Reported

(* The buffer grows to what is needed and not beyond the limit, whatever   *)
(* the chunk (bounded-json.ts:45-51).                                      *)
LEMMA GrownFits ==
    ASSUME SizesAssumption, capacity \in 0 .. MaxBytes,
           NEW needed \in Nat, needed <= MaxBytes
    PROVE  /\ Grown(needed) \in 0 .. MaxBytes
           /\ needed <= Grown(needed)
BY DEF SizesAssumption, Grown, Smaller, Larger

LEMMA InitIInv == Init => IInv
<1> SUFFICES ASSUME Init PROVE IInv
  OBVIOUS
<1>1. kind \in AllKinds
  BY KindsAssumption DEF Init, KindsAssumption
<1>2. size \in 0 .. MaxBytes /\ empties \in 0 .. MaxEmpty /\ capacity \in 0 .. MaxBytes
  BY SizesAssumption DEF Init, Smaller, SizesAssumption
<1>3. BufferFits
  BY SizesAssumption DEF Init, Smaller, SizesAssumption, BufferFits
<1>4. BodyInv /\ CommandInv
  BY DEF Init, BodyInv, CommandInv
<1>5. EmptiesInv
  BY DEF Init, EmptiesInv
<1>6. QED
  BY <1>1, <1>2, <1>3, <1>4, <1>5 DEF IInv, Init, OperationTypeOK, Places

-----------------------------------------------------------------------------
LEMMA NextIInv == IInv /\ [Next]_vars => IInv'
<1> SUFFICES ASSUME IInv, [Next]_vars PROVE IInv'
  OBVIOUS
<1> USE DEF IInv, OperationTypeOK, BodyInv, CommandInv, EmptiesInv, Places,
            Fail, FailAndRelease
<1>1. CASE Refuse
  <2>1. outcome' \in Outcomes
    BY <1>1, ReportedIsFailure DEF Refuse, Outcomes
  <2>2. QED
    BY <1>1, <2>1 DEF Refuse, reader, BufferFits
<1>2. CASE Begin
  BY <1>2 DEF Begin, reader, BufferFits
<1>3. CASE ProviderAnswers
  <2>1. outcome' \in Outcomes \cup {"none"}
    BY <1>3, ReportedIsFailure DEF ProviderAnswers, Outcomes
  <2>2. QED
    BY <1>3, <2>1 DEF ProviderAnswers, reader, BufferFits
<1>4. CASE Dispatch
  <2>1. outcome' \in Outcomes \cup {"none"}
    BY <1>4, ReportedIsFailure DEF Dispatch, Outcomes
  <2>2. QED
    BY <1>4, <2>1 DEF Dispatch, reader, BufferFits
<1>5. CASE HubExecutes
  BY <1>5 DEF HubExecutes, reader, BufferFits, Problems
<1>6. CASE FetchAnswers
  BY <1>6 DEF FetchAnswers, reader, BufferFits, Responses, Problems
<1>7. CASE FetchFails
  <2> PICK how \in {"transport", "aborted"} : Fail(how)
    BY <1>7 DEF FetchFails
  <2>1. outcome' \in Outcomes
    BY ReportedIsFailure DEF Outcomes
  <2>2. kind = "command" => outcome' = "uncertain"
    BY <1>7, ReportedOfCommand DEF FetchFails
  <2>3. QED
    BY <1>7, <2>1, <2>2 DEF FetchFails, reader, BufferFits
<1>8. CASE FetchAborts
  <2>1. outcome' \in Outcomes
    BY <1>8, ReportedIsFailure DEF FetchAborts, Outcomes
  <2>2. kind = "command" => outcome' = "uncertain"
    BY <1>8, ReportedOfCommand DEF FetchAborts
  <2>3. QED
    BY <1>8, <2>1, <2>2 DEF FetchAborts, reader, BufferFits
<1>9. ASSUME NEW n \in 0 .. MaxBytes + 1, Chunk(n) PROVE IInv'
  <2>1. CASE TooMany(n)
    <3>1. outcome' \in Outcomes
      BY <1>9, <2>1, ReportedIsFailure DEF Chunk, Outcomes
    <3>2. kind = "command" => outcome' = "uncertain"
      BY <1>9, <2>1, ReportedOfCommand DEF Chunk
    <3>3. QED
      BY <1>9, <2>1, <3>1, <3>2 DEF Chunk, reader, BufferFits
  <2>2. CASE ~TooMany(n)
    <3>1. n \in Nat /\ size + n \in Nat /\ size + n <= MaxBytes
      BY <1>9, <2>2, SizesAssumption DEF TooMany, SizesAssumption
    <3>2. capacity' \in 0 .. MaxBytes /\ size + n <= capacity'
      BY <1>9, <2>2, <3>1, GrownFits, SizesAssumption DEF Chunk
    <3>3. empties' \in 0 .. MaxEmpty
      BY <1>9, <2>2, SizesAssumption DEF Chunk, TooMany, Counted, SizesAssumption
    <3>4. size' = size + n /\ size' \in 0 .. MaxBytes
      BY <1>9, <2>2, <3>1 DEF Chunk
    <3>5. UNCHANGED <<kind, place, aborted, dispatched, executed, response, body,
                      outcome>>
      BY <1>9, <2>2 DEF Chunk
    <3>6. BufferFits'
      BY <3>2, <3>4, SizesAssumption DEF BufferFits, SizesAssumption
    <3>7. place = "reading"
      BY <1>9 DEF Chunk
    <3>8. QED
      BY <3>7, <3>2, <3>3, <3>4, <3>5, <3>6
  <2>3. QED
    BY <2>1, <2>2
<1>10. ASSUME NEW n \in 0 .. MaxBytes + 1, EmptyChunk(n) PROVE IInv'
  <2>1. CASE n > 0 \/ empties + 1 = MaxEmpty
    <3>1. outcome' \in Outcomes
      BY <1>10, <2>1, ReportedIsFailure DEF EmptyChunk, Outcomes
    <3>2. kind = "command" => outcome' = "uncertain"
      BY <1>10, <2>1, ReportedOfCommand DEF EmptyChunk
    <3>3. QED
      BY <1>10, <2>1, <3>1, <3>2 DEF EmptyChunk, reader, BufferFits
  <2>2. CASE ~(n > 0 \/ empties + 1 = MaxEmpty)
    <3>1. empties' = empties + 1 /\ empties' < MaxEmpty /\ empties' \in 0 .. MaxEmpty
      BY <1>10, <2>2, SizesAssumption DEF EmptyChunk, SizesAssumption
    <3>2. QED
      BY <1>10, <2>2, <3>1 DEF EmptyChunk, BufferFits
  <2>3. QED
    BY <2>1, <2>2
<1>11. CASE BodyEnds
  BY <1>11 DEF BodyEnds, reader, BufferFits
<1>12. CASE BodyBreaks
  <2>1. outcome' \in Outcomes
    BY <1>12, ReportedIsFailure DEF BodyBreaks, Outcomes
  <2>2. kind = "command" => outcome' = "uncertain"
    BY <1>12, ReportedOfCommand DEF BodyBreaks
  <2>3. QED
    BY <1>12, <2>1, <2>2 DEF BodyBreaks, reader, BufferFits
<1>13. CASE Receive
  <2>1. ASSUME NEW how \in {"invalid", "aborted"}, FailAndRelease(how)
        PROVE  IInv'
    <3>1. outcome' \in Outcomes
      BY <2>1, ReportedIsFailure DEF Outcomes
    <3>2. kind = "command" => outcome' = "uncertain"
      BY <1>13, <2>1, ReportedOfCommand DEF Receive
    <3>3. QED
      BY <1>13, <2>1, <3>1, <3>2 DEF Receive, reader, BufferFits
  <2>2. CASE /\ place' = IF response = "notModified" THEN "emptying" ELSE "reading"
             /\ body' = "locked"
             /\ UNCHANGED outcome
    BY <1>13, <2>2, SizesAssumption DEF Receive, reader, BufferFits, SizesAssumption
  <2>3. QED
    BY <1>13, <2>1, <2>2 DEF Receive
<1>14. CASE AbortSeen
  <2>1. outcome' \in Outcomes
    BY <1>14, ReportedIsFailure DEF AbortSeen, Outcomes
  <2>2. kind = "command" /\ dispatched => outcome' = "uncertain"
    BY <1>14, ReportedOfCommand DEF AbortSeen
  <2>3. QED
    BY <1>14, <2>1, <2>2 DEF AbortSeen, Interruptible, reader, BufferFits
<1>15. CASE Decode
  <2>1. ASSUME NEW how \in {"invalid", "aborted"}, Fail(how)
        PROVE  IInv'
    <3>1. outcome' \in Outcomes
      BY <2>1, ReportedIsFailure DEF Outcomes
    <3>2. kind = "command" => outcome' = "uncertain"
      BY <1>15, <2>1, ReportedOfCommand DEF Decode
    <3>3. QED
      BY <1>15, <2>1, <3>1, <3>2 DEF Decode, reader, BufferFits
  <2>2. CASE response = "problem" /\ Fail("problem")
    <3>1. outcome' = "problem"
      BY <2>2 DEF Reported
    <3>2. QED
      BY <1>15, <2>2, <3>1 DEF Decode, reader, BufferFits, Outcomes
  <2>3. CASE /\ \/ response \in {"right", "foreign"}
                \/ response = "notModified" /\ kind = "conditional"
             /\ place' = "decoded"
             /\ UNCHANGED outcome
    BY <1>15, <2>3 DEF Decode, reader, BufferFits
  <2>4. QED
    <3>1. CASE response = "problem" /\ Fail("problem")
      BY <3>1, <2>2
    <3>2. CASE \E how \in {"invalid"} \cup
                   (IF aborted /\ response # "notModified" THEN {"aborted"} ELSE {}) :
                Fail(how)
      BY <3>2, <2>1
    <3>3. CASE /\ \/ response \in {"right", "foreign"}
                  \/ response = "notModified" /\ kind = "conditional"
               /\ IF aborted /\ kind # "session"
                  THEN Fail("aborted")
                  ELSE place' = "decoded" /\ UNCHANGED outcome
      BY <3>3, <2>1, <2>3
    <3>4. QED
      BY <1>15, <3>1, <3>2, <3>3 DEF Decode
<1>16. CASE Finish
  <2>1. ASSUME NEW how \in {"invalid", "aborted"}, Fail(how)
        PROVE  IInv'
    <3>1. outcome' \in Outcomes
      BY <2>1, ReportedIsFailure DEF Outcomes
    <3>2. kind = "command" => outcome' = "uncertain"
      BY <1>16, <2>1, ReportedOfCommand DEF Finish
    <3>3. QED
      BY <1>16, <2>1, <3>1, <3>2 DEF Finish, reader, BufferFits
  <2>2. CASE /\ place' = "done"
             /\ outcome' = IF response = "notModified" THEN "notModified" ELSE "ok"
    BY <1>16, <2>2 DEF Finish, reader, BufferFits, Outcomes
  <2>3. QED
    BY <1>16, <2>1, <2>2 DEF Finish
<1>17. CASE Abort
  BY <1>17 DEF Abort, reader, BufferFits
<1>18. CASE UNCHANGED vars
  BY <1>18 DEF vars, reader, BufferFits
<1>19. QED
  BY <1>1, <1>2, <1>3, <1>4, <1>5, <1>6, <1>7, <1>8, <1>9, <1>10, <1>11, <1>12,
     <1>13, <1>14, <1>15, <1>16, <1>17, <1>18
     DEF Next, BodyAnswers, Continues, Settled

(* The inductive invariant holds of every operation.                       *)
THEOREM IInvHolds == Spec => []IInv
BY InitIInv, NextIInv, PTL DEF Spec

(* Type correctness of an operation from its call to its answer.           *)
THEOREM TypeCorrect == Spec => []OperationTypeOK
BY IInvHolds, PTL DEF IInv

(* A command the Hub carries out, however late, is reported as accepted or *)
(* as uncertain (client.ts:566-621).                                       *)
THEOREM ExecutedIsNotDenied == Spec => []CommandIsNotDenied
<1>1. IInv => CommandIsNotDenied
  BY DEF IInv, CommandInv, CommandIsNotDenied, Problems
<1>2. QED
  BY IInvHolds, <1>1, PTL

(* An operation that has ended owns no body any more                       *)
(* (response-ownership.ts:11-20).                                          *)
THEOREM NoBodyIsLeft == Spec => []BodyIsReleased
<1>1. IInv => BodyIsReleased
  BY DEF IInv, BodyInv, BodyIsReleased
<1>2. QED
  BY IInvHolds, <1>1, PTL

(* The buffer holds what has been read and never exceeds the limit, for    *)
(* every limit and every first size (bounded-json.ts:42-53).               *)
THEOREM BufferIsLargeEnough == Spec => []BufferFits
BY IInvHolds, PTL DEF IInv

-----------------------------------------------------------------------------
(* A success is the step Finish, which looks at the signal.                *)
LEMMA SuccessLooksAtSignal ==
    ASSUME IInv, [Next]_vars, outcome = "none", outcome' \in {"ok", "notModified"},
           kind # "session"
    PROVE  ~aborted
<1>1. ASSUME NEW how \in Outcomes, how \notin {"ok", "notModified"}, Fail(how)
      PROVE  FALSE
  BY <1>1, ReportedIsFailure DEF Fail
<1>2. ~Refuse /\ ~ProviderAnswers /\ ~FetchFails /\ ~FetchAborts /\ ~BodyBreaks
        /\ ~AbortSeen /\ ~Dispatch
  BY <1>1 DEF Refuse, ProviderAnswers, FetchFails, FetchAborts, BodyBreaks,
              AbortSeen, Dispatch, FailAndRelease, Outcomes
<1>3. ~Begin /\ ~HubExecutes /\ ~FetchAnswers /\ ~BodyEnds /\ ~Abort /\ ~Settled
        /\ ~UNCHANGED vars
  BY DEF Begin, HubExecutes, FetchAnswers, BodyEnds, Abort, Settled, vars
<1>4. ~Receive
  BY <1>1 DEF Receive, FailAndRelease, Outcomes
<1>5. ~Decode
  BY <1>1 DEF Decode, Outcomes
<1>6. ASSUME NEW n \in 0 .. MaxBytes + 1 PROVE ~Chunk(n) /\ ~EmptyChunk(n)
  BY <1>1 DEF Chunk, EmptyChunk, FailAndRelease, Outcomes
<1>7. Finish
  BY <1>2, <1>3, <1>4, <1>5, <1>6 DEF Next, BodyAnswers, Continues
<1>8. QED
  BY <1>1, <1>7 DEF Finish, Outcomes

(* No operation but the making of a session succeeds after its caller has  *)
(* aborted it (client.ts:520, 560, 611).                                   *)
THEOREM AbortBeatsSuccess == Spec => AbortWins
<1>1. IInv /\ [Next]_vars =>
        [outcome = "none" /\ outcome' \in {"ok", "notModified"} /\ kind # "session" =>
            ~aborted]_vars
  BY SuccessLooksAtSignal
<1>2. QED
  BY IInvHolds, <1>1, PTL DEF Spec, AbortWins

-----------------------------------------------------------------------------
(* Operations on a session.                                                *)

(* The session speaks a version its caller can understand.                 *)
VersionInv ==
    version # NoVersion => version \in LockedVersions /\ version <= requested

(* What an operation with a body may send.                                 *)
MayCarry(b) ==
    /\ operation = "createCommand" => b \in Accepted(admittedBy)
    /\ operation \in {"createMetadata", "replaceMetadata"} => b \in Fitting

(* The snapshot was validated before the authorization was asked for, and  *)
(* it is what goes on the wire.                                            *)
SnapshotInv ==
    /\ place \in {"authorizing", "authorized"} => MayCarry(admitted)
    /\ dispatched => MayCarry(wire)

(* An answer gets past its headers, a 304 past its body, only in a version *)
(* that is accepted.                                                       *)
AnswerInv ==
    /\ place # "done" => outcome = "none"
    /\ place = "decoded" => response \in {"right", "foreign", "notModified"}
    /\ Versioned =>
          /\ response \in Successes => answered \in AcceptedVersions
          /\ place = "decoded" => answered \in AcceptedVersions
          /\ outcome \in {"ok", "notModified"} => answered \in AcceptedVersions

SessionInv ==
    IInv /\ SessionTypeOK /\ VersionInv /\ SnapshotInv /\ AnswerInv

-----------------------------------------------------------------------------
(* A negotiated version is one of those that could be (negotiation.ts:27). *)
LEMMA NegotiatedIsNegotiable ==
    ASSUME SessionAssumption, NEW d \in Descriptions, NEW r \in Nat
    PROVE  \/ Negotiated(d, r) = NoVersion
           \/ Negotiated(d, r) \in Negotiable(d, r)
<1> DEFINE S == Negotiable(d, r)
<1>1. ASSUME S # {}
      PROVE  \E v \in S : \A w \in S : w <= v
  <2>1. S \subseteq {1, 3, 5}
    BY DEF Negotiable, LockedVersions
  <2>2. CASE 5 \in S
    BY <2>1, <2>2
  <2>3. CASE 5 \notin S /\ 3 \in S
    BY <2>1, <2>3
  <2>4. CASE 5 \notin S /\ 3 \notin S
    <3>1. S = {1}
      BY <1>1, <2>1, <2>4
    <3> QED
      BY <3>1
  <2> QED
    BY <2>2, <2>3, <2>4
<1>2. S # {} => (CHOOSE v \in S : \A w \in S : w <= v) \in S
  BY <1>1
<1> QED
  BY <1>2 DEF Negotiated

(* What is accepted is offered, admitted by the Hub and not newer than the *)
(* session.                                                                *)
LEMMA AcceptedIsUnderstood ==
    ASSUME SessionAssumption, SessionTypeOK, VersionInv,
           NEW v \in AcceptedVersions
    PROVE  /\ v <= requested
           /\ v \in description.supported
           /\ description.minimum <= v
<1>1. v \in LockedVersions /\ v <= version /\ Negotiated(description, v) = v
  BY DEF AcceptedVersions
<1>2. v \in Nat /\ v # NoVersion
  BY <1>1 DEF LockedVersions, NoVersion
<1>3. version # NoVersion
  BY <1>1, <1>2 DEF LockedVersions, NoVersion
<1>4. requested \in Nat /\ version \in Nat
  BY <1>3 DEF SessionTypeOK, SessionAssumption, VersionInv, LockedVersions
<1>5. v <= requested
  BY <1>1, <1>2, <1>3, <1>4 DEF VersionInv
<1>6. v \in Negotiable(description, v)
  BY <1>1, <1>2, NegotiatedIsNegotiable DEF SessionTypeOK
<1> QED
  BY <1>5, <1>6 DEF Negotiable

-----------------------------------------------------------------------------
LEMMA SessionInitInv == SessionInit => SessionInv
<1> SUFFICES ASSUME SessionInit PROVE SessionInv
  OBVIOUS
<1>1. IInv
  BY InitIInv DEF SessionInit
<1>2. SessionTypeOK
  BY SessionAssumption DEF SessionInit, SessionTypeOK, SessionAssumption
<1>3. VersionInv
  BY DEF SessionInit, VersionInv
<1>4. SnapshotInv
  BY DEF SessionInit, Init, SnapshotInv
<1>5. AnswerInv
  BY DEF SessionInit, Init, AnswerInv, Versioned
<1> QED
  BY <1>1, <1>2, <1>3, <1>4, <1>5 DEF SessionInv

(* Within an operation a session does what RichOperation allows.           *)
LEMMA StepIsOfOperation ==
    ASSUME SessionNext, ~\E op \in Operations : Call(op)
    PROVE  [Next]_vars
<1>1. CASE Refused
  BY <1>1 DEF Refused, Next
<1>2. CASE Admitted
  BY <1>2 DEF Admitted, Next
<1>3. CASE Answered
  BY <1>3 DEF Answered, Next
<1>4. CASE Described
  BY <1>4 DEF Described, Next
<1>5. CASE SessionContinues
  BY <1>5 DEF SessionContinues, Sent, DecodedAnswer, Concluded, Next, Continues
<1>6. CASE TransportActs /\ UNCHANGED session
  BY <1>6 DEF TransportActs, Next
<1>7. CASE BodyEdited \/ SchemaEdited \/ SessionSettled
  BY <1>7 DEF BodyEdited, SchemaEdited, SessionSettled, sessionVars
<1> QED
  BY <1>1, <1>2, <1>3, <1>4, <1>5, <1>6, <1>7 DEF SessionNext

(* A call begins an operation of its own.                                  *)
LEMMA CallIInv ==
    ASSUME IInv, NEW op \in Operations, Call(op)
    PROVE  IInv'
<1>1. kind' \in AllKinds
  BY KindsAssumption DEF Call, KindsAssumption
<1>2. size' \in 0 .. MaxBytes /\ empties' \in 0 .. MaxEmpty /\ capacity' \in 0 .. MaxBytes
  BY SizesAssumption DEF Call, Smaller, SizesAssumption
<1>3. BufferFits'
  BY SizesAssumption DEF Call, Smaller, SizesAssumption, BufferFits
<1>4. BodyInv' /\ CommandInv' /\ EmptiesInv'
  BY DEF Call, BodyInv, CommandInv, EmptiesInv
<1> QED
  BY <1>1, <1>2, <1>3, <1>4 DEF IInv, Call, OperationTypeOK, Places

-----------------------------------------------------------------------------
(* What the steps do to the session, one lemma for each part.              *)
LEMMA StepIInv == SessionInv /\ [SessionNext]_sessionVars => IInv'
<1> SUFFICES ASSUME SessionInv, [SessionNext]_sessionVars PROVE IInv'
  OBVIOUS
<1>1. ASSUME NEW op \in Operations, Call(op) PROVE IInv'
  BY <1>1, CallIInv DEF SessionInv
<1>2. CASE SessionNext /\ ~\E op \in Operations : Call(op)
  BY <1>2, StepIsOfOperation, NextIInv DEF SessionInv
<1>3. CASE UNCHANGED sessionVars
  BY <1>3, NextIInv DEF SessionInv, sessionVars
<1> QED
  BY <1>1, <1>2, <1>3

LEMMA StepSessionType == SessionInv /\ [SessionNext]_sessionVars => SessionTypeOK'
<1> SUFFICES ASSUME SessionInv, [SessionNext]_sessionVars PROVE SessionTypeOK'
  OBVIOUS
<1> USE DEF SessionInv, SessionTypeOK
<1>1. ASSUME NEW op \in Operations, Call(op) PROVE SessionTypeOK'
  BY <1>1, SessionAssumption DEF Call, SessionAssumption
<1>2. CASE Refused
  BY <1>2 DEF Refused, Compiles, Validator
<1>3. CASE Admitted
  BY <1>3 DEF Admitted, Compiles, Validator
<1>4. CASE Answered
  BY <1>4 DEF Answered
<1>5. CASE Described
  BY <1>5 DEF Described, session
<1>6. CASE Sent
  BY <1>6 DEF Sent
<1>7. CASE DecodedAnswer
  BY <1>7 DEF DecodedAnswer, session
<1>8. CASE Concluded
  <2>1. requested \in Nat
    BY SessionAssumption DEF SessionAssumption
  <2>2. Negotiated(description, requested) \in LockedVersions \cup {NoVersion}
    BY <2>1, SessionAssumption, NegotiatedIsNegotiable DEF Negotiable
  <2> QED
    BY <1>8, <2>2 DEF Concluded
<1>9. CASE UNCHANGED session
  BY <1>9 DEF session
<1>10. CASE BodyEdited
  BY <1>10 DEF BodyEdited
<1>11. CASE SchemaEdited
  BY <1>11 DEF SchemaEdited
<1> QED
  BY <1>1, <1>2, <1>3, <1>4, <1>5, <1>6, <1>7, <1>8, <1>9, <1>10, <1>11
     DEF SessionNext, SessionContinues, SessionSettled, sessionVars

LEMMA StepVersion == SessionInv /\ [SessionNext]_sessionVars => VersionInv'
<1> SUFFICES ASSUME SessionInv, [SessionNext]_sessionVars PROVE VersionInv'
  OBVIOUS
<1> USE DEF SessionInv, VersionInv
<1>1. CASE Concluded
  <2>1. requested \in Nat
    BY SessionAssumption DEF SessionTypeOK, SessionAssumption
  <2>2. \/ Negotiated(description, requested) = NoVersion
        \/ Negotiated(description, requested) \in Negotiable(description, requested)
    BY <2>1, SessionAssumption, NegotiatedIsNegotiable DEF SessionTypeOK
  <2> QED
    BY <1>1, <2>2 DEF Concluded, Negotiable
<1>2. CASE UNCHANGED <<version, requested>>
  BY <1>2
<1>3. ASSUME NEW op \in Operations, Call(op) PROVE VersionInv'
  BY <1>3, <1>2 DEF Call
<1>4. CASE Refused \/ Admitted \/ Answered \/ Described \/ Sent \/ DecodedAnswer
  BY <1>4, <1>2 DEF Refused, Admitted, Answered, Described, Sent, DecodedAnswer, session
<1>5. CASE UNCHANGED session \/ BodyEdited \/ SchemaEdited
  BY <1>5, <1>2 DEF session, BodyEdited, SchemaEdited
<1> QED
  BY <1>1, <1>3, <1>4, <1>5 DEF SessionNext, SessionContinues, SessionSettled, sessionVars

LEMMA StepSnapshot == SessionInv /\ [SessionNext]_sessionVars => SnapshotInv'
<1> SUFFICES ASSUME SessionInv, [SessionNext]_sessionVars PROVE SnapshotInv'
  OBVIOUS
<1> USE DEF SessionInv, SnapshotInv
<1>1. ASSUME NEW op \in Operations, Call(op) PROVE SnapshotInv'
  BY <1>1 DEF Call
<1>2. CASE Refused
  BY <1>2 DEF Refused, Refuse, Fail, MayCarry, IInv, CommandInv
<1>3. CASE Admitted
  <2>1. ~dispatched'
    BY <1>3 DEF Admitted, Begin, IInv, CommandInv
  <2>2. Versioned => \/ VehicleRead \/ HistoryRead \/ DataQualityRead \/ MetadataRead
                     \/ CommandRead \/ CreateMetadata \/ ReplaceMetadata
                     \/ DeleteMetadata \/ CreateCommand
    BY <1>3 DEF Admitted
  <2>3. operation = "createCommand" => input \in Accepted(schema)
    BY <2>2 DEF Versioned, VehicleRead, HistoryRead, DataQualityRead, MetadataRead,
                CommandRead, CreateMetadata, ReplaceMetadata, DeleteMetadata, CreateCommand, Validator
  <2>4. operation \in {"createMetadata", "replaceMetadata"} => input \in Fitting
    BY <2>2 DEF Versioned, VehicleRead, HistoryRead, DataQualityRead, MetadataRead,
                CommandRead, CreateMetadata, ReplaceMetadata, DeleteMetadata, CreateCommand
  <2>5. operation' = operation /\ admitted' = input /\ admittedBy' = schema
    BY <1>3 DEF Admitted
  <2> QED
    BY <2>1, <2>3, <2>4, <2>5 DEF MayCarry
<1>4. CASE Sent
  BY <1>4 DEF Sent, Dispatch, Fail, MayCarry, IInv, CommandInv
<1>5. CASE /\ UNCHANGED <<operation, admitted, wire, admittedBy, dispatched>>
           /\ place' \in {"authorizing", "authorized"} =>
                 place \in {"authorizing", "authorized"}
  BY <1>5 DEF MayCarry
<1>6. CASE Answered \/ Described \/ DecodedAnswer \/ Concluded
  BY <1>6, <1>5 DEF Answered, Described, DecodedAnswer, Concluded, FetchAnswers, Decode,
                    Finish, Fail, session
<1>7. CASE UNCHANGED session /\ (Receive \/ AbortSeen \/ TransportActs)
  BY <1>7, <1>5 DEF session, Receive, AbortSeen, TransportActs, ProviderAnswers,
     HubExecutes, FetchFails, FetchAborts, BodyAnswers, Chunk, EmptyChunk, BodyEnds,
     BodyBreaks, Abort, Fail, FailAndRelease
<1>8. CASE BodyEdited \/ SchemaEdited \/ UNCHANGED sessionVars
  BY <1>8, <1>5 DEF BodyEdited, SchemaEdited, sessionVars, session, vars
<1> QED
  BY <1>1, <1>2, <1>3, <1>4, <1>6, <1>7, <1>8
     DEF SessionNext, SessionContinues, SessionSettled

(* AcceptedVersions depends on what no operation changes.                  *)
LEMMA AcceptedIsStable ==
    ASSUME UNCHANGED <<description, version>>
    PROVE  AcceptedVersions' = AcceptedVersions
BY DEF AcceptedVersions, Negotiated, Negotiable

LEMMA StepAnswer == SessionInv /\ [SessionNext]_sessionVars => AnswerInv'
<1> SUFFICES ASSUME SessionInv, [SessionNext]_sessionVars PROVE AnswerInv'
  OBVIOUS
<1> USE DEF SessionInv, AnswerInv
<1>1. ASSUME NEW op \in Operations, Call(op) PROVE AnswerInv'
  BY <1>1 DEF Call, Successes
<1>2. ASSUME UNCHANGED <<description, version, operation, answered, response>>,
             place' = "decoded" => place = "decoded",
             place' # "done" => outcome' = outcome /\ place # "done",
             outcome' \in {"ok", "notModified"} => outcome \in {"ok", "notModified"}
      PROVE  AnswerInv'
  BY <1>2, AcceptedIsStable DEF Versioned
<1>3. CASE Refused \/ Admitted \/ Sent \/ BodyEdited \/ SchemaEdited
  BY <1>3, <1>2 DEF Refused, Admitted, Sent, BodyEdited, SchemaEdited, Refuse, Begin,
     Dispatch, Fail, Reported, vars
<1>4. CASE Answered
  <2>1. place' = "headers" /\ outcome' = outcome
    BY <1>4 DEF Answered, FetchAnswers
  <2>2. AcceptedVersions' = AcceptedVersions /\ operation' = operation
    BY <1>4, AcceptedIsStable DEF Answered
  <2>3. Versioned /\ response' \in Successes => answered' \in AcceptedVersions
    BY <1>4 DEF Answered
  <2>4. outcome = "none"
    BY <1>4 DEF Answered, FetchAnswers
  <2> QED
    BY <2>1, <2>2, <2>3, <2>4 DEF Versioned
<1>5. CASE Described
  <2>1. place' = "headers" /\ outcome' = outcome /\ outcome = "none"
    BY <1>5 DEF Described, FetchAnswers
  <2>2. ~Versioned'
    BY <1>5 DEF Described, session, Versioned
  <2> QED
    BY <2>1, <2>2
<1>6. CASE DecodedAnswer
  <2>1. UNCHANGED <<description, version, operation, answered, response>>
    BY <1>6 DEF DecodedAnswer, Decode, session
  <2>2. CASE place' = "done"
    <3>1. outcome' \notin {"ok", "notModified"}
      BY <1>6, <2>2 DEF DecodedAnswer, Decode, Fail, Reported
    <3> QED
      BY <2>1, <2>2, <3>1, <1>2
  <2>3. CASE place' # "done"
    <3>1. place' = "decoded" /\ outcome' = outcome /\ outcome = "none"
      BY <1>6, <2>3 DEF DecodedAnswer, Decode, Fail
    <3>2. response \in {"right", "foreign"} \/ response = "notModified"
      BY <1>6, <2>3 DEF DecodedAnswer, Decode, Fail
    <3>3. response = "notModified" /\ Versioned => answered \in AcceptedVersions
      BY <1>6, <3>1 DEF DecodedAnswer
    <3>4. Versioned => answered \in AcceptedVersions
      BY <3>2, <3>3 DEF Successes
    <3> QED
      BY <2>1, <3>1, <3>2, <3>4, AcceptedIsStable DEF Versioned
  <2> QED
    BY <2>2, <2>3
<1>7. CASE Concluded
  <2>1. place = "decoded" /\ place' = "done" /\ response' = response
    BY <1>7 DEF Concluded, Finish, Fail
  <2>2. UNCHANGED <<description, operation, answered>>
    BY <1>7 DEF Concluded
  <2>3. CASE Versioned
    <3>1. version' = version
      BY <1>7, <2>3 DEF Concluded, Versioned
    <3> QED
      BY <2>1, <2>2, <2>3, <3>1, AcceptedIsStable DEF Versioned
  <2>4. CASE ~Versioned
    BY <2>1, <2>2, <2>4 DEF Versioned
  <2> QED
    BY <2>3, <2>4
<1>8. CASE UNCHANGED session /\ (Receive \/ AbortSeen \/ TransportActs)
  <2>1. UNCHANGED <<description, version, operation, answered>>
    BY <1>8 DEF session
  <2>2. /\ UNCHANGED response
        /\ place' = "decoded" => place = "decoded"
        /\ place' # "done" => outcome' = outcome
        /\ outcome' \in {"ok", "notModified"} => outcome \in {"ok", "notModified"}
    BY <1>8 DEF Receive, AbortSeen, TransportActs, ProviderAnswers,
     HubExecutes, FetchFails, FetchAborts, BodyAnswers, Chunk, EmptyChunk, BodyEnds,
     BodyBreaks, Abort, Fail, FailAndRelease, Reported
  <2>3. place' # "done" => place # "done"
    BY <1>8 DEF Receive, AbortSeen, TransportActs, ProviderAnswers,
     HubExecutes, FetchFails, FetchAborts, BodyAnswers, Chunk, EmptyChunk, BodyEnds,
     BodyBreaks, Abort, Fail, FailAndRelease, Interruptible
  <2> QED
    BY <2>1, <2>2, <2>3, <1>2
<1>9. CASE UNCHANGED sessionVars
  BY <1>9, <1>2 DEF sessionVars, session, vars
<1> QED
  BY <1>1, <1>3, <1>4, <1>5, <1>6, <1>7, <1>8, <1>9
     DEF SessionNext, SessionContinues, SessionSettled

-----------------------------------------------------------------------------
(* The invariant of a session: versions, snapshots and answers, and what   *)
(* RichOperationProofs knows of the operation under way.                   *)
THEOREM SessionInvHolds == SessionSpec => []SessionInv
<1>1. SessionInv /\ [SessionNext]_sessionVars => SessionInv'
  BY StepIInv, StepSessionType, StepVersion, StepSnapshot, StepAnswer DEF SessionInv
<1> QED
  BY <1>1, SessionInitInv, PTL DEF SessionSpec

(* The session and its operation keep their types.                         *)
THEOREM SessionTypeCorrect == SessionSpec => [](OperationTypeOK /\ SessionTypeOK)
<1>1. SessionInv => OperationTypeOK /\ SessionTypeOK
  BY DEF SessionInv, IInv
<1> QED
  BY <1>1, SessionInvHolds, PTL

(* Nothing is sent but what was validated when the method was called       *)
(* (src/src/client/client.ts:315-347, 418-449,                             *)
(* src/src/commands/advertised-command.ts:38-58).                          *)
THEOREM OnlyTheAdmittedIsSent == SessionSpec => []SentIsAdmitted
<1>1. SessionInv => SentIsAdmitted
  BY DEF SessionInv, SnapshotInv, MayCarry, SentIsAdmitted
<1> QED
  BY <1>1, SessionInvHolds, PTL

(* No answer is in a version the session's caller has not asked for        *)
(* (src/src/protocol/negotiation.ts:9-39, src/src/client/client.ts:623) .  *)
THEOREM EveryAnswerIsUnderstood == SessionSpec => []AnswersAreUnderstood
<1>1. SessionInv => AnswersAreUnderstood
  BY SessionAssumption, AcceptedIsUnderstood
     DEF SessionInv, AnswerInv, AnswersAreUnderstood
<1> QED
  BY <1>1, SessionInvHolds, PTL

(* What RichOperationProofs shows of one operation holds of each that is   *)
(* called on a session (src/src/client/client.ts:486-621).                 *)
THEOREM EveryOperationIsSound ==
    SessionSpec => [](CommandIsNotDenied /\ BodyIsReleased /\ BufferFits)
<1>1. SessionInv => CommandIsNotDenied /\ BodyIsReleased /\ BufferFits
  BY DEF SessionInv, IInv, CommandInv, BodyInv, CommandIsNotDenied, BodyIsReleased,
         Places, OperationTypeOK, Problems
<1> QED
  BY <1>1, SessionInvHolds, PTL

(* No operation on a session succeeds after it was aborted                 *)
(* (src/src/client/client.ts:520, 560, 611).                               *)
THEOREM AbortBeatsEverySuccess == SessionSpec => AbortWins
<1>1. SessionInv /\ [SessionNext]_sessionVars =>
         [outcome = "none" /\ outcome' \in {"ok", "notModified"} /\ kind # "session" =>
             ~aborted]_vars
  <2> SUFFICES ASSUME SessionInv, [SessionNext]_sessionVars,
                      outcome = "none", outcome' \in {"ok", "notModified"},
                      kind # "session"
               PROVE  ~aborted
    OBVIOUS
  <2>1. ~\E op \in Operations : Call(op)
    BY DEF Call
  <2>2. ~UNCHANGED sessionVars
    BY DEF sessionVars, vars
  <2>3. [Next]_vars
    BY <2>1, <2>2, StepIsOfOperation
  <2> QED
    BY <2>3, SuccessLooksAtSignal DEF SessionInv
<1> QED
  BY <1>1, SessionInvHolds, PTL DEF SessionSpec, AbortWins
=============================================================================
