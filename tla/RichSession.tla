----------------------------- MODULE RichSession -----------------------------
(***************************************************************************)
(* A session of the rich client (src/src/client/session.ts, client.ts) and *)
(* the operations called on it one after another, each of them a           *)
(* RichOperation.  The making of the session keeps the Hub's description   *)
(* and the version that was negotiated; every later operation looks at     *)
(* both, and a command also at the cache of compiled schemas               *)
(* (src/src/commands/advertised-command.ts).                               *)
(*                                                                         *)
(* The session is frozen, what it holds is not: its caller may edit the    *)
(* description it was given, and the body of an operation while that is    *)
(* under way.  Of the description it edits a schema here, in place or by   *)
(* another object; nothing else of it is remembered beyond one check.      *)
(*                                                                         *)
(* Versions are their places in the order of versions: the three the SDK   *)
(* knows and what lies below, between and above.                           *)
(***************************************************************************)
EXTENDS RichOperation

CONSTANTS
    Operations,   \* the methods that are called, a subset of AllOperations
    MaxCalls,     \* bound on the operations after the making of the session
    Requests,     \* requestedProtocolVersion; another major is below all
    Descriptions, \* what a Hub may describe: see SessionAssumption
    Bodies,       \* request bodies
    Fitting,      \* those that validate for the metadata operation and its path
    NoBody,
    Schemas,      \* schemas that may be advertised for the command
    NoSchema,
    Accepted(_)   \* the bodies a schema accepts

LockedVersions == {1, 3, 5}
NoVersion      == 0

AllOperations == {"discoverHub", "listVehicles", "getVehicleCurrentState",
    "listVehicleDrives", "getDrive", "listDrivePositions", "listVehicleCharges",
    "getCharge", "listChargeSamples", "listVehicleStates", "listVehicleUpdates",
    "listDataQuality", "listVehicleMetadata", "getMetadata", "createMetadata",
    "replaceMetadata", "deleteMetadata", "createCommand", "getCommand"}

ASSUME SessionAssumption ==
    /\ "session" \in Kinds
    /\ Operations \subseteq AllOperations
    /\ MaxCalls \in Nat
    /\ Requests \subseteq Nat
    /\ \A d \in Descriptions :
          /\ d.supported \subseteq Nat       \* supported_versions
          /\ d.minimum \in Nat               \* minimum_client_version
          /\ d.sameMajor \in BOOLEAN         \* current_version is of major 1
          /\ d.schema \in Schemas            \* of the command's parameters
    /\ Fitting \subseteq Bodies
    /\ NoBody \notin Bodies
    /\ NoSchema \notin Schemas
    /\ \A s \in Schemas : Accepted(s) \subseteq Bodies

VARIABLES
    requested,   \* requestedProtocolVersion
    description, \* what the Hub describes: descriptor of the session
    version,     \* protocolVersion of the session, once it is made
    operation,   \* the method called
    calls,       \* operations called on the session
    input,       \* what the caller's body object holds
    admitted,    \* the snapshot of it
    wire,        \* the body of the request
    schema,      \* what the advertised schema object holds
    cache,       \* entry of schemaValidators for it: the schema it was made of
    admittedBy,  \* history: the schema when the operation was called
    answered     \* Teslatlas-Protocol-Version of the answer

session     == <<requested, description, version, operation, calls, input, admitted,
                 wire, schema, cache, admittedBy, answered>>
sessionVars == <<vars, session>>

Versioned == operation \notin {"createClientSession", "discoverHub"}

-----------------------------------------------------------------------------
(* Protocol versions (src/src/protocol/negotiation.ts).                    *)
Negotiable(d, r) ==
    {v \in LockedVersions : v \in d.supported /\ v <= r /\ d.minimum <= v}

Negotiated(d, r) ==
    IF d.sameMajor /\ d.minimum <= r /\ Negotiable(d, r) # {}
    THEN CHOOSE v \in Negotiable(d, r) : \A w \in Negotiable(d, r) : w <= v
    ELSE NoVersion

(* Any version the Hub offers is understood.                               *)
BadAcceptedVersions == {v \in LockedVersions : Negotiated(description, v) = v}

(* #acceptedResponseVersions: those an older client would have negotiated. *)
AcceptedVersions ==
    {v \in LockedVersions : v <= version /\ Negotiated(description, v) = v}

-----------------------------------------------------------------------------
(* What the methods ask for before anything is sent.  Identifiers, cursors,*)
(* limits and ranges of time that are not valid are refusals (Refuse).     *)
Offers(capability) == capability \in description.offered

VehicleRead ==
    /\ operation \in {"listVehicles", "getVehicleCurrentState"}
    /\ Offers("query.vehicles")

HistoryRead ==
    /\ operation \in {"listVehicleDrives", "getDrive", "listDrivePositions",
                      "listVehicleCharges", "getCharge", "listChargeSamples",
                      "listVehicleStates", "listVehicleUpdates"}
    /\ Offers("query.history")

DataQualityRead == operation = "listDataQuality" /\ Offers("data-quality")

MetadataRead ==
    /\ operation \in {"listVehicleMetadata", "getMetadata"}
    /\ Offers("metadata.mutable")

CommandRead == operation = "getCommand" /\ Offers("commands.async")

(* The snapshot must validate, and name the vehicle of the path.           *)
CreateMetadata ==
    /\ operation = "createMetadata"
    /\ Offers("metadata.mutable")
    /\ input \in Fitting

ReplaceMetadata ==
    /\ operation = "replaceMetadata"
    /\ Offers("metadata.mutable")
    /\ input \in Fitting

DeleteMetadata == operation = "deleteMetadata" /\ Offers("metadata.mutable")

(* A schema that was compiled is used as long as its object lives.         *)
BadValidator == IF cache # NoSchema THEN cache ELSE schema

(* matchesJsonSchema: what was compiled for the schema object is used only *)
(* while the object reads as it did, otherwise compiled again.             *)
Validator == IF cache = schema THEN cache ELSE schema

CreateCommand ==
    /\ operation = "createCommand"
    /\ Offers("commands.async")
    /\ input \in Accepted(Validator)

Compiles == IF operation = "createCommand" THEN Validator ELSE cache

-----------------------------------------------------------------------------
SessionInit ==
    /\ Init
    /\ kind = "session"
    /\ operation = "createClientSession"
    /\ requested \in Requests
    /\ description \in Descriptions
    /\ version = NoVersion
    /\ calls = 0
    /\ input = NoBody /\ admitted = NoBody /\ wire = NoBody
    /\ schema = description.schema
    /\ cache = NoSchema /\ admittedBy = NoSchema
    /\ answered = NoVersion

WithBody == {"createMetadata", "replaceMetadata", "createCommand"}

KindsOf(op) ==
    IF op = "createCommand" THEN {"command"}
    ELSE IF op \in {"createMetadata", "replaceMetadata", "deleteMetadata"}
    THEN {"write"}
    ELSE Reads

(* A method is called on the session: a new RichOperation, and the caller  *)
(* has a body to send.                                                     *)
Call(op) ==
    /\ place = "done"
    /\ version # NoVersion
    /\ calls < MaxCalls
    /\ calls' = calls + 1
    /\ operation' = op
    /\ kind' \in KindsOf(op) \cap Kinds
    /\ place' = "idle"
    /\ aborted' = FALSE /\ dispatched' = FALSE /\ executed' = FALSE
    /\ response' = "none" /\ body' = "none" /\ outcome' = "none"
    /\ size' = 0 /\ capacity' = Smaller(FirstBytes, MaxBytes) /\ empties' = 0
    /\ input' \in IF op \in WithBody THEN Bodies ELSE {NoBody}
    /\ admitted' = NoBody /\ wire' = NoBody
    /\ admittedBy' = NoSchema /\ answered' = NoVersion
    /\ UNCHANGED <<requested, description, version, schema, cache>>

(* Whether or not the body fits, its schema may have been compiled.        *)
Refused ==
    /\ Refuse
    /\ cache' \in {cache, Compiles}
    /\ UNCHANGED <<requested, description, version, operation, calls, input, admitted,
                   wire, schema, admittedBy, answered>>

(* The method goes on to its request with a snapshot of the body.          *)
Admitted ==
    /\ Begin
    /\ Versioned =>
          \/ VehicleRead \/ HistoryRead \/ DataQualityRead \/ MetadataRead
          \/ CommandRead \/ CreateMetadata \/ ReplaceMetadata \/ DeleteMetadata
          \/ CreateCommand
    /\ place' = IF Versioned THEN "authorizing" ELSE "authorized"
    /\ admitted' = input
    /\ admittedBy' = schema
    /\ cache' = Compiles
    /\ UNCHANGED <<requested, description, version, operation, calls, input, wire,
                   schema, answered>>

(* The body is turned into text when it is sent.                           *)
BadSent ==
    /\ Dispatch
    /\ wire' = IF dispatched' THEN input ELSE wire
    /\ UNCHANGED <<requested, description, version, operation, calls, input, admitted,
                   schema, cache, admittedBy, answered>>

(* What buildWriteRequest put into the request is the text of the snapshot.*)
Sent ==
    /\ Dispatch
    /\ wire' = IF dispatched' THEN admitted ELSE wire
    /\ UNCHANGED <<requested, description, version, operation, calls, input, admitted,
                   schema, cache, admittedBy, answered>>

(* The answer to an operation: with the status of success its version must *)
(* be one of those accepted, otherwise its headers are wrong; that of a 304*)
(* is looked at when its body has been read.                               *)
Answered ==
    /\ operation # "createClientSession"
    /\ FetchAnswers
    /\ answered' \in LockedVersions \cup {NoVersion}
    /\ Versioned /\ response' \in Successes => answered' \in AcceptedVersions
    /\ UNCHANGED <<requested, description, version, operation, calls, input, admitted,
                   wire, schema, cache, admittedBy>>

(* The answer to the making of a session describes the Hub.                *)
Described ==
    /\ operation = "createClientSession"
    /\ FetchAnswers
    /\ response' = "right"   => Negotiated(description, requested) # NoVersion
    /\ response' = "foreign" => Negotiated(description, requested) = NoVersion
    /\ UNCHANGED session

DecodedAnswer ==
    /\ Decode
    /\ response = "notModified" /\ place' = "decoded" /\ Versioned =>
          answered \in AcceptedVersions
    /\ UNCHANGED session

(* createClientSession returns what it has negotiated.                     *)
Concluded ==
    /\ Finish
    /\ version' = IF operation = "createClientSession" /\ outcome' = "ok"
                  THEN Negotiated(description, requested) ELSE version
    /\ UNCHANGED <<requested, description, operation, calls, input, admitted, wire,
                   schema, cache, admittedBy, answered>>

(* The caller writes to the object it has passed; nobody reads it once the *)
(* request is on its way.                                                  *)
BodyEdited ==
    /\ operation \in WithBody
    /\ place \in {"idle", "authorizing", "authorized"}
    /\ input' \in Bodies \ {input}
    /\ UNCHANGED <<vars, requested, description, version, operation, calls, admitted,
                   wire, schema, cache, admittedBy, answered>>

(* It edits the schema in the session's description, or puts another in    *)
(* its place, which has no entry in the cache; only a command reads it.    *)
SchemaEdited ==
    /\ operation = "createCommand"
    /\ place \in {"idle", "authorizing"}
    /\ schema' \in Schemas \ {schema}
    /\ cache' \in {cache, NoSchema}
    /\ UNCHANGED <<vars, requested, description, version, operation, calls, input,
                   admitted, wire, admittedBy, answered>>

-----------------------------------------------------------------------------
SessionContinues ==
    \/ Sent
    \/ DecodedAnswer
    \/ Concluded
    \/ (Receive \/ AbortSeen) /\ UNCHANGED session

TransportActs ==
    \/ ProviderAnswers \/ HubExecutes \/ FetchFails
    \/ FetchAborts \/ BodyAnswers \/ Abort

SessionSettled == place = "done" /\ UNCHANGED sessionVars

SessionNext ==
    \/ \E op \in Operations : Call(op)
    \/ Refused \/ Admitted \/ Answered \/ Described
    \/ SessionContinues
    \/ TransportActs /\ UNCHANGED session
    \/ BodyEdited \/ SchemaEdited
    \/ SessionSettled

SessionSpec == SessionInit /\ [][SessionNext]_sessionVars

(* As in FairSpec.                                                         *)
FairSessionSpec ==
    /\ SessionSpec
    /\ WF_sessionVars(SessionContinues)
    /\ WF_sessionVars(FetchAborts /\ UNCHANGED session)
    /\ WF_sessionVars(BodyAnswers /\ UNCHANGED session)

-----------------------------------------------------------------------------
SessionTypeOK ==
    /\ requested \in Requests
    /\ description \in Descriptions
    /\ version \in LockedVersions \cup {NoVersion}
    /\ operation \in Operations \cup {"createClientSession"}
    /\ calls \in 0 .. MaxCalls
    /\ {input, admitted, wire} \subseteq Bodies \cup {NoBody}
    /\ {schema, cache, admittedBy} \subseteq Schemas \cup {NoSchema}
    /\ answered \in LockedVersions \cup {NoVersion}

(* docs/architecture.md:22 - a command is sent only with a body that the   *)
(* schema advertised when it was called accepts, metadata only with one    *)
(* that validates for the path's vehicle, whatever the caller edits in     *)
(* between and whatever was compiled before (client.ts:315-347, 418-449,   *)
(* advertised-command.ts:38-58, json-request-snapshot.ts:19-34).           *)
SentIsAdmitted ==
    dispatched =>
        /\ operation = "createCommand" => wire \in Accepted(admittedBy)
        /\ operation \in {"createMetadata", "replaceMetadata"} => wire \in Fitting

(* No operation returns an answer in a version that is newer than what the *)
(* session's caller asked for, older than the Hub admits, or not offered   *)
(* (negotiation.ts:9-39, client.ts:623-632, response-decoder.ts:206-216).  *)
AnswersAreUnderstood ==
    Versioned /\ outcome \in {"ok", "notModified"} =>
        /\ answered <= requested
        /\ answered \in description.supported
        /\ description.minimum <= answered
=============================================================================
