# A TLA+ development for the Teslatlas TypeScript SDK

This directory specifies the parts of the SDK whose correctness depends on the
order of things: what interleaves with what, what fails half way, what is
aborted, what is left behind by a kill. TLC checks the specifications on small
instances; TLAPS proves the most important results for every value of the
constants. Paths below are relative to the root of the repository;
`client.ts` without a directory is the one of the section it is in.

## 1. Inventory

The SDK is one npm package with two clients, an event stream and the scripts
that maintain and accept it.

| Component | State it keeps | Operations | What is hard |
|---|---|---|---|
| **Hub client**, `src/hub/client.ts` | session generation, session abort controller, disposed flag, cached discovery document, the pending shared discovery with its waiter count, the chain of credential mutations, cursor bindings | `discover`, `health`, `readiness`, `claimPairing`, `rotateDevice`, `vehicles`, `current`, `drives`, `logout`, `dispose` | any number of calls interleave at every `await`; three abort signals; logout while calls are under way; a credential store that may reject a write it carried out |
| **Node claim transport**, `src/hub/node-claim-transport.ts` | one TLS request | one POST with a pinned leaf certificate | abort, limit and stream errors race to settle one promise |
| **Rich client**, `src/client/client.ts`, `session.ts` | none between operations (a frozen session) | `createClientSession`, some twenty named operations (reads, conditional reads, metadata writes, commands) | a command may have been carried out whatever its answer; ownership of response bodies; abort at any point |
| **HTTP**, `src/http/*` | one request: buffer, counters | authorization, dispatch, bounded reading, decoding, request building | endless or huge bodies, stalled promises, buffer arithmetic |
| **Negotiation, capabilities, commands**, `src/protocol`, `src/core`, `src/commands` | a cache of compiled schemas | choose a version, require a capability, validate a command | order of versions; otherwise pure |
| **Pagination**, `src/client/operations.ts`, `scripts/drive-pagination.mjs` | cursors seen | iterate pages | repeated or endless cursors |
| **Event subscription**, `src/events/sse-subscription.ts`, `protocol-subscription.ts` | checkpoint in memory and in the caller's store, stream position, reconnect count | an async generator | crash or abort between event and checkpoint, broken streams, terminal answers |
| **SSE parser**, `src/events/sse-parser.ts` | partial line, partial block, counters | feed chunks, take items | chunks cut anywhere, size limits |
| **Protocol synchronization**, `scripts/sync-protocol.mjs` | the vendored protocol, a journal, staging directories | replace nine paths under a journal, roll back, recover | kills and failing calls between any two file operations, concurrent runs |
| **Browser acceptance**, `scripts/browser-control-orchestrator.mjs`, `browser-trust-sequence.mjs`, `firefox-nss-profile.mjs`, `browser-hub-runner.mjs` | child processes, an imported certificate, a Firefox profile | start, observe, stop, clean up | actions that outlive their deadline, cleanup that fails half way |
| **Package gates and evidence**, other scripts and `tools/` | files | build, pack, compare, record | sequential input and output |

How they interact: both clients send through `FetchTransport`, which asks the
caller's authorization provider, calls `onDispatch` and then Fetch. The Hub
client passes its mutation queue's store as provider and its session check as
`onDispatch`. The event subscription is given the session's transport and the
caller's checkpoint store, and pulls its items from the parser. Everything the
SDK waits for (Fetch, stores, providers, consumers of iterables) is the
caller's or the network's and is environment in every model. Nothing is shared
between two clients, or between two operations of the rich client, but what
the caller shares.

What makes the components correct, in a sentence each: the Hub client sends a
bearer only for an identity established in the same session and never lets an
ended session come back; a credential is saved when success is reported and
gone when logout has returned; an operation of the rich client never denies a
command that was carried out, never leaves a body behind and always obeys an
abort; the event stream is at-least-once and resumes; the vendored protocol
changes as a whole or not at all.

`PROJECT.json` lists every component with its status and, under `hazards`, the
line where each difficulty bites and the properties aimed at it.

## 2. Modules

    HubDiscovery        session, signals and the shared discovery
      HubClient           EXTENDS it with credentials, requests and the queue
        HubClientProofs     about both
    HubDrives           cursor bindings and the walk over all pages
      HubDrivesProofs
    RichOperation       one operation of the rich client, transport to answer
      RichSession         EXTENDS it: the session and its operations in turn
        RichSessionProofs   about both
    SseSubscription     the event generator, its store, consumer and Hub
      SseSubscriptionProofs
    SseParser           what feeds it: bytes cut anywhere become items
      SseParserProofs
    ProtocolSync        the journalled replacement of the protocol
      AtomicTree          what it promises (refined by ProtocolSync)
      ProtocolSyncProofs
    BrowserControl      the orchestrator and its child processes
    TrustSequence       the runner: browsers and the imported certificate
      BrowserAcceptance   EXTENDS both: the runner as a child
      BrowserAcceptanceProofs
    NssProfile          the disposable Firefox profile and its retries
      NssProfileProofs
    MC...               instances for TLC, one .cfg per run

Conventions. In the models of the SDK a step is the code between two `await`s:
JavaScript runs it without interruption, and everything else may run before the
next. Abort listeners run inside the step that aborts. In `ProtocolSync` a step
is one call of the file system. The definitions named `Bad...` are not part of
any specification: each is a definition with a mistake one could make in the
code, stands directly before the right one, and in its place breaks the property
`PROJECT.json` lists it under. History variables are marked as such where they
are declared.

### HubDiscovery (`src/hub/client.ts`)

`generation`, `disposed`, `discovery` and `pending` are the fields of the same
name with a `#`. A fetch `f` is one pass of `#discover`; `stage[f]` says how far
its chain `#read().then().catch().finally()` has run, each reaction being an
action (`FetchAnswers`, `FetchFails`, `FetchThen`, `FetchCatch`,
`FetchFinally`), `waiters[f]` is `PendingDiscovery.waiters`, `released[f]` its
controller. A call goes `idle`, `waiting` (in `#waitForDiscovery`),
`identified`, `ready`; a call of `discover()` goes from `waiting` to `resolved`,
where its result is on its way through the promises of two async functions with
no assertion left (`DiscoverReturns`). `Interrupt(S)` is the abort of the signals of the calls
`S` with all their listeners, which decrement the counters and abort a fetch
that nobody waits for. `Logout` and `Dispose` are the synchronous parts of the
methods. The Hub's answer is one of a matching document with or without query
capabilities, another UUID, or a failure.

### HubClient (`src/hub/client.ts`)

What the calls do after discovery. `queue` is `#credentialMutation` as the
sequence of the mutations not yet finished; `WriteStarts`, `SaveEnds` and
`ClearEnds` run it. `Load`/`LoadReturns` and `Authorize` are `#loadCredential`
within the transport (reads) or before it (rotation); `Dispatch` is
`onDispatch` with its session check; `HubAccepts` may change what the Hub
honours although the answer is lost afterwards; `Receive` is the decoding with
its checks; `SaveReturns` the last check before the success of a claim or a
rotation. A query asserts for the last time when its response is decoded; from
there its answer passes through `withResponseOwnership` and the query method
(`read`, `ReadReturns`), and a logout, a disposal or an abort may run in between.
So a query or a `discover()` may succeed although `dispose()` has run a reaction
or two before, while `docs/architecture.md:44-45` says that disposal "rejects
stale operation success" and `src/hub/models.ts:149-151` that "the interrupted
operation cannot report success"; no property claims it of these. Claims and
rotations assert behind their save: `SuccessIsKept` is about them. A credential is a
number, `obtained`, `saved` and `cleared` are history. A store may reject a
write it has carried out.

### HubDrives (`src/hub/client.ts`, `scripts/drive-pagination.mjs`)

`bindings` is `#cursorBindings`, a function from cursors to the filter (vehicle
and bounds of time) each was handed out for. `Ask`, `IdentityKnown` and
`Dispatch` are `drives()` up to its request, `ReaderAnswered` and
`WalkerAnswered` the check of the page and the binding of its `next_cursor`
(`Bind`), `Discovery` and `Logout` what the rest of the client does to the
bindings. `began` is history: the newest drive when the walk asked for its first
page. The walker is `collectDrivePages` with `seen` for
`seenCursors`; the reader calls `drives()` as it likes and may edit its options
object while a call is under way. The Hub is either honest (the drives of a
filter below a key, newest first, while drives are added) or one that answers
with any page the validators accept.

### RichOperation (`src/client`, `src/http`)

One operation. `kind` is one of five control
shapes: a session, a read, a conditional read, a metadata write and a command.
`response` says what becomes of the answer (right, of another entity, wrong in
headers or body, a 304, a problem, a malformed problem); `body` who owns the
stream. `Chunk` is `readBoundedText` with its buffer and both limits,
`EmptyChunk` is `requireEmptyResponseBody`. `HubExecutes` may happen at any
time after dispatch, also when the client has given up. Making a session looks
at the signal before its body is read but not after it was decoded, and the
model says so: `AbortWins` exempts it.

### RichSession (`src/client`, `src/protocol/negotiation.ts`, `src/commands`)

The first operation is the making of the session; `Negotiated` is
`negotiateProtocolVersion` on the Hub's description, versions being numbers that keep
their order. `Call` begins any of nineteen methods with what that method
asks for before it sends anything: the capability, the minimum version, the
snapshot of the body, and, for a command, the schema the Hub advertised. `cache`
is the entry of `schemaValidators` for the schema object, made of what that
object held when it was first used. The caller may edit its body and the schema
at any time (`BodyEdited`, `SchemaEdited`). A command the Hub carries
out after the next operation was called is not followed further.

### SseSubscription (`src/events`)

`place` is where the generator is suspended; `committed` is
`committedLastEventId`, `store` the caller's store. A block of the log is an
event, an event of an unknown name (mapped to `undefined`), one that does not
validate, an ID without data, or an empty ID. The Hub sends what follows
`Last-Event-ID`. `policy` is that of `streamEvents` or one that decides
anything. `Crash` stops the process anywhere; a save under way may have
happened. A later subscription starts from the store.

### SseParser (`src/events/sse-parser.ts`)

`parser` holds the fields of `IncrementalSseParser` with fragments and pending
text joined. `FeedWindow` is a pass of the loop over the windows of a chunk: it
chooses how much of the stream the window holds (`left`); `Feed` is one
character of the loop in `feed`, which an exception leaves with the rest of the
window unread; `Yield` is an item handed out by `takeItems`. A symbol stands for
a line end, a field name with its colon, or a character of one to three bytes.

What a text means is said without a parser, by places in it: `EndsOf` are the
places where a line ends (a CR LF pair ends one, at the CR), `LineAt` is the
line that ends at a place, `BlockAt` the lines no empty line separates from it,
`DataAt` their data, and `IdentifiersAt` the identifiers before it in any block.
`ItemsOf` puts together what each line makes; `IsTooLarge` looks at every line
and every block, the unfinished ones at the end included. The events,
checkpoints and ends of `SseSubscription` are the items and places of this
module.

### ProtocolSync (`scripts/sync-protocol.mjs`)

Every run is a process; `tree`, `staged[p]` and `backup[p]` map the replaced
paths to contents (the run that wrote them, the original, absent, or a
directory removed half way). `journal` and `nextFile` are the two files of the
transaction. `Fails` makes the call at hand throw and `Killed` ends the
process, both with what an interrupted call may leave (`Interrupted`).
`ReadJournal` joins the test for the journal and its reading in one step. The
property `ReplacesAtomically` is the specification `AtomicTree` under the
refinement mapping `Effective`: the tree a rollback would restore.

### BrowserControl, TrustSequence, BrowserAcceptance (`scripts/browser-*.mjs`)

`BrowserControl` is `runOwnedBrowserControl`: `phase` is where it is, `current`
the child it awaits, `child[c]` how that child ended and `forced[c]` the last
signal it was sent. A timeout is a step that may come at any time while a child
is awaited; SIGTERM and SIGKILL each give the child one more timeout, after
which the orchestrator throws.

`TrustSequence` is the runner: `at` is the action of `runSequentialMacTrustSequence` or
`cleanupResources` that is awaited. `withActionDeadline` does not stop what it
gives up, so a browser may open or close after its deadline, and only what was
recorded in `control` is closed by the sequence; what `tracked` holds beyond
that, a browser that opened late among it, is left to `cleanupResources`. The hooks are processes of
their own with a shorter timer that kills them; `cert` is the certificate in the
keychain, `absentSeen` what the verifying hook reported.

`BrowserAcceptance` makes the runner the orchestrator's child: spawning it is
`Start`, SIGKILL stops it wherever it is, and its exit code is how it ended.
The two parts share no variable.

### NssProfile (`scripts/firefox-nss-profile.mjs`)

`withFirefoxNssProfile` from `mkdtemp` on. `closeState` is that of the source,
`closing` counts the closes under way, `attempt` is what the attempt in hand
awaits (the close with its timer, the ownership check, the removal), `queued`
the `retry()` calls that have not settled, since attempts run one at a time
behind each other. A launch that fails may leave Firefox running. Another
process may replace the directory; `late` says that it did between the check of
its identity and its removal, a window the code cannot close. A directory is
"own" or "foreign" by what the code compares, its device, inode and owner: a
replacement that was given the same inode passes for the one the code made, in
the code and so in the model.

## 3. Runs

| Run | Instance | Shows |
|---|---|---|
| `hub_discovery` | 3 calls (symmetric), 2 fetches, 1 logout, disposal | identity of this session, exact waiter count, one live fetch, nobody aborted for another, failed refresh invalidates |
| `hub_client` | 2 calls (symmetric) of three kinds, 2 fetches, 1 logout, disposal, 3 credentials | a bearer leaves only in the session of its identity, logout is final, success is saved, a lock-out is reported, a claim or rotation reported as success leaves the device paired |
| `hub_client_live` | 2 calls, 1 fetch, 1 logout, fairness | every call is answered, the clear of every logout is handed to the store |
| `hub_stale_identity` | 2 calls, 2 fetches | violation, see Findings |
| `hub_drives` | 2 filters, 3 drives on pages of one, 2 pages allowed, honest and other Hubs | bindings are true, a walk that returns has every drive from the newest at its start down to the oldest |
| `rich_session` | 4 Hub descriptions, 3 requested versions, a session and 2 operations of 10 methods, limit of 3 bytes, first buffer of 1, 2 empty chunks, 2 bodies, 2 schemas | a carried-out command is not denied, bodies are released, the buffer fits, only what was validated is sent, answers are in a negotiated version, an abort wins and settles, endless bodies are given up |
| `sse_subscription` | 3 blocks of any kind, 2 breaks, 2 subscriptions, both policies, fairness | no event lost, none replayed that is saved, silence after an abort, every event reaches the consumer |
| `sse_parser` | 12,118 streams: short ones over small alphabets, and up to 4 blocks; windows of 3 symbols, 4 bytes of data | yields what the whole text means, limits are exact, nothing piles up |
| `protocol_sync` | 3 paths, 3 runs in sequence, 2 faults | atomic replacement, leftovers are harmless |
| `protocol_sync_race` | 2 paths, 3 runs, 2 at a time, 1 fault | violation, see Findings |
| `browser_acceptance` | 1 control, the runner or none, 2 cleanup commands, 2 browsers, 4 hooks | a verified removal is final, every cleanup is attempted, one command at a time, "passed" is clean, an import is undone and no browser that opened is forgotten, receipts are true, the orchestration ends |
| `nss_profile` | 4 calls of `retry()` | the profile is not removed under a running Firefox, every retry settles |

Why the bounds are enough to meet the hard cases. Two fetches are needed for a
superseded fetch and its successor, three calls for one that leaves, one that
stays and one that joins; a second logout repeats the situation of the first,
since every check compares with the current generation. Two credentialed calls
are what the queue and a rotation can conflict over, with three credentials for
the first and one each. Two filters let a cursor be used with the wrong one;
three drives on pages of one with two pages allowed are one page too many, and
one drive can be added between two pages. Three bytes with a first buffer of one
give growth by doubling, growth to what a chunk needs, and growth capped by the
limit. Two operations on a session are one that fills the cache of schemas and
one that finds it filled, with an edit in between; the ten methods of
`SomeMethods` are one for each combination of what a method asks for (the other
nine differ in path and body only); the four descriptions offer all versions, two
of them without commands, none the SDK knows, and another major. Three
blocks are one consumed, one in hand and one ahead; two breaks with two
subscriptions give a reconnect in each. Six symbols are a block of two lines that is cut
at every place, four bytes of data let a character of two bytes cross the limit,
and three symbols can end more than one block. Three paths are the directory, a file
and the lock; two faults are one in the replacement and one in its rollback;
three runs are one that fails, one that fails to recover and one that recovers.
Two cleanup commands are one that fails and one that must run nevertheless; the
trust sequence is not bounded. Four retries are the first one, made by the code,
and three that race behind it.
Where a theorem exists the bound only matters to the runs.

Deadlock is checked in every run but `browser_acceptance` and `nss_profile`.
There the system ends (the process has exited, the profile is gone or no call of
`retry()` is left) and nothing happens afterwards; that it does not stop before
is `OrchestrationEnds` and `RetriesSettle`. Elsewhere the states in which the
system may stop have an explicit stuttering action (`Quiescent`,
`ClientQuiescent`, `Settled`, `Finished`, `AllGone`).

Fairness. Promise reactions run (the event loop), so every step of a call, of a
fetch's chain and of the generator is weakly fair. `hub_client_live` assumes in
addition that requests and store calls end: without it a stalled store stalls
the queue, which the code does not try to prevent. `rich_session` assumes
only that Fetch rejects when its signal aborts, as its standard says, and that
a body answers each read with something; provider, Hub and end of body are
not fair. `EventsReachConsumer` assumes a consumer that keeps asking.
`browser_acceptance` assumes that the orchestrator's timers fire and its settled
awaits resume, `nss_profile` that the attempts do; children, browsers, hooks and
the close of Firefox promise nothing. No fairness makes a caller abort, log out
or begin a call. Every fairness condition is weak.

## 4. Proofs

All theorems are about the specification without its fairness, for every value of
the constants under the named assumptions of the module (`CallsAssumption`: the
calls are a finite set; `SessionAssumption`: what a Hub may describe and that
an advertised schema accepts bodies; the rest say that bounds are numbers). The
type invariants are proved here and are not among the properties of the runs.
Every safety invariant and every action property of the passing runs is stated
by a theorem. The inductive invariants were checked by TLC on the instances of
the runs before they were proved.

*HubClientProofs, discovery.* `IInvHolds` proves the invariant
`SessionInv /\ NoForeignAbort /\ FailureInvalidates`. The properties of the run
are not inductive: that the joinable fetch is live needs the order in which
fetches are used (`FetchOrder`: the joinable one is the latest), that the
counter is exact needs that a waiting call waits for a live fetch which, unless
settled, is the joinable one (`WaitingOnLiveFetch`), and that a failure
invalidates needs the verdict each stage allows (`VerdictOfStage`) and the calls
that are about to hear of it (`ToldOfFailure`). `SessionInv` is kept by every
step on its own and is stated separately, for the part on `HubClient` to use. From
the invariant follow `TypeCorrect`, `IdentityIsOfThisSession`,
`PendingIsJoinable`, `AtMostOneLiveFetch`, `AbortsAreOnesOwn`,
`FailureClearsIdentity` and `NobodyWaitsInVain`: every property of
`hub_discovery`, and that a waiting call waits for a fetch that will tell it.

*HubClientProofs, credentials.* Every safety property of `hub_client`. `ClientInv` is `SessionInv`,
kept because the client's own steps leave the session alone
(`MoveKeepsSession`), with what a call knows (`KnownAnswers`, `Identified`)
and `CredentialInv`, which follows a credential: the Hub gives it to one call,
which saves it in its own session, from where others load it. So every
credential that a call holds, that waits in the queue or that is stored was
obtained in a known session and no two calls were given the same one; writes
stand in the queue in the order of their sessions (`QueueOrder`), and a clear of
a later logout is behind every save of an earlier session (`CurrentWrite`). From
these `LogoutsAreFinal` (nothing of an ended session is stored once its clear
was carried out), `SuccessesAreSaved`, `LockoutsAreReported`
and the action properties `BearersFollowIdentity` and `SuccessesAreKept`. The
last one needs to know what stands behind a save that has ended (`Behind`,
`Keeping`): no write of an earlier session, and no clear unless the session of
the save has ended, so a call that still finds its session alive finds its
credential, or that of a later save, in the store.

*HubDrivesProofs.* `CursorsAreBoundTruly`; `ReturnedWalksAreComplete`, whose
invariant (`Position`) says that with an honest Hub the keys collected so far
reach without a gap from the first of the first page down to the key the next
cursor stands for, and (`Beginning`) that this first is not older than the
newest drive when the walk began; and `WalksAreBounded`, with any Hub.

*SseSubscriptionProofs.* The invariant adds to the type the position of the
stream: everything in front of it is passed (`StreamPosition`), and store and
memory agree except while a save is under way (`StoreIsCommitted`).
`AtLeastOnce` is the invariant's part on checkpoints; `SavedIsNotReplayed` is an
action property that needs `store = committed` where blocks arrive.
`NothingAfterAbort` says that once the signal has aborted no event is yielded and
no save begun. They hold for logs of any length and for any policy.

*SseParserProofs.* Two arguments, for any set of streams, any window and any
event budget. The first is an account (`ParserKeepsAccount`): the counters are
the sizes of the texts they count, and the items that wait and the symbols left
of the window together never exceed a window, since a symbol makes one item at
most. From it `ParserTypeCorrect` and `BuffersStayBounded`. The second says what
the parser knows (`ParserUnderstands`): field by field, it holds what the text
fed so far means (`Understood`). A text grows by one symbol a step, so for each
part of the meaning one lemma says that it stays for every place before the new
one and another what it becomes at the new one (`LineStays`, `LineGrows`, and
likewise for blocks, fields, identifiers, data, items and sizes); `FeedSymbol`
is compared with these, case by case (`FeedSymbolMeans`). From it
`ParsesEveryCut`, that the items do not depend on how the stream was cut, and
`LimitsAreKept`. The items and the data of a text are folds over its lines
(`FlattenSeq`); what they do when a line is added is proved from the least place
where it would fail, the naturals being well-founded (`LeastNatural`), since an
induction theorem that takes an operator cannot be used here.

*ProtocolSyncProofs.* For any number of runs, paths and faults, under the
hypothesis `MaxRunning <= 1` of each theorem: runs do not overlap. The code does
not enforce it, and without it the results are false, as the second finding
shows; whoever runs the script has to see to it. The invariant says
what a run knows at each `await` (`RunInv`): which paths are the old ones, which
the staged ones, which backups exist; and what the files say to the next run
when a kill leaves them there (`JournalInv`, `Installed`). From it
`LeavesNothingHarmful`, `RestoresBeforeRemoval`, and `SyncImplementsAtomicTree`:
a step of any kind, a kill or a failure included, either leaves `Effective`, the
tree that a rollback would restore, as it is or is the one replacement of
`AtomicTree`, and that is the rename of the committed journal.

*RichSessionProofs, one operation.* The invariant says who owns the body at each place
(`BodyInv`), what is known of a dispatched command (`CommandInv`) and how many
empty chunks a 304 has seen. It gives `ExecutedIsNotDenied`, `NoBodyIsLeft`,
`BufferIsLargeEnough` for every limit and first size (by the lemma `GrownFits`)
and the action property `AbortBeatsSuccess`.

*RichSessionProofs, the session.* Within an operation every step of the session is one of
`RichOperation` (`StepIsOfOperation`), so what was proved of one operation holds
for each in turn: `EveryOperationIsSound`, `AbortBeatsEverySuccess`. On top of
it `EveryAnswerIsUnderstood` needs that negotiation picks a version the caller can
understand (`NegotiatedIsNegotiable`, kept in `VersionInv`) and that no answer gets past
its headers in another (`AnswerInv`); `OnlyTheAdmittedIsSent` that the snapshot
was validated against what the schema held when the operation was called, also
when the validator came from the cache (`SnapshotInv`).

*BrowserAcceptanceProofs.* An invariant for the orchestrator (children begin in
their order and are left only closed or killed), one for the runner, and one
that ties the exit of the runner to where it stood. On top of the second,
`Tracking` says what the runner's books know of its browsers: one that is open
is tracked, one that was visited is no longer open. All safety properties of
`browser_acceptance` follow, for any number of commands.

*NssProfileProofs.* An attempt gets past its wait only when Firefox has exited
or was never launched: `NeverWhileRunning`, `NeverTwoCloses`,
`RemovalIsFinal` and, for a directory that is not ours when it is checked,
`OthersStay`.

Only model-checked: liveness (`CallsAreAnswered`, `LogoutsClear`,
`EventsReachConsumer`, `AbortSettles`, `ReadingEnds`, `OrchestrationEnds`,
`RetriesSettle`), which TLAPS does not reach here; and what overlapping runs of
the synchronization do, which is a finding.

## 5. Findings

* **A read may send its bearer after a failed refresh** (`hub_stale_identity`).
  `docs/compatibility.md:68` promises that a refresh that fails invalidates the
  cached identity "so an authenticated request cannot silently reuse an old
  discovery result". A read checks the identity once, before it loads its
  credential; `onDispatch` checks the session and the signals only. The run
  shows a `discover()` that fails in between.
* **Two recoveries of one dead run** (`protocol_sync_race`). The comment at
  `scripts/sync-protocol.mjs:265` says restoration is complete before the
  recovery pointer is removed. Recovery is not exclusive: one run removes the
  target another has just restored, and the other then removes the journal. With
  one run at a time the same property holds.

## 6. Not modelled, and why

* What strings look like: paths, headers, JSON, schemas, media types, tags. A
  model keeps the verdict and where it is taken.
* Inodes that are given out again: the ownership checks of `NssProfile` compare
  device, inode and owner, and the model takes these for the identity.
* Durations: a timeout or a delay is an event that may come at any time.
* `health()` and `readiness()` are the dispatch and receive steps of a read
  without identity and credential.
* Retry hints of the event stream: they change durations, not order.
* `iteratePages` (`src/client/operations.ts`): a generator over the caller's own
  page function, without a limit and called by nothing in the repository.
* The inner life of the claim transport: `HubClient` takes from it that it
  answers, fails or is aborted, once. Left for later, see the plan.
* The legacy simultaneous mode of the browser runner, the page it opens, and
  the preflights before the sequence.
* Of the session's description the caller edits only the schema in
  `RichSession`: nothing else of it is remembered beyond one check.
* `createCapabilitySet`, `checkProtocolVersion` and `assertCommandSafety`: pure
  helpers that nothing else in `src/` calls.
* The decoding of UTF-8 is the platform's; `SseParser` takes from it that a
  character is never cut.
* Generated validators and models (some 5,900 lines), build, pack, provenance,
  evidence and matrix tools, examples: pure or sequential, with no state that
  outlives them but files that are written once. They are the larger part of the
  repository's lines, which is why the modelled code is a small share of them.

## 7. Plan

In order of importance; done: 1 to 10 and 13.

1. `HubDiscovery`, its runs and its proofs.
2. `HubClient`, composing it with the credential queue, and its proofs.
3. `SseSubscription` with liveness and proofs.
4. `ProtocolSync` against `AtomicTree`.
5. `RichOperation` with proofs.
6. `SseParser` against the meaning of the whole text.
7. `TrustSequence` and `BrowserControl`, composed in `BrowserAcceptance`, with
   proofs.
8. `HubDrives`: cursor bindings, refreshes and pagination against a Hub that may
   hand out any cursor, with proofs.
9. `NssProfile`: retryable cleanup, with proofs.
10. `RichSession`: negotiation, capabilities, snapshots and the cache of schemas
    over several operations, with proofs.
11. The claim transport: one promise settled once, by an answer, an abort, a
    limit, a certificate that does not match or an error of the stream.
12. `ProtocolSync` with overlapping runs and no kill: the scan of the targets
    before the journal is created (`scripts/sync-protocol.mjs:168`), and what a
    torn journal costs (`:182`).
13. Proofs: the refinement of `AtomicTree` by `ProtocolSync` with one run at a
    time; `AbortIsSilent`; that `SseParser` finds what the whole text means.
14. Proofs that compose: the items of `SseParser` as the blocks of
    `SseSubscription`.
