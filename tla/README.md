# Antfly: a TLA+ verification project

Antfly is a distributed document database with search. A cluster has *metadata
servers* (one Raft group, which holds tables, users and desired state, and takes
the client API) and *store nodes*, which host *shards*. A shard owns a range of
keys, is a Raft group of its own, and applies its log to a Pebble database per
replica. On the client's side there are a TypeScript SDK, a React library of
search and answer widgets, and *Antfarm*, the console and playground that the
metadata server serves. This directory models the parts of all this that are hard
to get right by testing. Paths below are relative to the repository (`src/metadata`,
`src/store`, `src/raft` are Go; `ts/packages` and `ts/apps/antfarm` TypeScript).

The repository has TLA+ specifications of its own (`specs/tla`). They describe
the intended protocols. The modules here are translated from the code and say
what the code does, where it departs from the documents included.

## 1. Inventory

| component | state it keeps | operations | interacts with |
|---|---|---|---|
| hybrid logical clock, `src/metadata/hlc.go` | last physical time, logical counter, node ID; a process-wide ID counter | `NewHLC*`, `Now` | gives transactions their timestamps |
| orchestrator, `src/metadata/transaction.go` | local variables of `ExecuteTransaction` only: lost in a crash | init, write intents, commit or abort, notify | HTTP requests to shard leaders, retried when refused |
| transaction state of a shard, `src/store/db/db.go`, `helpers.go`, `storedb.go` | transaction records (coordinator), intents, documents with a version (`key:t`) | `InitTransaction`, `WriteIntent`, `CommitTransaction`, `AbortTransaction`, `ResolveIntents` as Raft entries | applied by `readCommits` |
| recovery loop, `db.go:1215-1429` | none across passes; rewrites records in the leader's Pebble without Raft | abort stale, notify, write back, clean up | proposes to its own shard, calls the other shards through a metadata server |
| batch path, `storedb.go` | proposal queue, coalescing buffers of `readCommits` | enqueue, merge, propose, coalesce, apply | Raft, indexes |
| Raft glue, `src/raft` | applied and snapshot index, hard state, log in Pebble | publish entries, trigger and install snapshots, restart | `readCommits` over an unbuffered channel, transport |
| split and merge, `storedb.go`, `shard.go` | byte range, split state, delta log, archives | prepare, split, finalize, roll back | reconciler, snapshot store, new shard |
| proposer, `lib/raftkv` | callbacks by UUID | propose, wait, notify, close | every write |
| in-flight queues, `lib/inflight` | dedupe queue, write-ahead buffer with attempt counts | enqueue, dequeue, retry, discard | enrichers, proposals |
| reconciler and table manager | desired and observed state, cooldowns | plan, execute | all store nodes |
| foreign replication, linear merge, backup, TTL | LSN checkpoints, cursors, archives | see `PROJECT.json` | batch path |
| search widgets, `ts/packages/components` | a reducer of registered widgets, a debounce timer, hashes of what was asked last | register, type, submit, page, filter, answer | `Listener` groups them into one multiquery |
| answer and chat streams, same package and `sdk/src/client.ts` | answer, turns, flags, the AbortController of the open stream | start, chunk, finish, fail, abort, rate | server-sent events |
| Termite pages of Antfarm | a form, the models on offer, the runs and their results | load, choose, run, abort, retry after 502 | Termite server, localStorage |
| Antfly pages of Antfarm | selected table and index, hits, chunks, eval sets, pipeline steps, chat | search, rerank, chunk, evaluate, ask | Antfly server; shared `TableProvider` |
| console of Antfarm | session, routes, palette, connection states, lists | log in, poll, administer | Antfly and Termite servers |
| queries, graph, vector and sparse indexes, AI, users, CLI, generated clients | read-only, numeric, or external | not modelled | |

What is hard, in the order of its weight:

* **Atomic commitment without a surviving coordinator process.** The orchestrator
  may die anywhere. The coordinator shard's record, a timer-driven recovery loop
  and late requests of a caller that gave up all act on the same transaction.
  Part of the loop's bookkeeping bypasses Raft, so replicas differ.
* **Restart and snapshots** in the Raft glue: what has been committed, published,
  applied and persisted are four different indexes.
* **Reordering in the batch path**: batches are merged before and after Raft.
* **Optimistic concurrency control and last-writer-wins** are both built on
  timestamps of several servers with several wall clocks.
* **Asynchrony in the browser.** Answers overtake each other, runs are aborted
  before, while and after they are answered, effects and timers run between two
  events of the user, components are unmounted with calls under way. Most of
  this code has no sequence numbers; what protects it are refs, cleanup functions
  and disabled buttons.
* **Split** with concurrent writes, transactions and crashes (not modelled yet).

`PROJECT.json` lists each of these hazards at its line, with the property that
covers it or the reason why none does.

## 2. Modules

| module | models |
|---|---|
| `HLC` | `hlc.go` |
| `Txn` | orchestrator, transaction state of the shards, recovery loop |
| `AtomicCommit` | abstract specification: what a distributed transaction promises |
| `ApplyPath` | `raft.go`, `readCommits` and `proposalDequeuer` of `storedb.go`, with snapshots and restart, on every replica |
| `Search` | QueryBox, Autosuggest, Results, Pagination, Facet, ActiveFilters and Listener around their shared context |
| `RetrievalStream` | the stream reader of the SDK, under `streamAnswer` |
| `AnswerResults` | the AnswerResults and AnswerFeedback components, the `useAnswerStream` hook, citations |
| `Chat` | `useChatStream`, ChatBar and ChatMessages; composes the three hosts of streams |
| `Playground` | what the Termite pages share: form, models, runs with abort and retry |
| `NERPage`, `DocumentPages`, `RewritePage`, `ChunkPage`, `ReaderPage`, `TranscribePage`, `KGPage`, `ModelsPage` | the Termite pages (`DocumentPages` is reranking and embedding, `RewritePage` is QuestionPlaygroundPage) |
| `TermitePages` | composes them: one is mounted, the directory opens another, any may be reloaded |
| `PageCalls` | what the other pages share: React state and calls that nobody cancels |
| `TableProvider` | the table and index that all Antfly pages work on |
| `ExplorerPages`, `DocumentChunkPage`, `EvalSets`, `EvalsPage`, `RagPage`, `ChatPage` | the Antfly pages |
| `AntflyPages` | composes them over one `TableProvider` |
| `Shell`, `Monitors`, `AdminPages`, `TablePages`, `TableTools` | session, routes and palette; connection, badges and cluster; secrets and users; list of tables and the page of one; its schema form, upload and query assistant |
| `Console` | composes them |
| `MCTxn`, `MCApply`, `MCTermite`, `MCAntfly`, `MCConsole` | values for the constants of the TLC instances (the runs `hlc`, `search` and `streams` check `HLC`, `Search` and `Chat` themselves; their cfgs use `SeveralServers` and `MountedProps`, which are defined there) |
| `HLCProofs` | theorems about the clock |
| `TxnProofs` | theorems about decisions: types, atomicity, the record as commit point |
| `TxnDataProofs` | theorems about intents and documents: nothing is lost, clean-up, the refinement of `AtomicCommit`; and about versions: last writer wins, visibility, optimistic concurrency control |
| `ApplyProofs` | theorems about the apply path: documents are those of the log, snapshots hold what their index says |
| `ChatProofs` | theorems about answer and chat streams: control, flags, texts |
| `SearchProofs` | theorems about the search widgets: nothing is forgotten, what is shown is current |
| `AntflyProofs` | theorems about the Antfly pages: what is shown is of the latest list of indexes, search, text and chat; eval runs and sets |
| `TermiteProofs` | theorems about the Termite pages: a run leaves nothing behind |

A definition whose comment begins with "Mutant of" is a plausible bug in the
definition after it. No specification uses it; `mutants` in `PROJECT.json` says
which property notices it.

### HLC

A timestamp is one 64-bit word: 36 bits of milliseconds, 8 of node ID, 20 of
counter. `PhysSize`, `NodeSize` and `LogicalSize` are the numbers of values of
the fields, so that small instances reach overflow and wrap-around; `Stamp` drops
what does not fit the physical field as the shift does. `hlcNodeCounter` is kept
per process. `SetClock` moves a machine's clock anywhere. `issued` is a history of
the words returned and the millisecond each was made of. `Now` runs under a
mutex: three of its outcomes are one step each, and the overflow is two,
`NowOverflow` (counter one past its field, caller spinning with the mutex held)
and `NowResume`.

### Txn

*Orchestrator.* `pc[t]` is the phase of `ExecuteTransaction`, one action per
phase and outcome under the name of the Go function: `writeIntents`,
`commitTransaction`, `abortTransaction`, `notifyParticipantsSync` and so on. A
caller may give up in any phase (context, exhausted retries, an error that is
not retried), so the failure actions have no other guard. `Crash` ends the
transaction's orchestrator in any phase. `coord[t]` is any of its shards
(`pickCoordinator` hashes the random transaction ID). A client's read set is the
versions current at `Begin`; a client that has read older ones only fails in the
predicate check, which the abort path covers.

*Requests.* A request stays in `net` from the call until it is applied or lost,
whether or not its caller still waits; this covers delayed requests, proposals
that commit after the caller's timeout, and the retries of `retryTxnOp`, which
follow only errors that say the request was not accepted. A reply is kept only
for a caller that waits.

*Shard.* An entry is applied on all replicas in one step. `rec[t][r]` is
nevertheless per replica, because the recovery loop of a leader changes the
record in its own Pebble without Raft. `finalizeTransaction` overwrites whatever
status it finds on each replica that has the record, as the code does. The
commit version is the begin timestamp: the apply path has no timestamp in its
context. `WriteIntent` gives writes and deletes an intent, a key in both ends up
with the delete, and transforms get none. `val[k]` is the document's version and
its writer; payloads do not matter.

*Recovery loop.* A pass over one record takes several steps: `recoverNotify`
reads the record, `recoverNotified` is an answer or timeout of one participant,
`recoverSave` writes back the record **as read**, plus the answers, and proposes
to resolve the coordinator's own intents. `recoverStop` and `ChangeLeader` cut it
short or let it go on on a deposed leader. Participants are notified one after
the other in the code and in any order here. Time is two sets: `old` and `finOld`
hold the transactions whose `CreatedAt` and `FinalizedAt` are past the cutoff.

`effect` is a history variable: which shards applied or dropped the intents of
which transactions.

Some hazards need an environment that the documents exclude or do not mention.
They are constants, so that one can see what each of them costs.

* `Prompt`: the requests of a transaction arrive or are lost within five minutes
  of its `InitTransaction`. The code does not enforce it. Calls have timeouts, but
  a proposal can wait in a partitioned leader's log.
* `Skew`: timestamps may be out of real-time order (several metadata servers).
* `ReadBackFails`: the read of the commit version after a commit may fail.

### AtomicCommit

`AtomicCommit` knows the parts of a transaction, how far each is (working,
prepared, committed, aborted) and what the caller was told; there is no record,
message, replica or recovery in it. A part commits only when all parts are
prepared or committed and the caller was not told of a failure; it aborts only
when none is committed and the caller was not told of a success. The end of `Txn`
maps `intents` and `effect` to the state of the parts and `result` to what was told,
and the run `txn` checks that every step of `Txn` is a step of `AtomicCommit` or
changes nothing of it; `TxnImplementsAtomicCommit` proves it for all instances.

### ApplyPath

`log` is the sequence of committed entries: Raft's agreement is external, and a
replica learns of any prefix. `node[r]` holds the fields of `raftNode` and the
point where the Ready loop is; `reader[r]` is the commit that `readCommits` works
on. `commitC` is unbuffered: `PublishEntries` waits until the reader is idle, and
moves `appliedIndex` as soon as the commit is handed over. `Coalesce`,
`ResolveTransforms` and `FlushBatch` are the case `Op_OpBatch`,
`resolveTransforms` and `flushBatch`. A document is the sequence of the writes
and transforms it is made of, each with the timestamp it was stored with, so that
a lost, repeated, reordered or mislabelled write shows. `Replay` is the reference:
it applies entries to a key one at a time, and knows nothing of coalescing. `Restart` keeps what is
durable: the hard state's commit index, the snapshot and the documents.

`history[r]` records what the documents stand for: the entries they contain, the
keys on which a transform met another operation of the same commit (`mixed`),
and whether no entry was skipped (`whole`). The properties exempt what these say,
so that each says exactly where the code's guarantee ends; section 3 lists the
exemptions as observations.

### Search

The variables are the reducer's `widgets`, the QueryBox (`box`), the `timer` of
its debounce, the Listener's scheduled and deferred effects (`lis`, `effect`), the
two group keys that were sent last (`sent`) and the requests under way (`net`).
React runs the effects of one render before it handles the next event, and the
actions do the same (`Render`); only what the code itself defers, by `setTimeout`
or `defer`, is a step of its own. Texts differ in what the code tells apart:
empty, too short for a suggestion, long enough. Scores, fields and templates are
left out.

### Streams

A stream goes from fetching to open to done. `ctl` is the stream whose
AbortController the host holds, and it is known only once the fetch has resolved,
so `GiveUp` can abort an open stream but not one that is fetching. The body may
end with a last event, an error, or without a word. Each host (`answer`, `hook`,
`chat`) handles these its own way. Every chunk is tagged with its request, and an
answer is the sequence of its tags.

### Pages of Antfarm

`Playground` and `PageCalls` are two disciplines. On a Termite page a run has an
AbortController, and its phases are sent, held (answered, the `await` not yet
resumed), waiting for the retry and done; an abort reaches it in any of them. On
the other pages no call is cancelled, and each answer is applied when it comes. A
page's module adds its React state and one action per handler. Only one page is
mounted at a time; reloads keep what localStorage keeps. What is drawn is an
operator on the state (`Highlighted`, `TurnPanel`, `Badges`, `ClusterAgrees`'s
matrix ...) wherever a property is about it.

## 3. Runs

Passing runs:

| run | instance | checks |
|---|---|---|
| `txn` | 1 transaction, 2 shards, 2 replicas, prompt, failing read-backs, symmetry of replicas and shards | `TypeOK`, `Atomicity`, `CommitPoint`, `ClientTruth`, `NoWriteLost`, `SyncVisible`, `DecisionFinal`, `CleanupSafe`, `ImplementsAtomicCommit` |
| `txn_conflicts` | 2 transactions that read and write one key, their timestamps in any order, below and above the document's, symmetry of transactions; 1,175,874 states | `OneUpdatePerVersion`, `AppliedVisible`, `ReadsMatchAtCommit`, `HigherTimestampWins` |
| `txn_live` | 1 transaction, a write on one shard and a delete on another, fair; 15,835 states | `CommittedResolves`, `PendingDecided` |
| `hlc` | 3 instances in 2 processes, fields of 2 values, 4 ms (two periods of the clock), 3 timestamps each; 1,016,320 states | `TypeOK`, `MonotonicInPeriod`, `UniqueInServer` |
| `apply` | 2 replicas, 3 log entries, snapshots every 2, 1 crash; 1,822,772 states | `ApplySound`, `SnapshotTrue`, `NeverStuck` |
| `search` | 2 texts, 1 facet term, 3 events and 2 requests at once (2 and 1 with a facet); 209,122 states | `NothingForgotten`, `ShownIsCurrent`, `Settles` |
| `streams` | 2 requests, 2 events each, 2 cited documents; 241,758 states | `TextOfItsRequest`, `StreamingHonest`, `StreamsControlled`, `Settles` |
| `termite` | 9 pages, 2 runs, 2 models; 906,646 states | `NothingLeftBehind`, `SelectionsValid`, `DrawnHonest`, `LoadingEnds` |
| `antfly` | 6 pages, 2 tables, 2 calls of a kind; 657,510 states | `LatestShown`, `EvalsIntact`, `DrawnHonest`, `SpinnersEnd` |
| `console` | 12 screens, 2 users, 2 addresses, 2 tables, 4 calls; 481,908 states | `FrameOfUser`, `ShownOfServer`, `ModesAgree`, `Recovers` |

The last five check conjunctions of named parts, each with its own comment in the
module: `ShownIsCurrent` of `Search`, for instance, is `ResultsFresh`,
`NoResurrection` and `CurrentPageShown`.

**Why the bounds are enough.** Transactions interact only through `val` and
`intents` of a common key, so the commitment properties need one transaction, and
the concurrency properties need two of them on one shard. Two shards are a
coordinator and a participant; the record's clean-up rule compares sets and does
not depend on their size. Two replicas of a record are enough for it to differ and
for leadership to move and return. The theorems of section 4 remove these bounds
for the properties they cover. In `apply`, three entries are two batches that meet
in a commit and one before or after them; the batches of one key are a write with
either of two timestamps, a delete, a transform, and a write merged with an upsert
by the dequeuer; keys are independent in everything but the flush. The hazards of the
browser are races of two calls: two runs, two requests or two fetches of a kind
reach them, and the number of events per page (`MCSteps`, `MCEvents`) lets each be
preceded and followed by the edits that matter to it. In `search` two widgets that
ask at the same time need `MaxNet = 2`.

Where a statement about the code is false, the bounds of the run contain the case and
the property says what is left: the wall clock of `hlc` passes the end of its field and
two servers number their instances alike; a transaction of `txn_conflicts` may begin
below the version it has read; in `console` an administrator selects another user
while a change of the first one's permissions is under way, and types a query before
the indexes are there. Without their exemption `MonotonicInPeriod`, `UniqueInServer`,
`OneUpdatePerVersion`, `ShownOfServer` and `ModesAgree` are violated within these bounds.

`CHECK_DEADLOCK FALSE` in all runs but `hlc`: a protocol that is done rests, and
so does a page whose user does nothing.

Runs that show a disagreement between the code and a statement about it; each
checks one property, and `findings` in `PROJECT.json` quotes the statement.

| run | what happens |
|---|---|
| `txn_slow` | without `Prompt`: the recovery loop aborts, a shard drops its intents, then the delayed commit overwrites the record and another shard applies |
| `apply_restart` | a replica stops between saving the commit index and applying the entry; it starts with `appliedIndex` at the commit, and the entry is never applied there |

Also seen while modelling, and without a run of their own. Some are visible as an
exemption in a property or a guard of the model; the line is where the code does it.

*Clock and transactions*

* `NewHLC` numbers instances within a process, so two servers may issue the same
  timestamp in a millisecond (`hlc.go:63`; `:28` says "globally unique across
  multiple servers (no collisions)"). `UniqueInServer` is what holds;
* 36 bits of milliseconds last 2.2 years and have wrapped since 1970 (`hlc.go:129`;
  `:32` says "36 bits for milliseconds (~2000 years from epoch)", `:27` "monotonically
  increasing within a single server"): when the clock passes into the next period
  the words start over. `MonotonicInPeriod` is what holds;
* the clean-up of a record counts participants, and the coordinator is not one of
  them, so its own intents can outlive the record (`db.go:1314`; `:1305-1306` says
  "Only cleanup completed transactions when ALL participants have resolved their
  intents. This prevents orphaned intents");
* a transactional delete compares no timestamps (`db.go:5332`;
  `work-log/completed/distributed-systems/transactions.md:521` says "Higher
  timestamp always wins (Last-Write-Wins)."). `HigherTimestampWins` is checked
  without deletes;
* the transforms of a multi-shard batch are accepted and never applied
  (`db.go:5209`; `api.yaml:4894-4898` says "Perform batch inserts, deletes, and
  transforms across multiple tables in a single atomic transaction");
* keys that are only read get no intent, and are checked only on shards that are
  also written, so two transactions that read each other's key both commit
  (`transaction.go:305`; `api.yaml:2355-2356`). `ReadsMatchAtCommit` is checked
  where every key read is written;
* a `WriteIntent` that is applied after its transaction was aborted, resolved and
  cleaned up stays on the participant, with no record left to resolve it
  (`db.go:1312`; `transactions.md:491` calls the deletion safe);
* a transaction whose timestamp is below the document's passes its predicate
  check, is skipped by `shouldWriteValue` and leaves the version that the next
  transaction's predicate expects, so both are applied and one of them is lost
  (`db.go:5658`; `api_transaction.go:83-84` says that the check "is what prevents
  lost updates"). It takes a server whose clock is behind. `OneUpdatePerVersion`
  exempts it;
* when the read-back of the commit version fails, the orchestrator resolves the
  intents with version 0, and `AppliedVisible` fails with `ReadBackFails`
  (`src/store/api.go:1798-1804`);
* in a multi-shard batch that deletes and inserts one key, the delete's intent
  replaces the write's (`db.go:5254`; `api.yaml:2219` promises the opposite order).

*Apply path*

* a transform coalesced with a pending write or delete of its key drops it, and
  replicas whose commits were cut elsewhere keep it: they differ from then on
  (`storedb.go:1921`; exempted by `mixed`);
* a delete and a later write of one key in a commit drop the range delete, so the
  old document's edges, embeddings and chunks stay;
* a Ready without data has no `applyDoneC`, and its snapshot is taken while the
  commit before it may still be applied (`raft.go:897`; exempted by `whole`);
* a crash between saving a received snapshot and loading it: the database directory
  exists, so the snapshot is not loaded at the start (`storedb.go:152`; exempted by
  `whole`); `loadPersistentSnapshot` loads whatever snapshot the log storage names
  by then;
* `proposalDequeuer` drops the timestamps of the batches it merges.

*Search widgets*

* `Results` compares `queryHash` (`Results.tsx:106`) with hashes that the Listener
  computes from other fields (`Listener.tsx:113-115`); the filter query is not in
  the group key; multiquery answers carry no sequence number, so an older one may
  stay; after an error `isLoading` of suggestions stays on;
* the two effects of Facet undo each other for ever when its value is controlled
  (`Facet.tsx:85-90`, against the comment at 81-83): `Settles` exempts it;
* Pagination offers page 6 of 6 only from page 5 on.

*Streams*

* a stream that is superseded while it is fetching goes on and its chunks mix with
  the next answer (`AnswerResults.tsx:167` says "Cancel any previous stream");
  it may also put its controller in the place of the later one's;
* a body that ends without a last event leaves `isStreaming` on; `onStreamEnd` may
  be called twice; `sendMessage` leaves the turn it aborts streaming.

*Termite pages*

* the first item added with a new eval set is lost (`QuestionPlaygroundPage.tsx:287-298`);
  removing an image shifts the results of the others; loading a sample keeps the old
  ranking; the finally clause of an aborted run clears the spinner of the next one;
  the registry's fetch has no timeout; `?model=` is ignored by the transcriber and
  never matches a rebel model of the graph page.

*Antfly pages*

* Enter starts a search over one that is running; the hits and the rerank of the
  older may win; an older list of indexes may come last (`table-provider.tsx:107`);
  chunks are drawn over a text that was replaced; the hits of a table stay on the
  screen when another one is selected (`AntflyEmbeddingPlaygroundPage.tsx:104-162`):
  `LatestShown` says of which search they are, not of which table;
* a silent end leaves the RAG page loading (`RagPlaygroundPage.tsx:306` says
  "Complete any running steps");
* an import is checked for duplicates before its name is trimmed
  (`use-eval-sets.ts:158-160`; `use-eval-sets.test.ts:238-257`).

*Console*

* the check at the mount has no five-second timeout (`use-connection-status.ts:31`
  against `:14`), an aborted check says "disconnected", and a server that is
  connected is not checked again;
* fetches of an earlier address are applied by the badges (Retry) and the cluster
  page; the palette applies searches whose text is gone;
* a failed refresh clears the credentials; `requiredPermission` is never passed; the
  palette's "/settings" has no route; Reset in the settings leaves the old address;
* permissions of a user opened earlier may be shown under another: when they are
  answered late (`UsersPage.tsx:104-115`), and also with every answer in order, since a
  change is followed by a fetch for the user of the click (`:170`, `:186`); a user who
  is selected while the server removes them stays selected, and one created again under
  the name is shown with the old permissions (`:147-151`). `ListsCurrent` exempts the
  three by `late`;
* a query typed while no index is selected is not in the JSON of its tab, and is erased
  when the builder comes back (`TableDetailsPage.tsx:254`); `ModesAgree` exempts it; a late save closes the dialog of secrets opened since;
  the timer of a drop closes the dialog of another table (`TablesListPage.tsx:101-105`);
* `TableDetailsPage.tsx:327-330`, "Reset editing state when switching tables", runs
  once, at the mount; `:633-634`, "Defer run to next tick so state is updated", runs
  the filter of the render before; the JSON tab cannot be edited (`:787-803`). So
  the form of one table stays open on the next, and "Update Schema" sends it there;
* of several document types that are new to a detection, the first gets the fields of
  all (`DocumentSchemasForm.tsx:155-185`, `targetIndex = schemas.length; // will be
  appended at the end`); what is detected while the JSON is shown is gone when the
  form comes back; an import whose types are still being inferred is written to the
  place its schema had; the Document Key of the form is never sent (`:404-433`);
* the preview of an upload may be of a file chosen earlier, and the end of an upload
  clears a file that was chosen meanwhile (`Insert.tsx:86-107`, `:186-191`);
  Ctrl+Enter asks the assistant again while it is asked, and a proposal is shown
  beside the text of now (`AIQueryAssistant.tsx:160-164`, `:187`).

### Fairness

`FairSpec` of `Txn` assumes what the loops of the code give: an orchestrator that
has started goes on or ends (its context and retry budget are finite); time passes
the cutoff for a Pending record; the recovery ticker keeps firing on the replica
that leads (`transactionRecoveryLoop`); and, as strong fairness, a shard that is
asked again and again eventually applies such a request, which is Raft having a
leader and a quorum often enough. Nothing is assumed about the delivery of any
single request. Leadership does not settle by assumption; the instance has one
replica, because two leaders that alternate between every read of a record and
its write-back could postpone a pass for ever. `CommittedResolves` speaks of the
participants only; the coordinator's own intents may stay (see above).

In the browser the event loop runs every timer and every effect that is due, and a
call ends, well or badly: `fetch` rejects when its connection breaks, and nothing
else is known of a server. So the specifications assume weak fairness of timers,
effects, intervals and of the end of each call (in `Search` and `Console` of their
disjunction: each step taken uses one of them up, and only the user's bounded events
bring new ones), and nothing of the user. `Settles`,
`LoadingEnds`, `SpinnersEnd` and `Recovers` rest on this. `Recovers` says of a server
only that it is found again if it stays up.

`apply` needs no fairness: `NeverStuck` says that a replica which cannot move has
applied everything, which no fair scheduling could repair if it failed.

## 4. Proofs

`tlapm` checks all proofs, for every value of the constants that satisfies
the assumptions of its module (`TxnAssumption`, `HLCAssumption`, `ApplyAssumption`,
`SearchAssumption`, `StreamAssumption` and `AnswerAssumption`, and for the Antfly pages
`CallsAssumption`, `TableAssumption`, `ExplorerAssumption` and `ChatAssumption`; no
proof about the Termite pages needs `PlaygroundAssumption`). They are types of the constants, and that the empty text is none of the texts a user may
send; TLC evaluates them in every run. `ApplyAssumption` also says that a batch with a
timestamp is not empty: `metadata/api.go:1021` and `api_batch_helpers.go:85` refuse
an empty one or skip it, and one that `proposalDequeuer` merged has no timestamp.

`HLCProofs`

* `TypeCorrect`: the type invariant; the counter leaves its field only while a
  caller spins.
* `IncreasingInPeriod`: `Spec` implies `[]MonotonicInPeriod`, without any hypothesis on
  the clock. The invariant that carries it (`Bounded`): no timestamp is of a later
  period than `lastPhysical`, and one of the same period is at most the stamp of the
  current `(lastPhysical, logical)` and lies in or below the block of that millisecond.
* `UniqueWithinServer`: `Spec` implies `[]UniqueInServer`. The invariant says that the
  ID of an instance is a number its process has given out, modulo `NodeSize`, and that
  two instances of a process have different IDs while these last (`OwnNode`), and that every timestamp
  carries the ID of its instance in its middle field (`Carried`; division with
  remainder is unique). So neither the period of the clock nor what other servers do
  matters; between two servers the statement is false.

`TxnProofs`

* `TypeCorrect`: no hypothesis but `TxnAssumption`. `TypeOK` needs one more fact,
  that a transaction past `idle` has a coordinator (`HasCoord`).
* `AtomicCommit`, `RecordDecides`, `ReportedOutcome`, `DecisionStable`: under
  `Prompt`, `Spec` implies `[]Atomicity`, `[]CommitPoint`, `[]ClientTruth` and
  `DecisionFinal`.

These rest on one inductive invariant, `IInv`: types, `HasCoord`, and for each
transaction `TxnInv(t)`:

* `Exclusive`: not both a commit side (a committed record, pass, request, reply or
  effect) and an abort side exist;
* `RecordsAgree`: the replicas that still have the record agree on it;
* `Undecided`: while a record is Pending, nothing of either side exists;
* `Fresh`: before the record is created there is nothing at all;
* `Origin`: what is in flight matches the orchestrator's phase, so a commit and
  an abort by the orchestrator are never both on their way;
* `OldQuiet`: of a transaction past the cutoff no deciding request of the
  orchestrator is left (this is where `Prompt` enters).

`Atomicity` alone is not inductive: it does not say that no request of the other
side is still in flight, or that a deposed leader's recovery pass does not hold a
record that contradicts the others. Most steps decide nothing; for them the
lemmas `KeptInv` and `FrameInv` show once that `TxnInv` is kept if each side only
shrinks. The deciding actions have a lemma each (`DecideInv`,
`CommitTransactionInv`, `AbortTransactionInv`, `RecoverAbortInv`, ...). `IInv` was
checked with TLC on the instance of `txn` before it was proved.

`TxnDataProofs`, all under `Prompt`

* `NothingLost`, `SyncMeansVisible`, `CleanupIsSafe`: `Spec` implies
  `[]NoWriteLost`, `[]SyncVisible` and `CleanupSafe`.
* `TxnImplementsAtomicCommit`: `Spec` implies `ImplementsAtomicCommit`, the
  refinement. Every action is a `Prepare`, `Commit`, `Abort` or `Report` of
  the abstract specification, or a stutter; steps that touch the intents of no
  shard are stutters by one lemma (`SameParts`).

The invariant is `DInv`: `IInv` and for each transaction `DataInv(t)`. `IInv`
knows who may decide what; it does not know where the data is. `DataInv` adds
that from the moment a commit is possible every key of the batch is an intent or
applied, and no `WriteIntent` is left that could bring one back (`Complete`); that
a shard which has answered holds its intents and is not asked again (`Prepared`);
that a shard which some record, pass or reply takes for resolved has no intent
left (`Settled`); and who sends what (`Callers`, `Untouched`, `OwnIntents`,
`Unreported`). Without `Prompt` the invariant is false in the way of finding
`txn_slow`: an abort in between drops intents of what is committed afterwards.

Also in `TxnDataProofs`, about versions

* `LastWriterWins`: if nothing is deleted, `Spec` implies `HigherTimestampWins`. It
  needs neither `Prompt` nor commit versions that are read back.
* `AppliedStaysVisible`: under `Prompt`, `~ReadBackFails` and `NoDeletes`,
  `[]AppliedVisible`. The invariant adds to `DInv` that the version of every
  committed resolution, request and reply is the begin timestamp (`StampInv`), and
  that what is applied is visible (`Visible`).
* `VersionsAreReplacedOnce`: under the same conditions `[]OneUpdatePerVersion`, for
  synchronous and skewed clocks alike. The invariant adds that of two transactions which
  expect the same version of a key and write it with a timestamp above that version
  (`Newer`), at most one has an intent on it or has applied it (`OneWriter`).
* `ReadsHoldAtCommit`: under `Prompt` and `ReadModifyWrite`, `ReadsMatchAtCommit`.
  `ReadModifyWrite` says that keys with predicates on them are read by whoever
  writes them. A key that is only read gets no intent, and one that is written
  without a predicate may change between another's check and commit: the check of
  `WriteIntent` protects nothing else. The invariant adds that such a key has one
  intent at most and its expected version while it has it (`Reserved`), that a
  commit is asked for once (`CommitOnce`), and that a pass acts only on a commit
  its record has (`PassHasRecord`).

Each condition is one that section 3 shows to be needed: deletes carry no version, and
version 0 loses to every other. `ReadBackFails` and `Prompt` are constants, so each theorem
holds for the instances that exclude what it names and for all values of the rest.

`ApplyProofs`, for any replicas, keys, batches, snapshot distances and numbers of
crashes

* `ApplyIsSound`: `Spec` implies `[]ApplySound`. However the log is cut into commits
  on a replica, and whatever snapshots it installs or restarts it goes through, its
  documents are those that the entries make one at a time.
* `SnapshotsAreTrue`: `Spec` implies `[]SnapshotTrue`.

What coalescing does is a fact about operators. `CoalesceKey`: flushing what is
pending together with one more batch gives a key the document that flushing first
and applying the batch alone would give it, unless `MixedUp` names the key.
`ReplayAdd`: to replay one entry more, behind all others, is to apply it to the
replay of the others; `ReplayGrows`: new entries of the log change no older replay.
`ReplayOf` is a recursive function, and such facts need an induction over indexes.
The library's induction theorems take the induction hypothesis as an operator, which
the provers cannot instantiate; these proofs take the least index at which the fact
fails instead (`Least`, from `WFMin`), where the hypothesis is a set. The same lemma
(`LeastNumber`, `SetInduction`) serves the modules below.

The invariant is `IInv`: `Types`, and for each replica `ReplicaInv(r)`:

* `Indexes`: compacted, in the snapshot, published and saved are in this order; the
  order is broken only while a received snapshot is saved and not yet published;
* `Order`: what `readCommits` has still to take lies behind all that it has taken, and
  between two commits nothing is pending;
* `Contents`: the documents are the replay of what is done, and flushing what is
  pending would make them the replay of what was taken;
* `Complete`: nothing published is missing, and a snapshot that waits to be loaded has
  everything that was published.

`AppliedInOrder` alone is not inductive: it does not say what the pending changes
will make of the documents, nor that a saved snapshot which is not loaded yet will
fill the gap that `publishSnapshot` has already stepped over. `IInv` was checked with
TLC on the instance of `apply` before it was proved. No hypothesis beyond
`ApplyAssumption` is used: the exemptions (`mixed`, `whole`) are part of the
properties and are those of section 3.

`ChatProofs`, for any questions, numbers of requests and of events, and answers of any
length

* `Controlled`: `Spec` implies `[]StreamsControlled`.
* `Honest`: `Spec` implies `[]StreamingHonest`.
* `OfItsRequest`: `Spec` implies `[]TextOfItsRequest`.

The invariant `IInv` is what the three hosts have in common, and what each adds:

* `StreamInv`: as long as no stream but the last was given up before it resolved
  (`late`), all older streams are closed, and one that is open is the controller's
  (`OneAtATime`). `StreamsControlled` alone is not inductive: it does not say what
  an abort finds when the next request is made;
* `Shown`: a host that says it is streaming has its last stream under way or silently
  ended (`Accounted`); a last stream under way is streaming in the host (`Busy`); an
  unmounted host has only streams that were given up (`Leakless`);
* `AnswerOf`, `ChatOf`: types, ratings are for the query of now, and chunks and
  messages carry the number of their stream.

Each host's step is first brought to one of a few forms (a request was sent, an event
arrived or was the last, a stream given up: `ShownFetch`, `ShownChanged`, `ShownGiveUp`,
`ShownAborted`), so that
`Shown` is proved once for each form and not for each host. `AllCitationIds`
and the count of events are folds of the community modules: `FoldExists` says that a fold
over positions is the last value of a chain, and `IdChainGrows` and `NumbersStable`
that more text only appends to the ids of an answer, so that no number changes.

`SearchProofs`, for any texts, filters, totals and bounds, and for any QueryBox

* `Remembered`: `Spec` implies `[]NothingForgotten`.
* `Current`: `Spec` implies `[]ShownIsCurrent`.

The invariant `IInv` adds to the types that the closure which is due last, or if there
is none what was sent, has the keys of the screen (`Pending`; `NothingForgotten` says
only that *something* is due), and that of what was asked for Results the last request
without an answer, or else the answer on the screen, has the query, page and facets of
the key that was sent (`Answered`, unless an answer overtook another).

`AntflyProofs`, for any tables, indexes, words, scores, eval sets and numbers of calls

* `Latest`: `Spec` implies `[]LatestShown`.
* `RunsAndSets`: `Spec` implies `[]EvalsIntact`.

The invariant `Inv` is a conjunct for the calls (`CallsOk`), one for the context that
all pages share, and one for each page while it is open:

* `TabInv`: the last list of indexes that was asked for is that of the table, and what
  the table context has of its indexes and those of the chat is from a list of it. This is
  why only an older list that comes later (`overtaken`) can leave a wrong index;
* `ExploreInv`, `RerankInv`: an open search is the newest, and the one that is shown is
  the newest that was answered, while no search was started over another (`overlap`);
  an open or shown rerank is one of these hits and no search is open beside it
  (`RerankOfHits`): the button is disabled while one runs, and the scores of an older
  list would otherwise order the new one;
* `ChunkInv`: at most one run is open, and it and the one that is shown are of the text
  in the input until it is edited;
* `EvalsInv`: verdicts match the items of the run in order, a run is done when it has
  them all, and a set is selected whenever there is one;
* `ChatInv`: every turn's call was made under the present key of ChatBar, a turn is
  open only while its call is, and its text is its call's.

`FilterExists` and `FilterIn` say what `Array.filter` (`Filter`, a recursive function)
returns, `SummaryCounts` that the summary's three counts add up to the number of
verdicts. `RagPage` has no conjunct: its own parts are in `DrawnHonest`.

`TermiteProofs`, for any texts, lists of models, answers and numbers of runs

* `LeavesNothing`: `Spec` implies `[]NothingLeftBehind`.

The invariant `Inv` has one conjunct that all nine pages share and one for the pages
that need more:

* `Core`: every run but the last is over (`Over`: ended, or aborted and waiting to
  notice it), the result on the screen is the last run's, and a spinner has a run that
  is not done. `NothingLeftBehind` alone is not inductive: it does not say that an
  answer which can still come is the last run's;
* `OneRun`: the embedding page and the directory of models do not abort. They may not
  start a run over another because their buttons are disabled while `isLoading`, which
  is then on exactly as long as a run is open;
* `Transcribing`: the segments are those of the last run, with `Mic`: while no request
  for the microphone overlapped another, a recording has one open stream, the one that
  the refs hold, and nothing is being asked for; without a recording there is no stream
  and at most one question to the user.

A step of a page is brought to one of few forms, each proved once: a run is launched
after an abort (`LaunchedCore`), goes on or ends (`ChangedCore`), everything is aborted
(`AbortedCore`), what is shown is dropped (`ClearedCore`), or neither the runs nor the
view change (`CalmCore`).

Only model-checked:

* `NeverStuck`, because it says ENABLED, and all liveness (`CommittedResolves`,
  `PendingDecided`, `Settles`, `LoadingEnds`, `SpinnersEnd`, `Recovers`): out of the
  prover's reach;
* `SelectionsValid` and `DrawnHonest` of the Termite pages, `DrawnHonest` of the Antfly
  pages, and the console (`FrameOfUser`, `ShownOfServer`, `ModesAgree`): about 30
  properties of single pages that have no invariant in common. They are a matter of
  work and not of principle.

## 5. What is not modelled

* In `Txn`, replicas that lag: an entry is applied everywhere at once, so that reads
  from a follower and a leader that has not caught up are not covered. `ApplyPath`
  has replicas of different progress, and no transactions.
* In `ApplyPath`, a snapshot from which a new shard starts
  (`initWithStorageSnapshot`), asynchronous storage writes, and a log suffix that a
  new leader replaces.
* Errors of Pebble, corrupt intents and records.
* The number of retries and the delays; a late duplicate of a request that was
  retried. `isRetryableTxnError` also repeats a request after "operation did not
  complete", an error that only the simulator produces.
* Splits, and splits under a running transaction (planned).
* In the browser: layout, wording and styles; renders that React itself interrupts
  (no transition or Suspense is used); forms whose state is one JSON object
  (SearchBoxBuilder, IndexForm, DocumentBuilder) and the attributes of a schema's
  field; the vendored widget libraries
  (`components/ui`, `components/ai-elements`); the built bundle under
  `src/metadata/antfarm/assets`.
* TranscribePlaygroundPage being unmounted while it records.
* The components marked `not_modelled` in `PROJECT.json`, each with its reason.

## 6. Plan

1. Proofs: what is selected and drawn on the Termite pages, and the console, page by page.
2. `Split`: prepare, split, delta replay, finalize, roll back; no acknowledged
   write is lost, ranges do not overlap; intents on moved keys.
3. `WALBuffer` and `DedupeQueue`: at-least-once processing, order, discards,
   restart.
4. `Proposer` (`lib/raftkv`), composed with `ApplyPath`: a caller is told of its
   own entry, once.
5. `Reconciler`: plans from stale status, split phases, cooldowns, assignment.
6. `Replication` (foreign): checkpoints against applied changes.
