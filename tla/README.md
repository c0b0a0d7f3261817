# TokenInsights in TLA+

TLA+ specifications of TokenInsights (`src/`): how token usage written by coding
agents becomes evidence, facts and finally what a viewer shows, and what must stay
true of it when processes race, die, are upgraded or lose answers. TLC checks small
instances; TLAPS proves the safety properties of the processing engine and its store, of
capture, delivery, launching, shared captures, the dashboard's update loop, drawers and
scrolling, of four smaller protocols, of token counters, of the turns and the forks of
Codex sessions, of lines too long to be evidence and of the registry of collections, for
every value of the constants, and that engine and delivery implement what they promise.

```
tlc -config MCRaces.cfg MCDataEngine       # likewise the other .cfg files
tlapm DataEngine_proofs.tla
```

## 1. Inventory

Agents (Codex, Pi, Claude Code, OpenCode) write logs. **Capture** reads them, keeps
whitelisted fields and appends records to the **outbox** in the collector database.
**Delivery** sends the outbox to the **Token store**, which keeps evidence and
receipts and marks processing scopes as pending. The **processing engine** claims
connected scopes, lets the **processor** interpret them and publishes facts behind a
revision fence. **Viewers** (terminal, web, desktop, remote) poll status and read the
active generation. All of it runs in one **personal backend** process per Token
database, found or started by a **launcher**, alive while viewers are attached.

| Component | State it keeps | Operations that change it | Interacts with | What is hard | Correct when |
|---|---|---|---|---|---|
| Token store (`core/datastore`) | evidence, items, receipts, scopes with revisions, dependencies, generations, metadata | Accept, Reprocess, prepareGeneration, PublishProjection, RecordFailure | collector (Accept), engine (load, publish), viewers (reads) | transactions of many actors around interpretation that runs outside any transaction; late ancestors; limits | settled means interpreted from everything; publications are current; metadata always acceptable; receipts true |
| Processing engine (`core/dataengine`) | claims in flight, stale components, wake channel, timers | dispatcher loop, workers, completions | Token store | two workers, lost wakeups, retries, crash and another binary | claims disjoint; nothing starves; history never shrinks |
| Outbox (`core/rawcollectorstore`, `core/collectordb`) | observations by sequence, cursor, saved request and receipts per token database, stream id | Record, Prepare, Ack, ResolveDestination, reset | capture, delivery | contiguity, replaced databases, duplicate receipts | cursor never passes accepted evidence |
| Delivery (`core/collector`) | run phase, delivery lock, writer lock | Run: capture, prepare, submit, acknowledge | outbox, Token store | lost answers, crash between commit and receipt, overlapping runs | the journal arrives in order, once, completely |
| Source capture (`core/pipeline`) | checkpoints (offset, prefix hash, lineage, context), quarantine markers | prepare, verify, commit per source | log files, OpenCode's database, outbox | files rewritten, truncated or growing while read; lines too long to keep; compare-and-swap of checkpoints | no line is skipped or attributed to the wrong lineage; a quarantined source is retried when it changes |
| Evidence protocol (`core/evidence`) | none | encoding, whitelist, identities, limits | collector, Token store | canonical encodings | equal content has equal identity |
| Processor (`core/processor`) | none | interpretation per agent format | engine | evidence in parts and in any order; copies, replays and revisions; counters that contradict each other | unknown counters are not zero; what was used once counts once |
| Personal backend (`core/localbackend`) | attached viewers, deadlines, active and pending capture | attach, detach, expire, request, collect, join | viewers, runtime | expiry against attach, joining a capture that ends, shutdown order | no viewer on a stopping backend; no request lost |
| Local runtime (`core/localruntime`) | owner lock, running collections, progress registry | Open, StartCollection, Close, WaitVisible | backend, Token store, collector | start against close; heartbeat against finish | nothing runs after the owner lock is released |
| Collector progress (`core/collectorprogress`) | attempts with leases, captures | Apply, UpdateCapture, expire, InterruptAll | observer, viewers | late heartbeats, capacity | an attempt that ended keeps its outcome, and shows the right one |
| Launch and ownership (`core/localclient`, `core/serverownership`, `core/writerlock`) | startup lock, owner lock, socket file | launch, startOwner, attach | backend processes | concurrent launchers, stale sockets, a stopping owner | one owner per database; every launcher reaches a compatible one or an error |
| Storage reset (`core/localstorage`) | database files and companions | inspect, prompt, lock, move aside | launch, backend | partial failure, commands that race | a database never meets another's WAL, nothing is lost |
| Terminal viewer (`cli/internal/tui`) | displayed rows and the revision they belong to; open requests; drawers; focus and scroll offset | messages, keys | backend | answers out of order; drafts under new values; rows of several lines | what is claimed is displayed, in the end the newest; the focus is on the screen |
| Desktop (`desktop`, `core/desktoplaunch`) | windows, connecting targets, rendezvous sockets | launch, handoff, acknowledge, finish, close | launcher | acknowledgement against timeout; links delivered twice | success is reported exactly for a live window |
| Remote access (`core/remoteaccess`, transports, proxy) | gateway with its secret, sessions, leases | Start, Close, attach, request | backend | losses that several parties notice on their own | answers come from the instance a session met; losses reach everybody |
| Queries (`core/server`, `core/application`, `core/analytics`, `core/adapters`) | none | validation and reads in one transaction | viewers | none of its own | an answer belongs to one generation |
| Command line, web dashboard | none durable | wiring, presentation | everything above | none of its own | -- |

`PROJECT.json` lists the same components with their sources, and under `hazards`
the places where the code is hard to test, with the properties that cover them.

## 2. Modules

| Module | Models |
|---|---|
| `TokenStore` | the tables of the Token database, one operator per transaction |
| `DataEngine` | the engine composed with `TokenStore`: dispatcher, workers, collectors, reprocessing, crash, restart, upgrade |
| `TokenHistory` | abstract: what viewers are promised; `DataEngine` implements it |
| `Outbox` | the collector journal |
| `Delivery` | collection runs composed with `Outbox` and `TokenStore` |
| `Replication` | abstract: an ordered copy; `Delivery` implements it |
| `Capture` | incremental reading of JSONL logs: checkpoints, lineages, verification, quarantine |
| `LongLine` | the streaming reader of a line that is too long to be evidence |
| `CodexTurns` | the context kept while a Codex rollout is captured, and the turn and model the processor gives an event |
| `CodexReplay` | forks, copies and repeats of Codex sessions: what counts, what is doubtful, what is left out |
| `NativeUsage` | the token counters of each agent and the components made of them |
| `NativeMessages` | revisions and copies of one message of Claude Code, Pi or OpenCode |
| `Launch` | finding, starting and leaving the backend: startup lock, owner lock, socket, leases, shutdown |
| `SharedCapture` | captures joined by viewers of one backend, follow-ups, the end of the backend |
| `Registry`, `CollectorProgress` | the registry of collection attempts; the observer, heartbeat, workers and writer that report to it |
| `StorageReset` | moving older databases aside, against backends and other commands |
| `ServedUsage`, `Viewer` | what the backend serves; the terminal dashboard's update loop and its requests |
| `Drawer`, `RowWindow` | the dashboard's menus and filter drafts; its rows, focus and scrolling |
| `Rendezvous` | handing a session to the desktop application |
| `RemoteAccess` | dashboards over SSH and gateways, bridges, tabs and their leases |
| `DataEngine_proofs`, `EnginePromises_proofs` | theorems of the engine: its groundwork, and what it promises on top of it |
| `Delivery_proofs`, `Capture_proofs`, `Launch_proofs`, `Viewer_proofs` | theorems of these modules; `Capture_proofs` also those of `CodexTurns`, `Viewer_proofs` those of `Drawer` and `RowWindow` |
| `Collections_proofs` | theorems of `SharedCapture` and of `CollectorProgress` |
| `Protocols_proofs` | theorems of `Rendezvous`, `RemoteAccess`, `StorageReset`, `NativeMessages`, `NativeUsage` and `CodexReplay` |
| `MC...` | instances for TLC; several put modules that share no state side by side, and a variable `part` says which one runs |

Composition: `DataEngine` extends `TokenStore`; `Delivery` extends `Outbox` and
`TokenStore`; `CollectorProgress` extends `Registry`; `Viewer` extends `ServedUsage`.
`TokenHistory` and `Replication` are abstract specifications that `DataEngine` and
`Delivery` implement. The others stand alone, because what they exchange is one call
each: records handed to `Outbox.Observe`, a backend that runs, a collection that
returns, a record that is interpreted. The processor's modules stand for what
`DataEngine` treats as one step: there, the facts of a scope are *the records they were
computed from*, here, one record or one family of sessions is opened up.

### 2.1 TokenStore

State is the database: every variable names its table or column. A *record* is one
whitelisted evidence record; its scope and its parents are functions of its content
and therefore constants. What the processor computes is abstracted to *the records
it computed from*: `facts[g][s]` is the set of records behind the rows of scope `s`
in generation `g`.

| Operator | Code |
|---|---|
| `Accept` | `Store.Accept`: replay and conflict checks, limit, `acceptRecords`, descendant invalidation, receipt |
| `Stage`, `Reprocess` | `Store.Reprocess`: an equal target is kept, an interrupted one retained, an empty database activates at once |
| `Load` | what `loadWork` returns for a root: its component, revisions, records |
| `Fence`, `Publish` | `PublishProjection`: comparison of members and revisions, rows, settlement, activation, revision |
| `RecordFailure` | backoff of the scopes still at the revision that failed |
| `ReadableBy` | `ReadMetadataForDataset` and the version check when a binary opens the store |

`Elapse` is a second of wall clock for all `retry_at_ms` columns. `attempts`
saturates at `MaxBackoff` because the code only ever uses `min(attempts, 6)`.
Unbounded counters of the code are bounded by the code's own limits (`MaxInput`,
`MaxRevision`, `MaxGeneration` stand for `publication.SafeInteger`).

### 2.2 DataEngine

`runConcurrent` is a loop with three places: selecting (loading work while there is
room), recording (a failed load), waiting (the `select`). `Park` leaves selection
when nothing is eligible or there is no room, `Rouse` is the wake channel or the
ticker, `Complete` a result from the channel, `Expire` the stale delay. A claim is
*running* until its worker published, was fenced or failed, *failing* while the
failure is not yet written, and then waits for the dispatcher. Loading is one read
transaction and one step; interpretation happens between `Select` and
`WorkerPublishes`, and anything may happen in between. `Crash` keeps the tables only;
`Open(v)` is any binary the store accepts; `Prepare` stages its rules.

### 2.3 Outbox and Delivery

`Outbox` models the collector database: `Observe` a capture transaction,
`Prepare` a new saved request, `Ack` its receipt, `Restart` a new database with a
new stream. The body limit is abstracted: it may cut a request anywhere after its
first entry (a single whitelisted record is far below the limit). Observations of
one transaction get their sequences in any order.

`Delivery` runs `collector.Run`: capture under the writer lock, then publish under
the delivery lock, journal operations taking the writer lock for a moment. Locks are
derived from the phases of the runs, since they are held exactly between two phases
and the kernel releases them with the process. `LoseAnswer` commits and reports an
error; `GiveUp` is every other early end. Databases are replaced only while no
process runs, as `resetServer` and the storage check enforce. `ReplaceDatabase`
empties what `Accept` writes. The processor is left out of this composition: it only
reads these tables, and `DataEngine` already lets any batch arrive at any time.

### 2.4 Capture, LongLine

A source is a file that agents append to, cut and replace at any moment; `files[s]`
keeps every inode a reader may still hold open. A line is one of a few kinds, a byte
offset is the prefix it ends, and a hash of bytes is those bytes, so comparing hashes
is comparing prefixes. The last line may be partial (not yet JSON), whole (JSON without
its newline) or terminated. `checkpoint[s]` is the row of `evidence_sources`,
`captured[s]` the records written to the outbox, `marker[s]` the quarantine row.

| Action | Code |
|---|---|
| `Begin`, `Consume` | `extractPrepared`: one job out for each one the writer is done with; the collection ends after the last |
| `CheckSource` | `prepareRawSource`: signature first, then the quarantine decision |
| `OpenSource` | `cursorFor`: resume if the saved prefix is still there, else a new lineage; a full refresh starts over |
| `ReadLine` | `parseJSONL` and `extractJSONRecord`: end of file, line over the limit, value without newline, complete line |
| `CommitSource` | the writer: unchanged checkpoint, `verifyPreparedJSONL`, then records and checkpoint in one transaction |
| `ClearMarker`, `ConsumeFailure` | clearing or saving the quarantine marker, in a transaction of its own |
| `SourceFails`, `Abort` | a failing source; a cancelled collection or a dead process |

The reference for contents is `RecordsOf`: the records of one complete reading of a
text. Context lines of a kind supersede earlier ones of that kind.

`LongLine` opens up "line over the limit". An agent writes any JSON object, symbol by
symbol (`text`, a small grammar of JSON); `streamDiscriminator` reads along (`scan`:
the calls of `object`, `array` and `value` that have not returned, and where the
innermost one stands). Whitespace is left out, a string is one symbol, `null` stands for
the literals, the digits are 0 and 1, and long numbers occur only before the first
discriminator, because what a number is does not depend on what stands before it. The
code's *ambiguous* is conservative: a discriminator named twice keeps the line from being
skipped, and the source is then quarantined.

### 2.5 The processor: CodexTurns, CodexReplay, NativeUsage, NativeMessages

`CodexTurns` runs a rollout through capture and interpretation: `WriteRolloutLine` and
`ReplaceRollout` are the host, `Rotate` and `Extract` the collector, which keeps the
latest record of each kind as context of those that follow (`KeptFor`), and
`Attribution` is what `parseEvidence` and `codexParser` make of an event: the context's
lines in order (`StateOf`), or the nearest turn context that follows in the lineage
(`Flushed`). It assumes what Codex writes: a turn context names its turn and its model,
a rollout has one `session_meta`. (A context without a model would replace one that
has it.) The evidence that has arrived is always a prefix of what was captured, by
`Replication`, so every state of `evidence` is one the server may be in.

`CodexReplay` lets sessions start, fork with a copy of their parent's events, consume,
and repeat counters; `Arrive` delivers their records, of each session in order, of
different sessions in any. `use` is the ghost that says what was really consumed.
`Resolved`, `Judge` and `OwnCode` are `resolveCodexEvidence`: an event that an ancestor
proves a copy is left out, one in a turn of an ancestor that nothing proves is doubtful,
unchanged and stale counters are recognised. It assumes that a session starts after its
parent and that a rollout speaks of one session, treats two collectors' copies of a
record as one, and repeats counters within a turn only, unless `RepeatsAcross`.
`CopiesCountOnce` holds under `Covered`: of each copied turn the parent shows the event
itself or a complete one of that turn. Conflicting metadata are left out.

`NativeUsage` is pure: `usage` is any record of any agent with counters from `Counts`,
each possibly missing, and `CountersOf` the reading its parser gives. Counters that are
no integers make a record unusable and are left out.

`NativeMessages` writes one message again and again (a log line, or a row revised in
place in either of OpenCode's tables), captures it at any moment, delivers the pieces in
any order, and selects, confirms or refuses as `Process` does, with hash ties resolved
in every way. Two consequences of the code show in the properties: the selection of
OpenCode's second format ignores whether a row is clean, so a doubtful one keeps the
first format from being counted (`DoubtfulSecond`); and a message of OpenCode that was
captured half-written and revised later stays in conflict.

### 2.6 Launch

Clients and backends are processes. A client holds the startup lock from its first
dial until `launch` returns, which is derived from its phase, as is the operation lock
of the stores. A backend opens its stores under the lifetime lock of the database,
then listens, acknowledges on the pipe of the client that started it, serves, and
drains; `owner` is the kernel's lock, `path` what the socket file leads to, a file
nobody listens on included. `viewers`, `due`, `visited` and `stopping` are
`viewerState`; `departed` counts the closed connections the backend has not noticed.

| Action | Code |
|---|---|
| `AcquireStartup`, `QueueTimeout`, `Dial`, `Probe`, `Spawn`, `Acknowledged`, `Redial` | the launcher, in its order; every failure ends the launch |
| `OpenStores`, `Listen`, `Acknowledge` | the backend's start: owner lock, stale socket removed, ready written to the pipe |
| `Attach`, `Leave`, `Disconnected`, `Detach` | the attach stream; its release is the handler's deferred `detach` |
| `DeadlinePasses`, `Expire`, `Shutdown`, `Interrupt`, `Release` | deadlines, expiry under the viewers' mutex, closing in its order, the lock last |
| `BackendDies`, `ClientDies`, `GiveUp` | deaths at any point, timeouts, a child killed by its client |

`DeadlinePasses` uses one relation between durations: the startup grace is as long as
the startup timeout and begins later, so it does not pass while the client that started
the backend is still launching. The reconnect grace has no such relation.

### 2.7 SharedCapture, Registry, CollectorProgress

`SharedCapture` is `captures.request` and the loop of `captures.collect`, each step as
long as `captures.mu` is held. A ticket is named after the request that opened it.
`Return` is the end of a collection with or without error, `Cancel` the end of the
backend's context, `JoinCaptures` and `Close` the waits on the way out. A backend that
stops drops a pending follow-up (`ctx.Err()` is asked before it) and then answers a full
request with the result of the plain capture it had joined; `FullMeansFull` therefore
speaks of a serving backend.

`Registry` has one operator per operation, each beginning with `Expire`; time is counted
in heartbeat intervals. `refused` notes whose message was refused. `CollectorProgress`
drives it as a collection does: `StartCollection` (`Runtime.StartCollection`,
`newObserver`), `Discovering`/`Announcing`/`Looking`/`Reporting` for one harness after the
other, `Reading` by workers and `Saving`/`Finalized` by the writer in the order of the
sources, `Stopping`/`Abandoning` for what a cancellation left, `Delivering`, and `Finish`,
which waits for the heartbeat goroutine (`Joined`). The delivery is only what it reports.

### 2.8 StorageReset

`files` says for each store and each name (its own, the backup's, the backup's with the
time of the command) which database's file and whose WAL lie there; `-shm` moves like
`-wal`. `Launch`, `Confirm`, `Decline`, `Lock`, `MoveFile` are `ConnectPrepared`,
`prepareStorage` and `Reset`; `MoveFile` is one rename, and a command may die between two
(`Dies`). `StartBackend`, `Capture` and `BackendEnds` open, create and close databases as
SQLite does, which takes a WAL it finds for its own. The model shows one thing the
property has to allow: two commands of different token databases may both find the
collector database older and ask; `Reset` does not look again, so the second may move
aside what the first one's backend has just created. Nothing is lost by it.

### 2.9 The terminal dashboard: ServedUsage, Viewer, Drawer, RowWindow

`m` is `interactiveModel`; each message and each key is one step of the loop, and
commands run beside it. `reloads` and `polls` hold the requests under way: a newer one
makes an older one obsolete, whose answer may still arrive; a poll reads progress and
then status in two steps. `ServedUsage` is what it reads: input, covered input and
revision advance, attempts begin and end. The identity of the publication changes only
from unknown to known; readiness, the time-based failure notice, animation and wordings
are left out. `R` exists only for a session of this machine.

`Drawer` has the menus and the filter values: `draft` survives values that arrive again
(`MergedDraft`), `Labels` numbers repositories of one name as they are offered. `Observe`
is a newer publication, of the same backend and database or of others, whose values are
read anew; `LoseReadiness` drops the values, and `RegainReadiness` asks for nothing.

Two things seen without a run. `c` pressed before the values first arrive is undone by
their arrival. And only boxes of the draft, those that the applied filters chose or Space
touched, keep the repository they stand for: of two repositories of one name the second
may be offered alone first and then both, which binds the first label, unless it is in
the draft, to the other repository under the cursor (`table.go:653`). Nothing in the
repository says otherwise, so the model keeps it, and `ReadsKeepDraft` claims no more than
the code keeps.

`RowWindow` has the rows, `focus` and `offset`. A row is a name and a number of lines,
which only tabs with lists use; `DeskLines` is what stands above and below the rows and
depends on the tab and the height of the terminal (`table_capture.go` promises that for
its part). Columns and their horizontal scroll, popups and a change of identity are left
out. The focus is kept by `rowFocusKey`, a *name*; rows of the Context tab and of
repositories are grouped by more than their name, so an automatic update may move the
focus to another row of the same name, against `docs/design.md:414`. The model keeps that
behaviour (`RowNames` repeat), no property is about it.

### 2.10 Rendezvous, RemoteAccess

`Rendezvous`: `Listen`, `OpenLink`, `AcceptAndSend`, `ReadAcknowledgement` and `GiveUp` are
the command; `Deliver`, `Dial`, `Receive` and `ConnectDashboard` the application's workers;
`Show`, `CloseWindow`, `ShowLost` its GUI thread; `Quit` ends it. The operating system
delivers a link late, twice or never. Each session has an origin of its own, so the
branch for an origin that already has a window is not reached; navigation, single-instance
locking and the window of a plain start are left out.

`RemoteAccess`: `link` is the session of each window and of the `remote` command, `streams`
the lease streams whose every hop is intact, `leases` those the backend counts. Instances
are numbered as they start. A gateway is a session of the backend that serves others;
`Break` cuts a connection, `InstanceEnds` a backend, and everyone notices by an action of
its own. A terminal dashboard is a window without a bridge; TLS, keys and the SSH process
are what a dial may answer; which paths a bridge or gateway lets through is left out; a
session begins anew when its former lease is released.

## 3. Runs

| Run | Question | Bounds and why they suffice |
|---|---|---|
| `races` | Does what settles reflect everything, whatever the arrival order and the interleaving of two workers? | Any four of five batches: a child before its parent, an unrelated session that later links to the child and to the parent, in every order; two workers, one transient fault. Merging of two and of three components, invalidation through a chain and fencing all occur. 147,821 states. |
| `upgrades` | Do generations keep their rules and history its content through reprocessing, crashes, older and newer binaries, and is everything shown in the end? | Two unrelated scopes (so a generation is half built), one of them larger than the memory budget, four generations, two binaries, two crashes, one request, one fault. 41,430 states. |
| `poison` | Does a component that never succeeds hold up others, at the limits and among disputed batches? | One poisoned record, three other scopes that merge with it or not; two streams, a reused batch id, a re-bound sequence; `input_revision` at its limit; delay capacity for one component. 55,494 states. |
| `delivery` | Does the journal arrive in order, once and completely; do joined captures answer everyone with what they asked for? | Two records (one or two requests per database), two overlapping runs, both databases replaced, two deaths, one failure, anywhere; beside it a plain request, a full one and one for another directory (more callers are left to the proofs of section 4). 87,719 states. A third record was tried (2.3 million states) and shows nothing new. |
| `continuity` | Do checkpoints, lineages and evidence stay consistent while a file is written, cut and replaced under the reader; is a long line skipped only if it is irrelevant; does an event get its turn? | Capture: one source of up to two lines of usage or context (lines over the limit are in `quarantine`), one rewrite, one failure, both kinds of collection: two lines are a line before and after a checkpoint, and context; one rewrite is every race with a reader. Long line: two levels (`payload.type` is on the second), numbers of four symbols (`-0.1`, `1e+1`). Turns: two turns, a model, two files, five lines: a session, a turn context, an event and its neighbours. 872,803 states. |
| `quarantine` | Is a source skipped only with reason, and does no source hold up the others? | A changing source before an empty one, which must still get its checkpoint; one reader, so that jobs wait for each other. 808,330 states. |
| `tail_rewrite` | Does a rewrite always rotate the lineage? | No: finding 1. |
| `launch` | Is there one backend per database, alive exactly while needed, and is everybody served? | Three clients of two builds, three instances at a time, a death and a failure anywhere: a starter, a rival and a reconnecting client suffice for each race, the old build for a refused one. 425,630 states. |
| `protocols` | Nine parts that share no state (`part`): do they keep what they promise? | Reset: three commands on two token databases, one death. Hand-off: two commands, one quit. Drawer: two values, two drawers, two publications, readiness lost and found at any time. Progress: two collections together, one with two sources, two readers and a batch to send, one with nothing, a registry with room for one, leases of one interval, which may pass once: an attempt is lost, then forgotten because the other one needs its room. Replay: three sessions (parent, fork, fork of a fork), two events each, two uses. Counters: -1, 0 and 2 against a largest integer of 3, for every agent. Message: three writes, two times and usages. Remote: an SSH and a TCP dashboard, two instances, two gateways, one broken connection. Rows: three rows of one or three lines, heights that leave room for one to three lines. 882,870 states. |
| `screen` | Is "refreshed" only said over rows that hold it, and does the screen come to rest? | Two views, one accepted input, two disturbances: keys here or elsewhere, a collection asked for on the command line, failed reads. A failure and the key that answers it, two keys, or two failures meet every order of answers. 697,927 states. |
| `wrong_rows` | Do rows shown belong to the view chosen? | No: finding 2. |
| `repeats` | Do repeated counters never inflate? | No: finding 3. |

Deadlock is checked except in `delivery`, `protocols` and `repeats`: a backend that closed
is gone, and the protocols come to an end.

### Findings

1. `docs/design.md:82` says that rewriting or truncating a log rotates its lineage. The
   code compares the bytes up to the saved offset only. A last value without its newline
   is captured while the offset stays before it, so a file cut back to that offset and
   continued differently keeps its lineage, and two records share a source, lineage and
   ordinal. `tail_rewrite` shows it in one file of one line.
2. A test demands that readouts never present stale values while they load
   (`desk_test.go:50`). When a view could not be read, `r` clears the error and leaves
   `loading` off because an earlier view was loaded (`table.go:771`), so the rows of that
   earlier view stand under the new tab and filters until the answer comes.
3. `docs/design.md:189` says that unchanged cumulative snapshots never inflate. For a fork
   or subagent the code forgets the previous counters when the turn changes
   (`process.go:450`), so counters shown again, unchanged, in its next turn count twice.

### Properties

| Property | Says |
|---|---|
| `SettledSeesAncestors` | a settled scope was interpreted with all evidence of its ancestors |
| `SettledComponentExact` | a settled component was interpreted from exactly its evidence |
| `PublishesCurrent` | each publication writes rows computed from exactly the component's present evidence |
| `ClaimsDisjoint` | no scope is claimed twice |
| `BackoffOnlyForReadInput` | a failure delays only what the failed attempt had read |
| `StoreStaysReadable` | the running binary never refuses the metadata it wrote |
| `ReceiptTellsTruth` | a receipt without pending items is true, and a settled scope has none |
| `RulesMatchLabel` | rows of a generation come from its rules |
| `DeliversHistory` | the engine implements `TokenHistory`, liveness included |
| `TypeOK` of `DataEngine` | types, with revisions and generations inside their limits |
| `HealthyScopesSettle` | a scope not connected to a poisoned record settles |
| `AcknowledgedIsHeld` | what a cursor covers is in that token database, under the same sequences |
| `SendsWhatIsDue` | a run sends only the unacknowledged request of its destination, and meets no conflict |
| `DeliversJournal` | delivery implements `Replication`, liveness included |
| `FullMeansFull` | a full refresh is not answered with the success of a plain capture |
| `AllAnswered` | who waits is answered, and a stopping backend closes |
| `NothingSkipped` | a checkpoint never passes a line that was not captured, context included |
| `CommitsWhatIsThere` | what is committed stands in the file at that moment |
| `LineageExtends` | an incremental collection continues a lineage only by appending |
| `SkipsOnlyTheIrrelevant` | the streaming reader takes exactly JSON, and skips exactly what its discriminators prove irrelevant |
| `AttributedAsRead` | an event has the turn and model that its file, read in one go, gives it |
| `QuarantineDeserved` | a source is skipped only if its file has a line over the limit |
| `EverythingCaptured` | once agents stop, every source that can be captured is |
| `StoresOpenOnce` | one process has the stores open, and the lock names it |
| `IdleEnds`, `SomeoneServed` | unused backends end; in the end a client is served |
| `NothingLost` | every database is somewhere, none beside another's WAL, and only older ones were moved |
| `HandoffAgrees` | a command succeeds only for a window with a live session; no live session without a window |
| `ReadsKeepDraft` | values that arrive again check and clear no box, leave those of the draft with what they stand for, and leave the cursor on a line |
| `EndedShowsOutcome` | an ended collection is shown as what it was; its own messages are refused only if its lease ran out |
| `OutcomesStay` | an ended attempt keeps its outcome, and only ended ones make room |
| `CopiesCountOnce`, `NothingForgotten` | what was consumed once counts once, and counts, in whatever order evidence arrives |
| `CountersSound` | components are disjoint, not negative, in range, and add up to what the agent used |
| `ConfirmsWhatIsAgreed` | a message is confirmed exactly if all records that count agree |
| `AnsweredByItsOwn` | what a window shows comes from the instance and over the gateway it met |
| `LossIsTold` | once everybody has noticed, sessions, gateways and leases agree |
| `FocusShown` | the focused row is on the screen, and no room is wasted |
| `RefreshedIsHonest`, `ComesToRest` | as the run's question says |

`LineageExtends` is restricted to incremental collections: a full refresh verifies the
saved prefix and then reads from the start, so a file cut in between can leave a shorter
checkpoint under the same lineage. The code does not promise otherwise.

Every property of a passing run has a mutant in `PROJECT.json`: a plausible bug in a
modelled definition under which the same run fails. The operator stands in the module,
marked *Mutant*, and is used by nothing else.

### Fairness

*Engine.* The dispatcher and workers are goroutines that block only on each other or
on the database: weak fairness. Go's `select` chooses at random among ready cases and
the completion channel is first in first out, so a completion that is possible again
and again is taken: strong fairness for `Complete`. The clock advances, and a stopped
program is started again. Nothing is assumed of collectors, users, faults or crashes;
these are bounded by `MaxFaults`, `MaxCrashes`, `MaxReprocess`.

*Delivery.* A run that is going goes on, a collection is requested again (every viewer
requests one when it starts, users refresh), a stopped program is started again.
Nothing is assumed of captures.

*Capture.* Collections are requested again, readers and the writer go on. Nothing is
assumed of agents, failures and full refreshes.

*Launch.* Running processes go on, clocks advance, a closed connection is noticed by
the backend, and people start clients again. Nothing is assumed of leaving, dying and
giving up; `MaxDeaths` and `MaxFailures` bound the last two.

*Shared captures.* A collection returns (it is bounded by the files and cancelled with
the backend), goroutines that wait are woken. Nothing is assumed of requests.
`MCFairness` states the conditions of delivery and of shared captures for the part that
runs.

*Screen.* The terminal reports its size, commands run and their messages are delivered,
the backend publishes what is pending and ends its collections. Nothing is assumed of
keys, and failures are bounded.

The other runs check safety only.

## 4. Proofs

`DataEngine_proofs` proves, for every set of scopes, records, batches, every dependency
graph, any number of workers and all limits:

| Theorem | Property |
|---|---|
| `TypeCorrect` | `TypeOK` |
| `GroundworkHolds` | the inductive invariant `Groundwork` |
| `AlwaysReadable` | `StoreStaysReadable` |
| `NothingLeftBehind` | `SettledSeesAncestors` |
| `ComponentsExact` | `SettledComponentExact` |
| `PublicationsCurrent` | `PublishesCurrent` |

They assume `StoreAssumption` and `EngineAssumption`: scopes are finite, limits are
naturals, batches hold records. None of them uses fairness.

The argument. None of the properties is inductive: that a settled scope saw
everything follows only if revisions really stand for evidence. `Groundwork` says so:
besides types, `Bookkeeping` (a scope with evidence has a row, revisions never exceed
the input revision, dependencies come from evidence), `ClaimsHonest` (a claim whose
revisions still match holds exactly the evidence that is there now, which is what
makes the fence sufficient) and `GenerationsInOrder` (one active generation, the
target is building or active, no generation newer than the target). The graph part
rests on lemmas about `Reach`: it is the least closed set, a component is closed in
both directions, adding edges only below new evidence changes `Linked` only for scopes
whose revision changes. Then each property has one step per action of `Next`; only
`Accept`, `Publish` and `Stage` need more than the unchanged variables.

`EnginePromises_proofs` adds what collectors, rules and viewers rely on, from the same
assumptions:

| Theorem | What it states |
|---|---|
| `ClaimsApart` | `ClaimsDisjoint` |
| `ReceiptsTrue` | `ReceiptTellsTruth` |
| `LabelsKept` | `RulesMatchLabel`, an action property |
| `BackoffDeserved` | `BackoffOnlyForReadInput`, an action property |
| `ImplementsHistory` | `Spec` implies the initial states and the steps of `TokenHistory` under the mapping that `DeliversHistory` uses |

`ClaimsDisjoint` is the one that is inductive by itself: `Select` excludes what others
hold, and a claim keeps its members although edges join components later. Receipts need
`Accounted` (an accepted batch is held, and a settled scope has an outcome for each
record in the target generation). Labels need `OwnRules`: while an engine runs, the
generation it prepares carries its processor's label. Delays need `HeldRead`: whatever a
worker or a failed load holds read all evidence of the scope and its ancestors, as long
as the scope has the revision it was read at; a batch that arrives later moves that
revision, which is what the guard of `RecordFailure` compares. The refinement needs
`RowsHeld`: rows of any generation come from evidence the component holds now, since
evidence and edges only grow; so a new generation is shown only when there is nothing to
lose.

`Delivery_proofs` proves, for all records, databases, runs and bounds, from
`OutboxAssumption`, `DeliveryAssumption` (databases are numbered from one and there is
one at least; records are finite, as evidence ids are digests of one length) and
`StoreAssumption`:

| Theorem | What it states |
|---|---|
| `DeliveryHolds` | the inductive invariant `DeliveryInv` |
| `NothingAckedIsLost` | `AcknowledgedIsHeld` |
| `SendsWhatIsPending` | `SendsWhatIsDue`, if there are fewer records than input revisions |
| `ImplementsReplication` | `Spec` implies the initial states and the steps of `Replication`: the safety part of `DeliversJournal` |

The argument. `AcknowledgedIsHeld` speaks of two databases that no transaction joins.
`AcceptedPrefix` joins them: what the present token database accepted is the journal up
to some sequence, and the cursor is not beyond it. Accepting keeps that only if the
request continues the cursor (`RequestsSound`: a batch id names one request for good,
and a pending request starts after the cursor) and only one run sends at a time, what it
sends being what is pending (`RunsHold`). A lost answer leaves the prefix longer than the
cursor; the request is then sent again under its id and answered from the receipt. The
hypothesis of `SendsWhatIsPending` excludes the limit of revisions, which the code turns
into an error. In the refinement each step captures, copies, starts over or stutters:
`StepEffects` lists what a step may do to the journal and the store, so that the
mapping is worked out six times and not once per action.

`Capture_proofs` proves, for all sources, lines, jobs, workers and bounds, from
`CaptureAssumption`:

| Theorem | What it states |
|---|---|
| `ReadingHolds` | the inductive invariant `CaptureInv` |
| `NothingIsSkipped` | `NothingSkipped` |
| `MarkersDeserved` | `QuarantineDeserved` |
| `CommitsAreThere` | `CommitsWhatIsThere`, an action property |
| `LineagesExtend` | `LineageExtends`, an action property |

The argument. A job reads in pieces while its file is appended to, cut, rewritten in
place or replaced, and looks at the file's identity, size and time before and after.
`JobsHold` says what it holds at each stage: a sound cursor (its place is the number of
lines before it, its context that of these lines); bytes that continue the cursor's
prefix; records that are those of the bytes, or captured already; an incremental job that
keeps its baseline's lineage continues the baseline's prefix; and while it reads, its file is
the one under the path as long as the signature is the one the job saw. `CheckpointsHold`
says that what a checkpoint passed was captured and holds no line beyond the limit,
`MarkersHold` that a marker's signature belongs to a file with such a line. The action properties follow from the invariant before the step: the
writer commits nothing but what `JobsHold` says of its job. Prefixes are compared line
by line (`Starts`), since the library's `IsPrefix` is awkward for the provers; `PrefixStarts`
shows that both are the same.

`Capture_proofs` also proves `TurnsAttributed`, `CodexTurns`'s `AttributedAsRead`, for all
turns, models and files of any length, from `CodexTurnsAssumption` (`Missing` is neither a
turn nor a model). The invariant is `TurnsInv`: what the cursor keeps is the latest line of
each kind of the lines it has passed (`KeptAt`), and the records of a lineage are exactly
those that reading the first so many lines of its file gives (`RecordIn`, `HeldUpTo`). It is
needed because the property speaks of lines of a file, and the processor sees but one
record, with the contexts it was given, and those that have arrived. The rest is what
interpretation computes. `StateOf` is a fold over a record's contexts, whose result would
take an induction; here one function is shown to obey the fold's recursion, and the set on
which it and the fold differ to have no smallest member (`SmallestOf`). So the fold yields
what the contexts say together (`Says`, `StateIs`); `LatestIsNearest` and `NearestIs` then
identify the latest context, and the nearest turn context that follows, with lines of the
file.

Its last theorem is `LongLinesSkipped` (`SkipsOnlyTheIrrelevant`), for lines of any depth and
numbers of any length, from `LongLineAssumption` (one may nest at all). The agent writes
under a grammar that knows the open brackets and the names that lead to the value; the
reader has calls that have not returned, each with a path that is one of seven strings, and
a number's automaton. The invariant, `Matches`, is the relation of the two: the calls are the
open brackets, each with the reader's name of its place (`CallsFit`, `NameOf`); the reader
stands where the grammar does (`PlaceOf`); and what it saw, and what it took for values, are
the names and values of the text, unless a name came twice (`SaidFits`). `Taken` says that
under it the reader refuses exactly what the grammar does not allow, and there is one lemma
per kind of symbol that both sides stay related (`StepMatches`). A number is the hard place,
because the grammar looks ahead (may this be the beginning of a number?) and the reader does
not. `Shape` says what the symbols read so far are in each state of the automaton;
`ShapeBefore` and `ShapeAfter` that its states follow each other as the automaton's do,
`OneShape`, again by a smallest counterexample, that no symbols have two, and `ExtendsIs` that
a symbol may follow exactly if the automaton has a step for it.

`Launch_proofs` proves, for all clients, builds, instances and bounds, from
`LaunchAssumption` (clients are finite, `Nobody` and `Stale` are no instances):

| Theorem | What it states |
|---|---|
| `LaunchesHold` | the inductive invariant `IInv` |
| `LaunchTypeCorrect` | `TypeOK` |
| `OneOwner` | `StoresOpenOnce` |
| `OwnerReachable` | `OwnerIsFound`: a backend that listens is where the socket leads, and the other way round |
| `ViewersKept` | `NoViewerOnStopping`: no viewer on a backend that decided to stop |
| `OwnBuild` | `OnlyCompatible`: a viewer is on a backend of its build |
| `StartedAlone` | `StartsAlone`: a started backend meets an owner only if something died |

The last four are stated in `Launch` and need no run of their own, since they are proved
for every instance.

The argument. That no viewer is on a stopping backend is not inductive: `Expire` asks
whether the counter is zero. `Leases` says that the counter of a backend that answers is
the number of attached clients plus the departed ones it has not noticed, which is why
the module needs cardinalities. `Suited` extends build compatibility to clients that
met an instance but are not attached; `Exclusive` and `Orderly` say that one client
holds the startup lock, and which phases of client and backend go together. From these
follows that nobody starts a backend while another one opens its stores.

`Collections_proofs` proves, about captures that clients share, for all requests,
directories and refreshes, from `SharedCaptureAssumption` (`None` is neither a request
nor a record of the kinds used): `CapturesHold` (its `IInv`), `CaptureTypeCorrect`,
`FollowedOnce` (`OneFollowUp`: all stronger requests share one follow-up) and
`RefreshesAreFull` (`FullMeansFull`). `PendingOnce` carries the third: a follow-up is
full, so nothing can be stronger than it. `Promises` carries the last: what a full refresh
waits for is full already, will be followed by a full collection, or was given up by a
backend that stops.

The same module proves, about collections and their registry, for all attempts,
harnesses, sources, workers, batches, leases and retentions: `ProgressHolds`, that every
observer's message, every reporter's measurement and every entry of the registry has its
type in every reachable state, and `OutcomesAreKept` (`OutcomesStay`: an attempt that
ended keeps its outcome until it is forgotten, and only attempts that ended or lost their
lease are forgotten). `RegistryAssumption` says that `Absent` is no entry and no
measurement, `ProgressAssumption` that harnesses are 1..n with n > 0. The argument is one
lemma per operation of the registry. `Keeps` relates an entry before and after it, and
follows from `ExpireKeeps`: an entry that is still live after `expire`, the only kind
`Apply` and `UpdateCapture` change, was live before it and is the same. What remains is
`Begin`, which may only give an id to an attempt that has no entry: `BegunOnce`, which is
why the theorem needs an invariant and not the registry alone.

Its last theorem is `OutcomesAreShown` (`EndedShowsOutcome`): what a viewer sees of a
collection that is over is what became of it. Its invariant, `OutcomeInv`, speaks of both
sides of each call. `CaptureHolds` is about a collection: in each step, what its reporter
last measured of a harness counts that harness's sources at their places (`Tallied`: found,
done, being read) and names the phase worked out of these counts; a harness that is through was told
to be, unless the result carries an error; sources stay held only behind others on their
way, which is why a collection that drained without being cancelled read all of them. From
this follows that no measurement and no message of it is invalid or a regression
(`WorkFollows`, `MeasureIsShown`, `TellIsShown`). `Shown` is about its entry: a live one is in
step with what the collection last told and measured, one that ended is at rest. The two
meet in one lemma per action, and `AgedIsShown` covers an entry that ended without its
collection, which may then measure what it likes. `LeastOf` gives the induction that
`IssueGivesOut` needs: a set of naturals has a least element.

`Viewer_proofs` proves `RefreshedHonestly` (`RefreshedIsHonest`) for all views, inputs,
keys and failures, from `ViewerAssumption` and `ServedAssumption`. The invariant,
`ViewerInv`, speaks of three times: when a poll read the attempts, when it read the
status, and when the loop handles it. `PollFits` says that a status read is no older than
the one known, than the acceptance of the attempt the same poll tells of, and than the
result the user waited for, which holds because a poll reads attempts first and because a
result makes the loop forget its polls and its status. `StatusFits` carries that to the
model; the rows are as new as the status once nothing needs to be read, because a revision
fixes what it covers.

It also proves `ReadsHold` (`ReadsKeepDraft`, an action property) for any number of values,
menus and publications, from `DrawerAssumption`. `DrawerInv` says that what a drawer lists,
drafts and labels is finite, since `Sorted` counts what stands below an item, and that its
cursor is on a line while values are shown. That a box keeps its state, and one of the
draft its repository, is then a matter of `MergedDraft` and `WithValues`; that the cursor ends on a line needs that the list is as long as the set it
sorts, which shrinks when what was labelled is offered no more.

Its last theorem, `FocusStays` (`FocusShown`), is about any number of rows of any height,
any terminal and any tab, from `RowWindowAssumption` (heights, rows and lines are naturals,
no row is empty). `WindowInv` is the types and the property itself, which is inductive:
`WindowStep` says that `ensureFocusVisible`, called with any focus and any offset, makes
it true. `Lines` is a set, so that fewer rows take fewer lines because their lines are a
subset (`FewerLines`), and `VisibleAre` concludes that the visible rows follow each other.
The loops of the code, to the first offset that shows a row, are least elements (`Least`):
`EnsureShows` finds the one scrolled to below the one `MaxScrollOffset` allows.

`Protocols_proofs` proves safety properties of four protocols, of the counters and of forks:

| Theorem | What it states | From |
|---|---|---|
| `HandoffsAgree` | `HandoffAgrees` for all requests and quits | nothing about constants |
| `OwnAnswers`, `LossesTold` | `AnsweredByItsOwn` and `LossIsTold` for all windows, transports, backends, gateways and breaks | `RemoteAssumption`: names of tabs, windows and the host are distinct |
| `DatabasesKept` | `NothingLost` for all commands, token databases and crashes | `ResetAssumption`: a command's name for its backup is not the store's own name |
| `AgreementConfirmed` | `ConfirmsWhatIsAgreed` for all stamps, uses and writes | `MessageAssumption`: stamps are naturals |
| `CountersHold` | `CountersSound` for all records: any integers, any of them missing | `UsageAssumption`: counters are integers, *missing* is none |
| `CopiesAreCountedOnce`, `NothingIsForgottenEver` | `CopiesCountOnce` and `NothingForgotten` for all sessions, forks, events and orders of arrival | `ReplayAssumption`: sessions are 1..n, *no parent* is none; and `~RepeatsAcross` |
| `RepeatsInTurnNeverInflate` | `RepeatsNeverInflate`, which the run `repeats` refutes with `RepeatsAcross`, without it | the same |

Their invariants. `Handed`: an acknowledgement under way was given by a window that held
the session, and what the application still does for a request it does after taking its
link. `Followed`: a stream is a lease of somebody who was not told of its end; an attached
client with a stream is of the running instance and of the gateway that accepts; and the
host has at most the one gateway it started.
`ResetInv`: who resets a token database holds its startup lock and nobody owns it
(`LocksHold`), a move goes to a place that holds no database and takes the WAL first
(`MovesClear`), and each database has a place, its WAL beside it (`Whole`). `MessageInv`:
pieces are of the formats of their harness; the theorem is then a matter of how the
processor selects among the pieces there are. `CountersHold` needs no invariant, since a
record does not change: one lemma per agent says that its reading is `Sound`, from lemmas on
what clamping, subtracting the reasoning and leaving it out do to the sum of the components.

The theorems of `CodexReplay` rest on two arguments. `ReplayInv` is inductive and about
rollouts: whoever shows a use shows the event that consumed it (`EventSound`), equal uses
follow each other, and within a turn, or in a session that is no fork, counters only grow
(`PairSound`); a parent started before its fork. It needs that counters are repeated within
their turn only, and the finding shows why. What `resolveCodexEvidence` makes of a state is
worked out from there. `ResolvedIs` shows that every session has a resolution, by induction
over the order in which they started; `HistoryOf` gives it as a chain of states, one after each event,
each following from the one before as one of four verdicts (`JudgeIs`): a copy, a repeat, a
doubt, or new. From the chain follow that every fact stands for an event that counts, of
the session or of one it descends from (`ProofsStand`); that counters compared with were
shown before, in the same turn (`RepeatsOne`); and, the heart of `CopiesAreCountedOnce`,
that of each turn of which the evidence of a session without a problem has a complete
event, its facts show one (`TurnsProved`).
A copy that its parent's facts do not show is therefore at least in a turn they do show,
and doubtful. `NothingIsForgottenEver` reads the same chain the other way: an event that is
left out has its counters in common with a fact or with an earlier event, and where counters
can be told apart both show the same use.

Only model-checked: liveness (`DeliversHistory`, `DeliversJournal`,
`HealthyScopesSettle`, `EverythingCaptured`, `IdleEnds`, `SomeoneServed`, `AllAnswered`,
`ComesToRest`), because fairness and `ENABLED` are outside the prover (the safety part of
the first two is proved). Every invariant of the passing runs is proved.

## 5. Not modelled

* Source capture: discovery of sources and locations, the SQL that reads OpenCode's
  tables. A source that appears or vanishes is one that starts or becomes empty.
* Processor: names of providers and models, provenance and estimates of facts.
* Launch: requests other than attaching (a draining backend finishes them); the reset
  command contending for the owner lock is in `StorageReset`.
* `ControlHandler` of collector progress, which nothing mounts.
* Encodings, the field whitelist, SQL aggregation and calendars: data that no property
  of the modules above distinguishes.
* SQLite itself: a transaction is one step, atomic and durable; file identity checks
  and replaced files under an open handle are left to the code's `checkFile`.
* Size estimates of components: one unit per record.
* HTTP, TLS, SSH, terminal and browser rendering: input and output without protocol
  state beyond the modules above.
* The query service, analytics, the command line and the web dashboard:
  `PROJECT.json` gives the reason for each.
