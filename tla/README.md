# DataFlowAgentHub in TLA+

A model of the core of DataFlowAgentHub, a service that turns questions asked in
a chat session into SQL, agent pipelines or document look-ups. The modules are
translated from the code under `src/`; TLC checks them on small instances and
TLAPS proves the main safety results for every value of the constants.

## The system

A Go process (`cmd/api`) serves HTTP and an internal gRPC server, and keeps its
state in a platform database (MySQL). A Python worker (`services/ai`) serves gRPC
(SQL generation, document indexing, retrieval) and consumes tasks from NATS. A
web page shows a session through a server-sent event stream.

    browser --POST /messages--> PostMessage --EnqueueTask--> async_tasks, NATS
       ^                            |  \                        |       |
       |                     runs, messages            timeout watcher  consumer
       |                            |                           |       |
       +--- SessionStream <-- Bus.Publish <---------------------+   TaskCallback
                                    ^------------------------------------+

| part | state it keeps | operations | hard because |
|---|---|---|---|
| SSE bus (`internal/ssebus`), session stream (`handlers.go`) | channels per session, drop counter | Subscribe, cancel, Publish; the handler's loop | publishers, slow readers and leaving readers share channels; a send on a closed channel panics |
| Redis bus (`internal/ssebus`) | one subscription and relay goroutine per stream | Subscribe, relay, Publish, cancel | two queues in a row, links that break, cancellation that travels through a context |
| task queue (`internal/async`) | `async_tasks`, one goroutine per task | EnqueueTask, timeout watcher, reaper | the watcher reads and then writes; the goroutine dies with the process |
| message handler (`messages.go`) | `runs`, `messages` | PostMessage and its three paths | many statements on one request context, most errors only logged |
| internal gRPC server (`internal/grpcserver`) | the same tables | TaskCallback, RunStepCallback, KnowledgeDocCallback | five statements without a transaction; late and duplicate calls |
| agent consumer (`consumer.py`) | the message in hand | receive, run the graph, report, acknowledge | at-most-once delivery, acknowledgement inside the try |
| knowledge documents (`knowledge.go`, `knowledge_consumer.py`, `_server.py`) | `knowledge_docs`, files, Chroma | two uploads, IndexDocument, fallback through the queue | four stores written in turn, one request context |
| datasets and tables (`datasets.go`, `tables.go`, `internal/mysqlmgr`) | rows on the platform database, databases and tables on the dataset server, a map of pools | create, delete, connect, use | two servers, no distributed transaction; requests that outlive the dataset |
| users and roles (`auth.go`, `internal/seed`) | `users`, `permission_requests`, tokens that carry a role | seed, register, login, change role, delete, request, review | every handler checks and then writes; a token outlives the role it names |
| uploads and SQL terminal (`data.go`) | the rows of a dataset's table | import a CSV or XLSX file row by row, run a SQL file statement by statement, query and write | no transaction anywhere, a language model judges the columns, the table can be dropped meanwhile |
| SQL checks and execution (`internal/sqlrun`, `internal/nl2sqlexec`, `internal/rbac`) | none | lex, classify, permit, query, write | three readings of one text; callers that name no role |
| migrations (`internal/migrate`) | `schema_migrations` | Up at every start | DDL commits by itself, replicas start together |
| sessions, tokens, data sources, front end | see *Not modelled* | | |

Correctness, per part: the bus shows a stream exactly its session, in order, and
counts what it loses; a task settles once and stays settled, nothing is reported
about an open task, a refused request leaves nothing behind; a document called
completed was indexed and its file can be downloaded; a dataset has one pool, and is
gone after it was deleted; the answer to an upload or a query tells the
truth about the table, the agent's SQL does not write, and every text is read the same
way by all who check it; an account is unique, the seed
administrator is safe from the others, and a deleted account stays deleted.

## Modules

| module | models | composed from |
|---|---|---|
| `SessionFeed` | what a stream promises a browser (abstract) | |
| `SseBus` | `MemoryBus` and `SessionStream` | implements `SessionFeed` |
| `RedisBus` | `RedisBus` and `SessionStream` on top of it | implements `SessionFeed` |
| `HubTables` | the rows and events the run modules share | |
| `AsyncTask` | `async.Client`: enqueue, watcher, reaper | `HubTables` |
| `PostMessage` | `POST /v1/sessions/{id}/messages` | `AsyncTask` |
| `TaskCallback` | `InternalServer.TaskCallback` | `HubTables` |
| `Question` | what the API promises whoever asks a question (abstract) | |
| `RunLifecycle` | request, queue, watchers and callbacks with the consumer and the crashes | `PostMessage`, `TaskCallback`; implements `Question` |
| `DatasetStore` | datasets, tables, and `mysqlmgr.Manager` | |
| `KnowledgeDocs` | document uploads, IndexDocument, the knowledge consumer | |
| `UserRoles`, `MCUserRoles` | accounts, roles, upgrade requests; the instance with its symmetry | |
| `SqlGate` | the checks of `internal/sqlrun` and `internal/rbac` as operators on what they see of a statement | |
| `DataImport`, `MCDataImport` | uploads, SQL terminal, generated SQL, grants, deletion of the table; the instance TLC checks | `SqlGate` |
| `SqlLexer` | `tokenize` and `ClassifySQL`'s prefix test on texts, and a reference automaton | |
| `SqlText` | `parseSQL` on the same texts | `SqlLexer` |
| `Migrate`, `MCMigrate` | `migrate.Up` in several replicas; the embedded files | |
| `SseBusProofs`, `RedisBusProofs`, `RunLifecycleProofs`, `DatasetStoreProofs`, `KnowledgeDocsProofs`, `UserRolesProofs`, `DataImportProofs`, `SqlTextProofs` | theorems and proofs | the module of that name |

### How state and steps correspond to the code

**A step is a statement.** A handler is a program counter per request (`req`,
`cb`, `up`, `creator`, `del`, `call`, `reg`, `edit`, `review`); an action is the code from one statement on
a database, or one call of another service, up to the next. Whatever runs under a
mutex (`MemoryBus`, `Manager`) is one action. `PROJECT.json` maps every action to
its lines.

**Errors.** The constant `Faults` says what may go wrong: `"db"` (`"mysql"`) a
statement fails, and where the code tells no difference a write may have been
done although its caller sees an error; `"net"` NATS or the other process cannot
be reached; `"ctx"` a request context ends early, after which every further
statement of that request fails, the ones of its error path included.

**Crashes.** `ApiCrash` ends the requests, callbacks and watchers in progress;
`WorkerCrash` loses the message in hand and the pending ones and breaks its open
calls. The databases, the files and Chroma keep what they have.

**Abstractions.** One identifier names a request, its run and its task, because a
request creates at most one of each. Message texts, SQL, schemas and payloads are
left out, and with them the checks on them, which become choices of the action.
An event on the bus is its number in its session. `HubTables.log` is the sequence
of events published for a run; how a stream sees them is `SseBus`.

In `DataImport` a statement is its type and three facts about its text, a row is full or
too short, a header matches the table or does not, and a file is a sequence of these; the
table is a number of rows. `SqlLexer` and `SqlText` are about the texts themselves: a
character stands for its class, and `K` for a whole writing keyword. `strings.ToUpper`,
which only `ClassifySQL` applies before it looks, makes a keyword of two characters more:
`fold`, a letter outside ASCII whose upper case is an ASCII letter (`ı`, `ſ`), and `rest`.
`cr` is a blank for `tokenize` and not for `hasPrefixWord`. The reference automaton means
by comments and literals what the code means: no backslash in `'...'`, no blank needed
after `--`, nothing special about `#` and `/*!`. MySQL differs in each, so these modules
say whether the code reads a text as it intends to, not whether MySQL reads it so. The
loop of
`removeBlockComments` is `WithoutFirst`, one round, as often as the text has characters:
a round without a block comment changes nothing.

**What the drivers and servers do.** Three constants stand for facts outside the
repository, and the theorems hold whatever they are. `RowReturned` (`AsyncTask`,
`KnowledgeDocs`): `EnqueueTask` scans the new task's id from an INSERT
(`task.go:62-65`), and go-sql-driver v1.8.1 of `go.mod` returns no row for one, so with
the code as it is the value is FALSE: the row may be stored, `Scan` errs, the request is
refused, and nothing is ever published or watched. (`id` and `expires_at` have no
default either, so strict MySQL refuses the row.) The run `run_queue` shows this. The
passing runs take TRUE, the driver the statement was written for: they and the theorems
about watchers, consumer and callbacks say that the rest of the pipeline is right once
its first statement is. `IdsFilled` (`UserRoles`): the seed's INSERT names no `id`
(`seed.go:28-31`), which strict MySQL refuses; TRUE is a server that fills it in, and an
administrator exists only there or if somebody added the row by hand. `Blank`
(`KnowledgeDocs`): the documents without chunks, for which indexing answers ok and
stores nothing (`knowledge_base.py:61-62`).

**Statements of users.** A generated or typed statement on a dataset's pool may create or
drop a table (`DatasetStore!RunStatement`, `executor.go:79-86`). CREATE DATABASE and DROP
DATABASE as such statements are left out: a generator that is given the tables of one
database would have to name the hub's databases by their generated names.

**External.** NATS, MySQL, Redis and Chroma are modelled from how the code uses
them: NATS without JetStream hands a message to the subscriber at most once and
gives it no reply subject, so `msg.ack()` raises; both outcomes of the
acknowledgement are allowed. Redis Pub/Sub keeps nothing for a subscriber that is
not connected; go-redis subscribes again when its health check finds the link
broken. The select of the relay may choose an event although its context is
cancelled, and may choose either.

## Runs

| run | instance | shows |
|---|---|---|
| `bus` | 2 sessions, 2 streams, capacity 2, 3 events per session | invariants, liveness and the refinement of the bus |
| `redis` | 2 sessions, 1 stream, capacity 2, 5 events per session | two queues and a link that breaks and comes back |
| `run_faults` | 1 run, all faults, 2 crashes, reaper on | handler, watcher, two callbacks and reaper on one task |
| `dataset` | 1 table, 2 deletes, 2 other requests, both servers failing, 2 pools | pools, databases, tables and rows |
| `docs` | 2 uploads, all faults, 1 crash | documents |
| `users` | 2 registrations of one phone number, 2 starts, 2 edits, 1 request, 1 review, failing database | accounts and roles |
| `import` | 1 upload of up to 2 rows or statements, 1 terminal, generated or agent request with 9 kinds of statement, 3 roles, 1 row shown, 2 calls of the model, all faults | what answers say about the table |
| `sql_text` | all texts of up to 6 characters over 6 alphabets | lexer, classifier and splitter against the reference |
| `run_queue`, `run_status`, `users_edits`, `migrate` | the least instance that shows it | a document and the code disagree, see below |

Bounds. Capacity 2 with 3 events lets a channel fill, drop and drain (the code's
32 is a value of the proved constant). One run suffices for everything that is
stated per run: runs share only the consumer and its queue, and to wait behind another is
to wait longer, which a consumer without fairness does anyway.
Two crashes allow one of each process, in both orders. Two deletes and two other
requests are the least with which a delete races a delete, a connect races a
connect, and a late connect follows a delete. Two pools let a second connect be
noticed. With the Redis bus 5 events fill
the channel, leave one in the queue and still let one be dropped and one missed;
streams share nothing, so one is enough. Two registrations, two starts and two
edits are the least with which two of a kind pass the same check.
One row shown lets the terminal meet fewer, as many and more rows than it shows (500 in
the code). Two rows or statements let one fail after and before a good one; two calls of
the model are one retry. One upload and one other request share the table, and requests of
the same kind share nothing else. Six characters are enough for a literal or comment that
is opened, escaped, closed and followed by a word, each alphabet holding the characters
that interact.
`MaxPublished`, `MaxCrashes`, `MaxPools`, `MaxItems` and `MaxLen` are the only bounds on
behaviours. Deadlock is not checked because these systems may rest: all requests
answered, nothing published. `users` is symmetric in its accounts, starts and edits
and checks no liveness, so the reduction is sound.

### Properties

*Bus.* `ListedIffOpen`: no closed channel is listed, so Publish cannot panic, and
an open one is listed under its own session only. `EveryEventAccounted`: taken,
waiting and dropped add up to what was published since the stream joined.
`BufferInOrder`: within capacity, in order, nothing shown twice. `DropsCounted`:
`totalDrops` is the number of events that full channels refused. `WaitingIsTaken`: what
waits for a running stream is taken if no write to the client blocks for ever.
`EndedIsForgotten`: an ended stream leaves the bus.
`ImplementsFeed`: the refinement.

*Redis bus.* `QueuesInOrder`: what waits in the channel and in the client's queue
is in publication order, channel before queue. `LossesLocated`: a full channel, a
breaking link and a missing link are the only places where an event is lost.
`EndedIsUnsubscribed`: cancel reaches the relay and the relay the subscription.
`ImplementsFeed`: the same abstract feed as the in-memory bus.

*Runs.* `SettledForever`: a settled task is never overwritten. `ReportedIsSettled`:
outcome, answer and timeout of an accepted run become visible only after its task
has settled. `RefusedLeavesNothing`: an error answer leaves no message, watcher or
callback behind, even if the task row was committed. `StoredIsShown`: without a
crash, an answer that is stored is also published. `WatchedTaskSettles`: a task
with a live watcher settles; one whose watcher died with its process need not.
`ImplementsQuestion`: the refinement of `Question`, which says of a run's row, messages
and events not what they are but when they may change: before the answer, or after 202
with a settled task; never after another answer.

*Datasets.* `MapHoldsTheOpenPool`: the open pools are the one in the map.
`CleanDeleteStays`: after a delete that dropped the database nothing comes back.
`CreatedIsUsable`: 201 means row and database. `ListedTableExists`: a listed table
exists, unless its database went or a DROP TABLE was sent for it, by its own delete or as
a user's statement: no creation that failed half way lists a table that was never made.

*Documents.* `CompletedIsIndexed`: completed means that Chroma has the chunks, if there
are any.
`CompletedStays`: the unconditional UPDATE of the callback never reaches a completed
document. `ListedFileExists`: a listed file upload can be downloaded.

*Accounts.* `OneAccountPerEmail`: racing registrations or starts create one account.
`SeedKeepsItsRole`: the seed administrator keeps its role until a request of its own
is granted; it rests on every edit having seen a target that was no super_admin.
`PendingGrantsNothing`: the role is not granted while the request still shows as pending,
also when its own UPDATE took effect and gave an error. `GoneStaysGone`: a write
under way does not bring a deleted account back.

*Uploads and SQL.* `AnswerTellsRows`: what an upload stored is a prefix of its file, all of
it after ok, what the answer names after a failure, nothing after a refusal.
`StatementsAccounted`: every statement of a SQL file took effect or is complained about,
never twice, only INSERT and UPDATE, and the counts add up. `TruncatedIffMore`: the
terminal's `truncated` at its boundary. `AgentOnlyReads`: a request without a role never
writes, although the agent's SQL runs on the platform database itself.
`ColumnCheckEnds`: the model's check of an upload's columns ends, whatever the language
model does.

*Texts.* `WordsAgree`: after every turn of its loop `tokenize` has found the words outside
comments and literals. `ClassifiedIsLexed`: what `ClassifySQL` calls a write, for a keyword
in ASCII, has a word that `IsReadOnlySQL` refuses, which is what `SqlGate!Statement` takes
for granted. With a folded letter it does not hold: `ClassifySQL` answers INSERT where
`tokenize` finds no keyword. MySQL knows no such keyword and refuses the statement, and
`SqlGate` has no statement of this kind.
`StatementsAgree`: `parseSQL` yields the statements of a file without literals whose
comments stand apart. Beyond such files it does not: `--` and `;` inside a literal cut or
split it, and `-- /*` swallows what follows, because block comments go first
(`data.go:409`).

Each property has a mutant in `PROJECT.json`: a faulty variant of one action (marked
*Faulty variant* in the module) under which TLC finds the property violated.

### Fairness

Assumed is weak fairness of steps that have a bound in the code, and of no others:

* a watcher: its timer fires and its statements have 5 s (`task.go:100-162`);
* the statements of `PostMessage` from `EnqueueTask` on: the router ends their context
  after 60 s;
* the calls of the model in `validateColumns`, which has 15 s for all of them;
* a stream's Receive and Cancel and the relay's end: the Go scheduler runs a runnable
  goroutine, and a select does not prefer one ready case for ever.

Nothing is assumed of a stream's write to its client (the server has no write timeout and
the router's does not reach a write), of the consumer and its callbacks (no deadline, and
`run_consumer` ends after five attempts), of opening a pool, of generated SQL, users,
publishers, crashes or the reaper. So the project does not say that a queued message is
ever handled or that every request is answered: the code does not guarantee either.

### Disagreements between documents and code

Each of these is a run that TLC must find violated; `PROJECT.json` quotes the lines.

| run | property | what the code does |
|---|---|---|
| `run_queue` | `QueuedIsAccepted` | `EnqueueTask` scans an id from an INSERT, which returns none: a question for the agent pipeline is answered 500 and not 202 |
| `run_status` | `AnsweredIsRecorded` | a failed UPDATE of the run is logged, and the client answered 200 |
| `users_edits` | `EditsSpareSuperAdmins` | role changes and deletions do not repeat their check in the write, so an account promoted in between loses its super_admin role |
| `migrate` | `StartExecutesFiles` | a file is sent as one text over a DSN without `multiStatements`: MySQL refuses `001_init.sql`, and the process ends |

With `MultiStatements` TRUE the property of `migrate` holds for two replicas that do not
crash, and a crash of one between executing `001_init.sql` and recording it violates it
again: the file's CREATE INDEX statements cannot be repeated, so every later start fails.

Others were met while modelling and are allowed by the model without a run of their
own: the same `EnqueueTask` refuses an upload that was to be indexed later, and the document
stays pending; were it queued, the consumer would want a `workspace_id` that no message has
(`knowledge.go:247`, `knowledge_consumer.py:79`, against `docs/SMOKE_CHECKLIST.md:11`); `msg.ack()` of a core NATS message raises after the success was reported and the
except branch reports a failure of the same task (`consumer.py:50`, against
`services/ai/tests/test_consumer.py:59`); `StartReaper` is called nowhere and watchers die
with the process, so a restart leaves open tasks open (`task.go:175`, against
`docs/UPGRADE_GUIDE.md:597`); the watcher would announce a timeout although a callback
settled the task between its two statements (`task.go:129-159`, against its comment in line
99), which takes a task that was queued; an import that meets a bad value keeps the rows before it (`data.go:291`);
`datasets`, `dataset_tables`, `dataset_permissions`, `table_fields` and
`permission_requests` are created by no file of `internal/migrate`, although
`007_role_system_v2.sql` says that 001 does; a failed DROP DATABASE leaves a deleted
dataset with its database (`datasets.go:285`) and a failed metadata transaction leaves
a table (`tables.go:179`), against the archived dataset-storage specification; an
upload whose context ends during indexing is answered 500 with file and row stored
(`knowledge.go:248`, against `openspec/specs/rag-integration/spec.md:47`);
`RedisBus.TotalDrops` is always 0 although the relay drops events (`bus.go:169`, 209);
a failed subscription leaves its connection open (`bus.go:132`).

## Proofs

Every theorem is proved by TLAPS for all values of the constants; the lemmas about
single actions are in the same modules. The main results are listed under "theorems"
in `PROJECT.json`. In each module the argument is one inductive invariant.

* **Bus** (`SseBusProofs`). `BusInv`: the stated invariants need `ListedIffOpen` for the
  accounting (a listed channel belongs to a stream that counts) and the order of the
  buffer for the refinement: what a stream takes next is later than what it took last.
  `BusImplementsFeed` maps `joined` to the handler's place and shows step by step that
  Receive is a Show, Subscribe a Join, Cancel a Leave and everything else a stutter or
  a Publish. `DropsAreCounted` counts a set, the refused events with their channels: a
  publish adds one new pair for every full channel, so the cardinality grows by their
  number; that the set is finite is part of the induction.
* **Redis bus** (`RedisBusProofs`). `RedisInv` is `QueuesInOrder`, `LossesLocated` and
  `NotBegun`, which says what a stream that has not subscribed cannot have and that a
  relay outlives the handler only after its context was cancelled. The proof keeps one
  lemma per action and treats a stream at a time.
* **Runs** (`RunLifecycleProofs`). `AllConsistent` adds four facts per run:
  `UnderwayIsAccepted` (whatever is in the queue, with the consumer, in a callback or in
  a watcher belongs to a request that was answered 202), `RowByEnqueue` (task rows
  come from there only), `HandlerAfterUpdate` (a callback past its first statement has
  settled the task) and `SilentBefore` (nothing is visible of a run before that).
  `ReportedIsSettled` is not inductive without them: the UPDATE that settles the task
  and the INSERT that shows it are different steps with crashes in between.
  `StoredIsShown` is a count (`Told`: messages against events plus the handlers on their
  way to one) and needs `HandedOnce`, proved too: a task is queued once and reported on
  once with either outcome. A second report of one kind would start the handler anew
  and lose the event of an answer it had just stored. `RunsImplementQuestion` maps a
  request to its answer, and the run's row, messages and events to what is in sight.
  From `AllConsistent` the watcher and the callbacks work for requests answered 202 whose
  task has settled (Report), and an answer on the spot finds no task row (Finish), which
  is why `RowByEnqueue` also speaks of the handler's synchronous path.
* **Datasets** (`DatasetStoreProofs`). `StoreInv` adds `BeforeRow` (the
  database is made once, and until the row is there nobody deletes, creates a table or
  has a pool to run a statement on),
  `DroppedStays` (a drop is final and takes the tables with it, which is why a late
  Connect cannot succeed) and `MetaAfterTable` (a table about to be listed exists).
* **Documents** (`KnowledgeDocsProofs`). `AllPlaced` ties the place of an upload to what
  it has written: only an upload whose index call was answered can be completed, and it
  never enqueues, so the consumer's callback belongs to another document.
* **Accounts** (`UserRolesProofs`). `RolesInv` adds `EditsSpareSeeds` (an edit past its
  check aims at a seed administrator only if a request of that one was granted) and
  `Remembered` (rows, requests and histories fit). Without the first, `SeedKeepsItsRole`
  is not inductive: the edit in progress is the threat.
* **Uploads and SQL** (`DataImportProofs`). `ImportInv` says of every request that nothing
  is stored or answered before its time (`Begun`), which kinds of request can be where
  (`Placed`; the agent's can only generate and read, because `IsAllowedForRole` grants
  nothing to a caller without a role), and what the loops have stored and counted up to
  the next row or statement (`Looping`). `StatementsAccounted` needs the last: stored
  statements are before the next one, so a new one is stored once and in order. A step
  of one request leaves the others' conjuncts alone (`StepFrame`), whatever it does to the
  table.

* **Texts** (`SqlTextProofs`). For texts of every length. `WordsAgree` compares
  `tokenize`, which jumps over a word, comment or literal in one turn of its loop, with
  `Reading`, an automaton that takes one character at a time. It needs `StartsAnew`:
  whenever `tokenize` looks at a character, the automaton is between two things as well,
  or in a state that treats this character as it would there (after a `-` that began no
  comment, or after a quote that was not doubled). Each action then needs an induction
  over the characters it passes. The library's induction theorems have an operator as
  parameter, but its well-foundedness of `<` and the existence of minimal elements
  (`WFMin`) do not: from them `LeastNumber`, `Induct`, `InductUp` and `InductDown` are
  proved about sets of numbers, and with these that the recursive functions `Reading` and
  `LiteralEnd` satisfy their equations. `WritesAreLexed` rests on `LeadIsFound`: up to
  the leading keyword `tokenize` passes blanks and parentheses only, one at a time, so it
  cannot jump over it, and there it finds exactly that word; `AsciiLead` is why the
  keyword has to be one in ASCII.
  `FilesAreSplit` is the theorem about `parseSQL`. All its loops, and those of the
  `strings` functions it calls, are instances of `ForEach`; the laws of that loop
  (`ForEachLaws`, `ForEachConcat`) are proved once, and `SeqInduct` makes them inductions
  over texts. The two sides meet in `Scan`, the automaton as a loop that keeps the
  nonblank characters outside comments; it has to remember both what is certain and what
  is there if a dash or slash turns out to begin no comment. `ScanReads` says that it
  keeps what `Uncommented` leaves. A round of `removeBlockComments` removes characters
  that leave the automaton in the state it was in (`WholeComment`), so the text stays tidy
  and `Scan` keeps the same (`RoundOpen`, `RoundClosed`); this is where it matters that
  comments do not touch and that none opens inside another. A round that finds a comment
  shortens the text, so none is left after as many rounds as there are characters
  (`Rounds`). On a text without block comments the lines cut at their dashes keep what
  `Scan` keeps (`LinePass`), and to leave out blanks commutes with the cut at semicolons
  (`SplitNonBlanks`, `TrimmedPieces`). The theorem is not empty: the run finds its mutant,
  which keeps an unclosed comment, in a tidy text.

Assumptions on constants, each evaluated by TLC in the runs: `BusAssumption` and
`RedisBusAssumption` (a channel holds at least one event; of the in-memory bus also that
its streams are finitely many), `FaultsAssumption`,
`AsyncAssumption` and `RunAssumption` (which faults exist, whether the reaper runs and an
INSERT returns its row, a bound on crashes), `StoreAssumption`, `DocsAssumption`, `UserRolesAssumption` (a start and
a registration are different requests, and no phone number is the seed's address),
`ImportAssumption` (the kinds of the constants, and at least one call of the model),
`TextAssumption` (the alphabets consist of the characters the code tells apart).

Only model-checked: the liveness properties (`WaitingIsTaken`, `EndedIsForgotten`,
`EndedIsUnsubscribed`, `WatchedTaskSettles`, `ColumnCheckEnds`), because
TLAPS does not prove fairness. Every invariant and every action property that a passing
run checks has its theorem.

## Not modelled

* Run steps: the INSERT of `RunStepCallback` names no `id` for a primary key without a
  default (`004_agent_run_steps.sql:4`), which MySQL's strict mode refuses, and the error
  is only logged; there is no state to check.
* Data sources and the schema cache: their statements use the reserved word `database`
  unquoted (`datasources.go:35`, 103, 120, 186); the cache has a time to live and no
  invalidation.
* Tokens and the rate limiter: `RevokeJWT` is called nowhere, so no token is revoked; the
  limiter is a counter in Redis that expires.
* `run_consumer`'s reconnections: each loses the pending messages, as a crash of the worker
  does in the model; that it gives up after five is a consumer that takes no step.
* The agent graph inside the worker is one step of the consumer: its routing depends on
  texts of a language model. The same holds for what an answer contains.
* Renaming datasets and the listings, which write one row or none.
* The web pages: React state on the other side of HTTP.
* Generated gRPC code (`internal/gen`), configuration, telemetry, encryption of stored
  credentials.

## Plan

1. A composition of `RunLifecycle` with `SessionFeed`: what a page shows of a run, with
   the answer of the POST and the stream racing.
2. `DataImport` on the pools of `DatasetStore` instead of a choice.
