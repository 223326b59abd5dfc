# glyff: TLA+ models and proofs

glyff records the calls of *engraved* async functions of a session, so that a
session that failed, was paused or crashed can be resumed: completed calls are
replayed from their records, the interrupted ones run again. This directory
models that engine and the stores under it, checks the models with TLC and
proves the facts that hold for every size with TLAPS.

Paths below are relative to the repository; `glyff/` stands for
`packages/glyff/src/glyff/`.

## 1. The system

| Component | State | Operations | Talks to |
|---|---|---|---|
| Executor (`glyff/_executor.py`) | none of its own; one coroutine per call | `execute`: replay, START, body, COMPLETE, events | repository, sequencer, transaction scope, tracer, emitter |
| Sequencer, identity (`_sequencer.py`, `_types/execution.py`, `_domain.py`) | a counter per (parent, content) | `next`, `reset_for_call` | called before and at the start of every call |
| Session, context (`_session.py`, `_context.py`) | one fresh Sequencer and tracer per entered session; the call stack per task | enter, exit, `metadata.set/get`, transaction scopes | everything above |
| Execution aggregate (`_execution.py`) | status, result, metadata | `start`, `complete`, `set_metadata` | saved whole by the repositories |
| Events (`_event_system.py`, `events.py`) | handlers by type | `emit` | userland handlers, after COMPLETE is committed |
| Pruning handler (`testing/_pruning.py`) | none | delete the descendants of a completed call | repository, in its own transaction |
| Staging (`store/staging.py`) | the open stage of each task's context, its mutations, its token | open, save, delete, lookup, close | every store's transactions and repositories |
| In-memory store (`store/_memory*.py`) | committed records, claims | get, save, enumerate, delete, commit, claim | staging |
| File store (`packages/glyff-file-store`) | one document, a lock file, temporaries | read, read-modify-replace, claim | staging, `store/workers.py` |
| SQLite store (`packages/glyff-sqlite`) | tables of records and versions | immediate transactions, ordered enumeration, claim | staging, `store/workers.py` |
| Domain claims (`_domain_claims.py`) | versions observed by a context, a lock per domain | `ensure` | backend's `claim_domain`, before every call |
| Migration (`migration/`) | a session's records and versions, read offline | transition, rebuild, replace | stores |
| Path codec (`store/utils.py`) | none | identity to path and back | the keys of file and SQLite records |
| Canonicalization (`serialization/_canonicalization.py`, `_canonical_arguments.py`) | none | arguments to the bytes an identity has the digest of, and back | called before `next`, and for every record read |
| Aggregate codec (`store/aggregate_codec.py`) | none | execution to record and back | file and SQLite store |
| Serializers, function reflection | none | pure conversions | - |

How a call goes. The wrapper takes an ordinal for (parent, domain, name,
arguments) and so has the identity: the chain of such frames from the session
root. If the identity has a COMPLETED record it is replayed. Otherwise START is
committed in one transaction unless a record exists; then a second transaction
is opened around the body, the body runs (its calls go through the same path,
each in transactions of its own), its metadata writes are staged, and after it
returns the record is read back, completed, saved and committed. The event goes
out after the commit. An exception discards the second transaction, so the
record stays STARTED for the next run.

What is hard, and what must hold:

* **Interleaving**: branches of a body are concurrent tasks; every `await`
  lets another run. Equal calls race for ordinals; a reset of counters could hit
  a live branch. *Identities stay unique within a run; a reset finds nothing.*
* **Crash, failure, cancellation** between any two steps, over several runs of a
  session. *Whoever asks for a call gets one answer; the answer is recorded;
  completed work is not run again; a failed attempt leaves nothing behind.*
* **Ordering** of records: *a record's ancestors are recorded, a completed call
  is final, and nothing starts beneath it.*
* **Pruning** while other branches run. *A running call never loses its record.*
* **Waiting**: a body waits for branches that may fail. *Every attempt ends.*
* **Stages and contexts**: a task inherits the open stage by copy, transactions
  nest, close out of order, or are closed elsewhere. *Nothing discarded is read, a
  batch is final, the enclosing stage is given back.*
* **Enumeration** while branches write to the same stage and others commit.
  *Only what was visible is listed.*
* **The file store**: tasks and processes that replace one document, lock holders
  that are cancelled or die, stranded temporaries, builds of different formats. *One
  thread writes at a time, no lock stays behind, the clients together are one
  atomic document.*
* **The SQLite store**: threads and processes that wait for one write lock at most for a
  timeout, batches and migrations of several statements, openings that block the event
  loop. *The clients are one atomic document too; no call waits for itself.*
* **Conversions**: an identity is text in the end. *Different calls have different rows,
  the same call finds its row again, a path has one spelling, and a range of paths is the
  descendants of a call.*
* **Versions**: claims that race, fail or are cancelled, an answer that is kept for
  the life of a context. *A domain's records are of one generation; every call gets
  its verdict.*
* **Migration**: identities are chains of names and arguments, and all three change.
  *Calls told apart stay apart, equal ones stay equal and keep their ordinals, chains stay
  whole, and what is stored embeds in what was.*

`PROJECT.json` lists each hazard at its line with the properties against it.

## 2. The modules

| Module | What it is |
|---|---|
| `Engine.tla` | the executor with its sequencer, sessions, metadata, events, pruning and the committed records of one session |
| `Durable.tla` | the abstract specification: what glyff promises of the records of a session |
| `MCEngine.tla` | symmetry of the attempts, runs and contents for TLC |
| `MCEngineLive.tla` | a fixed order of attempts and runs in its place, for liveness |
| `Staging.tla` | the transactions of one process on a store: stages, contexts, batches, enumeration |
| `MCStaging.tla` | symmetry of the transactions and records for TLC |
| `DomainClaims.tla` | how the calls of a session agree with the store on their domain's version |
| `VersionRegister.tla` | the abstract specification of those versions |
| `MCDomainClaims.tla` | symmetry of the calls, contexts and versions for TLC |
| `FileStore.tla` | the clients of the file store, in several processes |
| `SqliteStore.tla` | the clients of the SQLite store, in several processes |
| `AtomicDocument.tla` | the abstract specification of both stores |
| `MCFileStore.tla`, `MCSqliteStore.tla` | the process of each client for TLC |
| `Paths.tla` | identities as paths, and back |
| `Arguments.tla` | arguments as canonical values and bytes, and back |
| `Records.tla` | executions as rows, and their enumeration |
| `Identities.tla` | the two together: which calls share an identity |
| `MCRecords.tla` | arguments, calls and contents for TLC |
| `Migration.tla` | the migration of one domain in one session |
| `MCMigration.tla` | sessions and declarations for TLC |
| `EngineProofs.tla` | theorems about `Engine`: types and identities however its switches are set; its records, answers and events under structured concurrency, with the refinement, and with detached tasks where nothing is pruned |
| `StagingProofs.tla` | theorems about `Staging` |
| `DurableProofs.tla` | theorems about `Durable` |
| `DomainClaimsProofs.tla` | theorems about `DomainClaims`, with the refinement |
| `FileStoreProofs.tla` | theorems about `FileStore`, with the refinement |
| `SqliteStoreProofs.tla` | theorems about `SqliteStore`, with the refinement |
| `MigrationProofs.tla` | theorems about `Migration` |
| `RecordsProofs.tla` | theorems about `Paths` and `Records` |

### Engine

State and code:

* `store`: the committed record of every identity (status, result, metadata).
  A result is the attempt that computed it, so "the same result" is "computed by
  the same execution of the body".
* `runs`, `counter`: each entered `Session`, and its `Sequencer`'s counters.
* `att`: one record per attempt, that is, per invocation of `execute`: where it
  is (`pc`), its run, identity and caller, and its locals: what its open or
  closing transaction has staged (`staged`), what it read back to complete
  (`found`), what its pruning handler listed (`doomed`), what it returned.
  A slot is used once, so attempts also are the history of the session.
* `setter`: the metadata writes of each body, each between its read and its save.
* `entered`, `durable`, `emitted`, `failed`: history variables.

Each action is one stretch between two suspension points. With the source line of
`_executor.py` where it starts: `Check` (34), `StartRead` (41), `StartCommit`
(leaving the scope of 40), the body (55) with `CallFromBody`, `MetadataRead` and
`MetadataSave`, `BodyReturn` (60), `BodyRaise` (56), `CompleteSave` (64),
`Commit` (leaving the scope of 53), `Emit` (68), `EmitFailed` (77), and the
handler's `PruneRead`, `PruneCommit`, `PruneFails`. `Abandon` is every other end:
a cancellation (a `BaseException`, hence without `ExecutionFailed`), an error of
the store or of the serializer. `Crash` ends all attempts of a run. Cancellation
that arrives during a commit is raised after the commit settled
(`store/workers.py`); it is `Commit` followed by `Abandon`.

`Sequencer.next` and `reset_for_call` hold asyncio locks around code without
another await, so each is one step and their locks are left out. Listing the descendants is one atomic
read, which is what the in-memory store does, and what a single SQLite statement
or a single read of the file store's document gives.

What the application may do is set by four switches, since the engine's
guarantees depend on it:

* `Pruning`: the reference pruning handler is registered.
* `Detached`: a body, or the session, may end while tasks it started are live
  (a `gather` that failed leaves its siblings running; a task nobody awaits).
  `FALSE` is structured concurrency: a body ends after its branches. A detached
  task may also call after its parent ended: its copied context still names it.
* `Overlap`: a session may be entered again while such tasks of an earlier run
  are live.
* `Concurrent`: one body may have several metadata writes under way.

### Durable

The promise: a call is started only while every call above it is in progress,
becomes completed once, with one value, and disappears only with everything else
recorded beneath a completed call. `Engine` instantiates it (`Promise`) with
`store` projected to status and value; `KeepsPromise` says that `Engine`
implements it; it is checked as a property of the run `engine` and proved. Every hypothesis
its theorems need is the operator `Nested` (nesting is a strict order),
stated in each theorem.

### Staging

`Engine` gives every attempt a stage of its own and looks at one session's
records. `Staging` looks at what is below: the context variable through which a
repository finds the stage. State and code:

* `open`: the value of `_StageRegistry._open` in each task's context, and
  `inherited`, the value copied when the task started.
* `stage`: one record per transaction with its `ExecutionStage`: open or closed
  (`_batch`), its staged mutations, whether the registry still holds its token
  (`_tokens`), what that token restores (`outer`), the task whose context made it
  (`owner`), and how far the transaction is (`tx`).
* `store`: the committed records. A record is named by the transaction that saved
  it, so a read tells whose record was met.
* `list`, `window`: an enumeration between the two moments at which it takes the
  committed records and the staged mutations, and, as history, what it could have met.

`Begin`, `Write` (save or delete) and `Finish` (commit or rollback) are the
operations; `Finish` either closes the stage, after which `Apply` or `ApplyFails`
ends the commit, or is refused. `CloseRefused` covers both refusals: a close out
of order changes nothing, and a close in a copied context passes the check, pops the
token and then fails in `ContextVar.reset`. `ListBegin` and `ListEnd` are
`executions`: `backend` says whether the stage is copied first and the rows are
read later (SQLite, whose one cursor reads one committed state) or the other way
round (file store; the in-memory store does both at one moment, which is the case with
nothing in between). `Seen` is `get`.

The switch `Shared` lets a task close a transaction another task began. The engine never does
(a `TransactionScope` is entered and left by one coroutine); the
classes allow it.

### DomainClaims

`context` is how far each entering of the session is, `observed` its
`DomainClaims._observed`, `lock` the holder of each of its `_locks`, `call` the
calls with what they asked and were answered; `recorded` and `written` are the
store's versions and, as history, the versions under which records of a domain
are kept. Several contexts may be live at once: two processes, or a process and
its successor.

`EnsureObserved` and `Ensure` are the two ways `ensure` starts (lines 33 to 35);
a call that waited looks again when it gets the lock (`Acquire`, 45). `AtStore` is
the claim in the store's transaction, which differs in form but not in effect between
the three stores; `Return` is the coroutine going on with the answer. `Fail` is
an error of the store or a cancellation at any of these points, also after the
claim was recorded. `Write` stands for everything an admitted call records.
`_meta_lock` guards no await and is left out. `Migrate` replaces version and
records at once (`migration/_migrator.py:292`) and is possible only while no
context is live, as `docs/migration.md` asks of the application; the mutant of
`ActsAsRegister` shows what follows otherwise.

### VersionRegister

One version per domain, claimed once; verdicts are given on it; a migration
replaces it together with the records while no admitted call runs. `DomainClaims`
instantiates it with `verdict` computed from the calls (`ActsAsRegister`).

### FileStore

State and code (`glyff_file_store/_file_client.py`, `glyff/store/workers.py`):

* `doc`: the committed document as far as the operations tell it apart: its
  format, the commits whose records it holds, the claim it holds for a domain.
  Deletions and overwritten records are effects of a commit like any other, so
  that a lost commit is what matters; a commit is named by its record.
* `temps`: the temporaries, each by the call or the opening that writes it.
* `flock`: the lock file, with the depth that makes it re-entrant for one client;
  `mutex`: the `asyncio.Lock` of each client.
* `phase`, `format`: how far each `FileClient` is constructed, and for which format.
* `op`: each call with the caller's position (`pc`), its worker's (`work`), the
  document the worker is about to put in place (`view`), and the answer.

A client is opened in `Open`, `OpenLock` (72), `Sweep` (the temporaries, then the
stamp, 97 to 114) and, for a new store, `Stamp`; since the constructor is
synchronous, no coroutine of its process runs meanwhile (`Looping`), while threads
go on. An update is `Begin`, `Queue` (91), `Lock` (92), `StartWorker`
(`run_to_completion`), `ReadAndApply` and `Replace` in the thread, and `Return`. A
read is `Fetch` and `FetchReturn`, without any lock. `WorkFails` is any error of
reading, of the operation, of writing, or of replacing after the retries for
`PermissionError`; it removes the temporary. The three `Cancel` actions are a cancellation at each
place a caller waits; while a worker runs it is only remembered. `Crash` ends a
process with its threads; the operating system drops its file locks and the
temporary stays.

Two things are taken from how the code uses them: `os.replace` is
atomic, and an acquisition of `AsyncFileLock` that is cancelled leaves the lock
file free. The switch `OpenBusy` lets a client be opened while its own process has
an update under way. The opening then may block the loop on a lock file that
only the loop can release (hazard at `_file_client.py:72`), and `EveryCallEnds`
fails: the run has it `FALSE`. The switch `Teardown` lets a cancelled caller leave
before its worker, as at the end of `asyncio.run` (see below).

### SqliteStore

State and code (`glyff_sqlite/_sqlite_client.py`, `_sqlite_migration.py`, `glyff/store/workers.py`):

* `db`: what is committed: the stamp of the format, the rows of each commit, the winner of a
  claim, and the migrations that were made. `draft` of a call is the database as its own
  transaction sees it.
* `writer`: SQLite's write lock, which `BEGIN IMMEDIATE` takes and `COMMIT`, `ROLLBACK` or the end of
  the process gives back; `mutex`: the `_write_lock` of each client.
* `phase`, `format`, and `op` with `pc` and `work`, as in `FileStore`.

A client is opened in `Open`, `Initialize` (`BEGIN IMMEDIATE` and the stamp, 214) and `OpenCommit`;
the constructor is synchronous, so no coroutine of its process runs meanwhile. A write is `Begin`,
`Acquire` (251), and in the thread `BeginImmediate`, one `Execute` for each statement, and `Commit`; then
`Return`. A commit has a statement for each of its `Batch` mutations, a claim an insert and
a select, a migration the read of the session, the deletion of its rows, the rebuilt rows and
the versions. `Refuses` is the migration of a session that claimed nothing. `WorkFails` is
every exception, and `SQLITE_BUSY` after the busy timeout: both roll back. A read
is `Fetch` and `FetchReturn`: one cursor reads one committed state (WAL).
`Teardown` is as in `FileStore`, and here the run has it `TRUE`: the thread that outlives its event loop
is in a transaction of its own, so nothing is lost but time. That is what
`NoSelfContention` says: of the calls of one client no two threads ever compete for the write lock, except
with one that was left behind by its loop.

### AtomicDocument

One document with a stamp. Each operation is asked for, takes effect once or not at
all, then is answered; whatever ends without an answer is lost, and may or may
not have taken effect. `FileStore` instantiates it with `doc` itself and the
progress of each call (`ActsAsDocument`): a commit or a claim takes effect when the
document is replaced, a claim that changes nothing when it is read. `SqliteStore`
instantiates it with what is committed: every write takes effect at its `Commit`, also that of a thread
whose caller is gone. A commit is kept when any of its rows is there, so one written in
halves would be seen by a read that answers too early, and one undone by a migration
that wrote back what it had read before would be missed.

### Paths, Arguments, Records, Identities

`Paths` is `store/utils.py`. A text is a sequence of code points, since order, range and
spelling are about characters; the two hex digits of an escape are one, in an upper-case and
a lower-case form. `IsPath` is where `path_to_execution_id` raises. What the standard library does character
by character (`quote`, `unquote`, `str`, `int`, `str.join`, `str.split`) is a recursive function, so that
it can be reasoned about.

`Arguments` is the way of an argument to bytes. A value is a pair of a kind (`list`, `set`, `dict`,
`dataclass`, `partial`, `bytes`, `named` for types and functions, `opaque` for whatever only a fallback
representer takes) and its content; sets and mappings are sequences, in the order they are walked. An atom
keeps its type, the number Python compares by and its JSON text apart, since 1, 1.0 and `True` have one
of the first two and differ in the last. `Canonical` is `to_canonical`, `Refused` and `Encodable` are
the exceptions on the way, `Json` what `json.dumps` writes, as a value, because with sorted keys and fixed
separators a JSON value has one text. `Restored` and `Recorded` are
`from_recorded_bytes`. `Sorted` is `_canonicalize_set`: a stable sort by Python's `<`,
or by bytes when members cannot be compared.

`Records` has one session: `calls`, the identities of the calls made; `stage`, the caller's
stage; `rows`, by path, and `saved`, as history, the executions they are to stand for; and of the enumeration
`pc`, what it was `asked`, the paths it has `staged` to merge, the rows of its `cursor` and of the `batch`
fetched, `out`, what it has listed, and as history `found`, what was saved when it asked the database.
`Enumerate` is `executions` up to its first `await` (64 to 66), `Select` and `Fetch` are
`iter_committed`, `Merge` one staged path or one row of the loops (72 to 91), `Finish` what remains. A list that is
sorted and then read from its front is a set whose least member is read next. `Commit` writes the
batch whole, or nothing if a result is no JSON text, and may come between `Enumerate` and `Select`, by
another transaction or the caller's own. Results are read back in another spelling than they were saved
in: the text is what the row keeps. The bytes of arguments, the digest of bytes and which bytes are restored are constants
(`BytesOf`, `Hex`, `Restorable`), of which `RecordsAssumption` states what is used: the digest
keeps bytes apart, recorded bytes are taken back, a site and a digest make a frame that `_types` accepts
(a domain of the plain characters of its grammar, a name and a digest that are not empty), and an execution has a result when it is completed
(`_execution.py`).

`Identities` gives `BytesOf` and `Restorable` what `Arguments` computes (in `MCRecords`), and states of
calls and arguments which of them are one call.

### Migration

State and code: `transitions` is `DomainMigration._transitions`, with the rules of each;
`session` the stored session (version of the domain, identities); `job` the run: the generation
read or rebuilt last (`records`), the versions visited, and of `_rebuild` the stack, the parent whose
children are being visited and those still to come; `image` the new identity of every record
moved in this walk. `arguments_by_source_scope` and `source_scopes_by_target` are read
off `image`: the scopes met are those of the records moved. An identity is the sequence
of its frames (name, arguments, ordinal); a foreign name is one of another domain, whose
records are rebuilt too, under the names they have, since their ancestors may have changed.

`Declare` is `transition` with its rules (`_migrator.py:192`, `:125-162`), and may come between
runs, in any order. `Begin` reads the session, `Choose` is the loop of `migrate`
(`:217`), `Pop` and `Turn` are the two loops of `_rebuild`, `Drop`, `Move` and
`MoveFails` the ways of one record through it, `Conclude` the new `StoredSession`, and
`Store` the one write, with which the report comes. A run keeps the store from `Begin`
to its end (a document update, an immediate transaction), so no other
writer appears; the application keeps the session offline otherwise. A conversion may answer
anything of the declared shape, a different answer each time, or fail. The content
of the records (status, result, metadata) is carried over unchanged and left out.

`ClassesKept`, `ChainsRebuilt` and `IdsStayUnique` speak of every moment of a walk,
`StoredEmbeds` of whole migrations: each record stored stands for one of the
session before, with its ordinal, beneath the record its parent stands for, and
two share a scope exactly if they did. So a resumed session finds the calls it would have
found, in their order.

## 3. The runs

| Run | Instance | Shows |
|---|---|---|
| `engine` | 4 attempts, 2 runs, depth 3, 2 equal calls, pruning | types, unique identities, no-op resets, agreement, recorded answers, one event, no rerun, live calls keep their record, `Durable` is implemented |
| `engine_live` | 3 attempts, 2 runs, depth 2, 2 keys, pruning, fairness | every call ends and every session is left; metadata commits with the result; failures leave nothing |
| `lost_metadata` | 1 attempt, 2 concurrent writes | violation, see below |
| `pruned_rerun` | 4 attempts, detached tasks, pruning | violation, see below |
| `staging` | 2 tasks, 3 transactions, 1 record, 1 enumerating task | nothing discarded is read, stages can be closed and give back the enclosing one, enumerations list what was visible |
| `claims` | 3 calls, 2 contexts, 1 domain, 2 versions, fairness | one generation, lasting verdicts, claims in turn, every ensure ends, `VersionRegister` is implemented |
| `filestore` | 2 processes with a client each, 2 formats, 1 commit, 2 claims, 1 read, fairness | one writer, owned temporaries, own format, every call ends, `AtomicDocument` is implemented |
| `migration` | 3 versions, 2 names and a foreign one, 200 sessions of up to 3 records, 8 sets of rules | unique identities, classes and chains kept, only drops lose records, no circle, what is stored embeds in what was |
| `filestore_teardown` | 2 clients, 2 commits, `Teardown` | violation, see below |
| `sqlite` | 2 clients in one process or in two, 2 formats, a commit of 2 rows, a migration, a claim, a read, `Teardown`, fairness | no contention with oneself, own format, every call ends, `AtomicDocument` is implemented |
| `records` | 33 arguments, 2 names and ordinals, 3 calls, batches of 2 mutations, rows fetched one by one | enumeration lists the overlay, paths have one spelling, different calls different rows, equal calls one |
| `set_order` | the same, with a set of members that compare equal | violation, see below |

Bounds. `Attempt` bounds the invocations of the whole history, over all runs;
four hold the interesting cases: a parent with two branches that are retried, a
chain of three with a second run, two equal calls of one parent. `MaxDepth` 3 is
the least with a grandchild, which separates pruning of descendants from pruning
of children. `MaxOrdinal` 2 lets equal calls of one parent exist. Two runs are a
first session and its resume.  Contents have one value in these runs: the calls of one
parent that matter to each other are the equal ones, as a different content is another
identity that shares no counter; the proofs take any set. Symmetry permutes attempts, runs
and contents, which are otherwise not distinguished; the liveness run does without it.
Deadlock is not checked: attempts are used up, and then the system stops.

In `staging` three transactions give a nest of two beside a branch's own, or a
nest of three; the second task starts inside any of them, so it inherits a stage
that may be closed, committed or rolled back under it. The properties speak of one
record at a time, and the operations on different records do not interact, so
one key is enough for them. The second task is the one that enumerates, since the first inherits nothing.
Transactions are used up as attempts are.

In `claims` three calls are one that asks, one that waits behind it, and one of
another context; domains share nothing (each has its lock and its version), so
one is enough, and two versions disagree.

In `filestore` every call may be made by either client, so calls compete for one
client's lock as well as for the file lock. Three updates are one that works,
one that waits for the same client's lock and one that waits for the file lock; the two claims
disagree and the commit must survive them. Calls and openings are used up.

In `migration` three records are two that might be gathered and one beneath, or
equal calls and a third, or a parent with two branches; identities have at most two frames, so a
chain is rebuilt on a moved parent. Three versions let a path have two
transitions, and transitions be declared in a circle. The rules are those that can
meet: one name moved onto another, two swapped, one dropped with what is beneath,
one converted in place, one converted to another name and shape, and none. `Current` is
declared nothing, since no run goes on from it.

In `sqlite` the second client is of the first one's process or of another; formats are alike, so the first
client has the first, and so are processes, so the one that may crash is the first client's. A commit
of two rows can be written in halves; the migration meets it before, between and after. As in
`filestore` calls and openings are used up.

In `records` arguments are chosen in groups that a conversion might confuse: keys that have one text, values that look
like the marker or like a fallback representation, a dataclass and a mapping, a callable and
its name, bytes and their hex digits, sets of members that cannot be compared, each set and mapping
in two orders. Every one of them is the argument of a call, and of a row that is read back; one
of them is also that of up to two further calls, with a name that has a slash, the ordinals 1 and
10, and any nesting. Two staged mutations and one row fetched at a time give each order of a staged and a
committed path. The digest is a function that tells all bytes apart, as SHA-256 is taken to. `OneSpelling` tries every
text that differs from a path in one character. Deadlock is not in question: a stage or an enumeration can always begin.

In `engine_live` attempts begin in a fixed order, and only the first sets both keys: in place of a
symmetry, which liveness cannot use.

Fairness (`sqlite`). As for `filestore`; SQLite's lock is polled within the busy timeout, and a waiter that
gives up is `WorkFails`, which is never assumed.

Fairness (`filestore`). Each call and each opening goes on when it can: threads
end, and asyncio resumes the caller. A waiter polls for the lock file and could be
overtaken for ever by new calls; here the calls are finitely many, and nothing is claimed
beyond that. Failures, cancellations and crashes are never assumed.

Fairness (`claims`). `Acquire` is fair since `asyncio.Lock` wakes a waiter when
it is released; `AtStore` and `Return` since a store's transaction ends and asyncio
resumes the caller.

Fairness (`engine_live`). Each attempt that can take a step of its own takes one:
asyncio resumes every ready task, and a thread's work ends. A body is assumed to
return or raise once its branches ended. `CloseRun` is fair: the `async with` of
a session whose calls ended is left. Nothing is assumed of crashes,
cancellations, new calls or of entering sessions.

### What the code does otherwise

Four claims of the documentation and comments do not hold of the code; each was
also reproduced with the package itself.

1. `lost_metadata`. `README.md:97` says the metadata set in a body commits
   together with its result. `metadata.set` (`glyff/_context.py:41-50`) reads the
   record, suspends, and saves the whole snapshot. Two writes under way at once
   lose one key, after both were acknowledged. With one write at a time the
   property holds (`engine_live`).
2. `pruned_rerun`. `docs/events.md:25` and `:64` say calls beneath a completed one
   are never replayed and pruning affects neither replay nor resume. A task the
   body did not await can call, after pruning, a child that had completed in an
   earlier run: its record is gone and its body runs again. With structured
   concurrency the property holds (`engine`), and without pruning it holds of
   such tasks too (proved below; TLC finds no violation in the same
   configuration with `Pruning` FALSE).
3. `filestore_teardown`. `glyff/store/workers.py:20-26` says a caller that holds a
   store waits for its worker however often it is cancelled, since the next writer
   would act on state the worker is still replacing. The worker is itself a task of
   the loop; when `asyncio.run` ends with a call under way (a branch left over from a failed
   `gather`, say) it cancels all tasks, and a cancelled `to_thread` is done while its
   thread goes on. The caller releases both locks, and another process starts to
   write. Without it the property holds (`filestore`, and proved below).
4. `set_order`. `docs/execution-identity.md:163` says a set is ordered so that its form is stable across
   processes. The sort (`glyff/serialization/_canonicalization.py:67`) is stable and compares by Python, to which 1 and
   `True` are equal: `{(("a",), 1), (frozenset({"a"}), True)}` has two forms, and which one depends on
   `PYTHONHASHSEED`. A resumed session may then not find the call's record. With members that
   differ to Python too the property holds (`records`).

Two switches show where a guarantee ends, without a claim to the contrary by the documentation of the engine: with
`Overlap` two runs in one process may both emit `ExecutionCompleted` for one call (`OneCompletedEvent`), and with
`Shared` a transaction closed by a task it was not begun in is left without its token
(`OpenStageCanClose`).

## 4. The proofs

The first part of `EngineProofs`, for every instance of the constants, with all four switches in any position:

* `EngineTypes`: `Spec => []TypeOK`. `TypeOK` is not inductive: a step of an
  attempt addresses `store` and `counter` by its identity and run, which are
  placeholders while it is idle. `Typed` adds that an attempt that began has an
  identity of at most `MaxDepth` frames and a run.
* `IdentitiesAreUnique`: `Spec => []IdsUniqueInRun`, and `ResetIsNoOp`:
  `Spec => []ResetFindsNothing`. One inductive invariant, `Sequenced`, carries
  both: every identity's last ordinal is below the counter of its scope
  (`Numbered`), so the counter's value is always new; a counter above zero belongs
  to a call the run made (`Witnessed`), so nothing was counted beneath a new
  identity; an attempt that has not started has counted nothing beneath itself
  (`Unused`), so `reset_for_call` removes nothing; and only an attempt whose body
  was entered makes calls (`Begun`). Each needs the others: uniqueness rests on
  resets being no-ops, and these on uniqueness, since the reset of one call would otherwise
  take the counters of its namesake.

  The consequence for the code: ordinals restart in a resumed session because
  each `Session` has a fresh `Sequencer`, not because of `reset_for_call`.

The second part of `EngineProofs` is about records, answers and events, for any number of attempts, runs, contents, keys
and depths, with `Concurrent` in either position. Without structured concurrency a promise is lost to pruning
(`pruned_rerun`) or to runs that overlap, so its first six theorems, `RunningIsStarted`, `AnswersAgree`,
`AnswersStayRecorded`, `CompletedOnce`, `NoRerun` and `FailureLeavesNothing`, each `Spec => []` of the property the
runs check, assume `~Detached \/ (~Pruning /\ ~Overlap)`: bodies and sessions wait for the tasks they started, with
pruning or without; or they do not, but nothing is pruned and a session is entered again only when the tasks of the last run are done.

There is an inductive invariant for each of the two cases: `Typed` and `Sequenced` from above with `Kept`, and with
`Tree` in the first (`Orderly`) or `OneRunAtWork` in the second (`Unpruned`).

* `Tree`: live calls belong to the one open run (`Opened`), each below the root was made by a
  caller of its run (`Called`), and whatever a live call is nested in is running its body
  (`Chained`). With unique identities this makes a live call the only live one of its
  identity, over all runs: no two attempts work on one record.
* `Kept`: a record is absent, what START wrote, or the committed work of a call of that identity
  (`Recorded`); committed work stays in its record or, where pruning is on, is
  beneath a completed one (`Lasting`); no identity is committed twice (`OneCompletion`); and what an attempt holds fits
  the record at the point it is at (`Placed`). The steps that could break it are commits and
  pruning. A commit is that of the one live call of its identity, whose record was STARTED all
  along; pruning removes what is beneath a completed call, and by `Chained` no live
  call is there.
* `OneRunAtWork`: all live calls are of one run, the open one if there is one. A branch left over may be live beneath a
  call that has completed, so `Chained` is lost; what stays is that no two live calls of one run share an identity.

Both lead to `Undisturbed`, all that `Kept` needs of the other attempts: live ones have identities of their own, none is
among the records a handler is about to delete, and nobody has completed what one of them runs. In the tree the last is `NoneAbove`; without
pruning a completed record is never lost, and a body whose record is STARTED cannot have one. `Kept` and
`Undisturbed` (`Steady`) carry the six theorems.

The refinement and `MetadataWithResult` do not extend to the second case: a branch left over may start beneath a call that has
completed, and write metadata that its completion no longer picks up. From `Orderly`, assuming `~Detached`, follow also:

* `EngineKeepsPromise`: `Spec => KeepsPromise`, the refinement of `Durable`. `StartCommit` is
  `Start` or a stutter, `Commit` is `Finish`, `PruneCommit` is `Prune` or a stutter, as what the handler listed
  is all there is beneath its call, and every other step leaves status and value alone.
* `RecordsFormForest`, `RecordsAreFinal`, `PrunedStayAway`: what `DurableProofs` derives from the
  promise, for the engine's own records. `EngineNests` is what they need of
  identities: that one is beneath another is a strict order.
* `MetadataComesWithResult`, assuming `~Concurrent` too: every copy of a record on its way into the store
  carries exactly the metadata its body was told it had set (`Marked`). `lost_metadata` is the
  counterexample with `Concurrent`.

`StagingProofs`, for any number of tasks, transactions and records:

* `StagesCanClose` and `EnclosingIsGivenBack`, assuming `~Shared`:
  `Spec => []OpenStageCanClose` and `Spec => []EnclosingGivenBack`. With `Shared` TLC finds a
  counterexample. The invariant says that the open stages of a task are nested:
  every group of them has an innermost one (`Innermost`), some stage was opened on
  what the task inherited (`Outermost`), and the task is in the innermost
  (`Given`). `EnclosingGivenBack` alone is not inductive, as it allows
  stages that were opened inside one another in a circle. The argument for closing:
  the innermost of the stages left is the one that the closed stage was
  opened inside, as every other is the outer stage of one that is left; if none
  is left, the closed one was the outermost.
* `BatchesAreFinal`: `Spec => BatchIsFinal`, with `Shared` in either position, as are the following.
* `ReadsAreNotDiscarded`: `Spec => []NoDiscardedRead`, from the invariant `Sees`: what a task has open
  it began itself or came with (`Contexts`), and what the store has was saved by a transaction that
  committed (`Committed`). A stage that was closed is never current, whoever closed it.
* `ListedWasThere`: `Spec => []ListedWasVisible`. Halfway through an enumeration (`Halfway`), what was read at
  the start has been met, and a key that was left out because it was staged is
  still staged in the stage that is held: nothing is ever unstaged (`StageKept`). The two orders
  of the stores need one half each. `StagingTypes` follows, with the history of what was met.

`DomainClaimsProofs`, for any number of calls, contexts, domains and versions:

* `ClaimTypes`, `RecordsAreOfOneGeneration`, `VerdictsAreLasting`, `OneClaimAtATime`, all from
  one inductive invariant: what a live context observed is what the store has
  (`Cached`), a call that asks has its lock and its answer is the store's
  (`Asking`), verdicts were given on the recorded version (`Judged`), what is
  under way belongs to a live context (`Live`), and a context not yet entered has
  done nothing (`Fresh`). `Live` is what makes an offline migration harmless.
* `ClaimsImplementRegister`: `Spec => ActsAsRegister`, step by step from that
  invariant: `AtStore` is a claim or nothing, the three ways to a verdict are
  decisions, failing and crashing end calls, and the rest stutters.

`FileStoreProofs`, for any number of clients, processes, calls and formats, with
`OpenBusy` in either position, assuming `~Teardown`:

* `OneWriterAlways`, `TemporariesAreOwnedAlways`, `OwnFormatAlways` and `StoreTypes`
  from one inductive invariant: where a call is decides what it has (`Placed`: an
  open client, that client's lock, the lock file, a worker); the lock file is held once,
  by a client being opened or by the call that has the client's lock (`Guarded`);
  what is about to be put in place is the present document with the call's own
  change (`Current`); and a client only stamps an empty store (`Stamped`). Two writers
  would both have the lock file, through one client, and so its lock, which has one
  holder. `Current` rests on `OneWriter`: a second writer's replacement would make
  it false. That is the step in which an update would be lost.
* `StoreImplementsDocument`: `Spec => ActsAsDocument`. It needs also that a call
  answers nothing before its work has ended (`Answers`). `Replace` is the effect of an
  update by `Current`; a crash loses all calls of its process at once.

`MigrationProofs`, for any versions, boundaries, arguments, declarations and sessions:

* `EqualCallsStayEqual`, `ChainsStayWhole`, `IdentitiesStayUnique`, `TypesHold` from one
  inductive invariant. The walk comes to no record twice (`Visits`): nothing is
  stacked twice and nothing beneath what is stacked was moved. A record moved has the name its rule
  gives it and, unless converted, its arguments (`Followed`); with the memory of
  conversions that makes equal calls equal again, and the refusal of gathered scopes
  keeps the others apart. Identity then follows: two records of one new identity
  have one scope and one ordinal, so they are one.
* `NoCollision`: the check of `StoredSession` (`_models.py:29`) never fails on what
  the runner rebuilds. It guards other migrators.
* `NothingElseIsLost`: `Spec => []OnlyDropsAreLost`. The walk owes nothing but what is on its stack
  (`Walked`): a record that is not dropped, and whose parent was moved, is moved, is next, or has
  its parent on the stack. At the end, when the stack is empty, this says of each
  record what it says of its parent, and an induction along the chain of frames
  (`SparedBeneath`, `WalkedAll`) gives the whole.
* `NoVersionTwice`: `Spec => []NoCycleMet`. No set of versions is closed under the transitions declared
  (`NoCircle`), and all versions a run has been at lead on to others it has been at or is
  at (`Onwards`); were it at one of them again, they would be such a set. `Declare` keeps
  `NoCircle` because of the walk of `_require_acyclic`: if the new transition closed a set, the path
  from its target would stay within it (`AcyclicPath`), and meet itself by counting
  (`FS_PigeonHole`) without having met the source, so a part of it was closed before.
  It assumes finitely many versions, as a program has.
* `MigrationEmbeds`: `Spec => StoredEmbeds`. Every generation embeds in the one
  before (`GenerationEmbeds`), embeddings compose (`EmbedsTransitive`), and the
  invariant `Generations` carries the composition along any number of transitions.

`SqliteStoreProofs`, for any number of clients, processes, calls and formats, with `Teardown` in either
position and no assumption beyond the model's own:

* `OpenMeansOwnFormat`, `CallsDontContend` and `SqliteTypes` from one inductive invariant: where a call
  is decides what it has (`Local`), a call with a worker of its own has its client's
  lock (`Locked`), a client that stamps is in a transaction and one that is open agrees
  with the stamp (`Opened`), and a call in a transaction has the write lock and works on what is committed and
  its own statements so far (`Alone`, `Drafted`). `Alone` is where a lost or torn write would show: nobody
  commits between the `BEGIN IMMEDIATE` of a call and its `COMMIT`, so its draft is never
  stale. Threads that outlive their event loop keep it, since they keep their transaction.
* `DatabaseImplementsDocument`: `Spec => ActsAsDocument`. A write takes effect as a whole
  at its `COMMIT`, also that of a call whose caller is gone, and nothing is visible before.

`DurableProofs`, under `Nested`: types, and that the promise implies
ancestors recorded, values exactly with completion, completion final, and nothing
started beneath a completed call. `EngineProofs` applies them to the engine's records.

Induction. The library's induction theorems take operators as parameters and cannot be used here.
`Least` and `Induct` (`MigrationProofs`) do the same for sets of numbers, from the library's
facts on well-founded relations, and are enough for the chains and paths above.

`RecordsProofs`, under `RecordsAssumption`, for any number of calls, sites, digests, contents and rows, any
size of batches and any nesting:

* `PathRead`: the path of a well-formed identity is accepted and read back as that identity.
  `PathWritten`: a text that is accepted is the path of the identity it is read as. So paths and identities
  correspond one to one. Both go by induction over texts and numbers: `quote` is undone by `unquote`,
  what `quote` writes holds none of the separators, so `partition` and `split` cut where the frames were joined, and
  `str` of an `int` is the only text of digits that is read as it. `PathsHaveOneSpelling` follows
  (`Spec => []OneSpelling`).
* `RangeOfCall`: the texts from a call's prefix up to `_prefix_upper_bound` are the paths of its
  descendants, and `AncestorsFirst`: a call goes before them. Both rest on the order of texts being total and transitive
  (`LessTotal`, `LessTransitive`), which also makes the least path of a finite set unique (`LeastIsFirst`).
* `EnumerationListsOverlay`: `Spec => []ListedIsOverlay`. The property speaks of the end of an enumeration and
  is far from inductive. `RInv` says what holds on the way: rows are those of the saved executions, under
  their paths (`RowsAreSaved`); what is left of the stage is beneath the call asked for
  (`StagedIsCopied`), and so are the rows left, which are those found, a batch before the rest of its cursor
  (`RowsAreFound`); a path that was staged and has been taken goes before every row left
  (`StagedGoFirst`), so no row is listed that a staged mutation replaces; and what is listed are, in the order of paths, the
  executions chosen but for those at the paths left, which come later (`ListedSoFar`). A step of the merge
  takes the least path left (`LeastStaged`, `LeastRow`), and `ListsNext` and `ListsNone` are the two things it can do with it.
  A row is never refused (`RowRead`). `RInv` was checked as an invariant of `records` too.

Every safety property that the passing runs check is proved but for `KeptApart` and `SameKey`. `Arguments` converts
nested values by structural recursion (`RECURSIVE` operators), of which the prover knows nothing. `SameKey` does not hold of all arguments either
(`set_order`), so TLC checks both on arguments that conversions could confuse.
Liveness stays with TLC (`EveryRunEnds`, `EveryEnsureEnds`, `EveryCallEnds`): fairness and `ENABLED` are outside what the
prover supports.

## 5. Not modelled

* A new top-level call by a task left over after its session was left. Such a
  task still holds the context; calls beneath a parent are modelled, from the root
  are not.
* Tasks of several sessions: sessions share no record, only a store's locks.
* `metadata.get`, event handlers other than pruning, resolution of handlers.
* In `Engine` two calls with one digest are equal calls, and a serializer is something that
  can fail; `Arguments` says which calls have one digest. The serializers of results, return types and
  binding of arguments to parameters are not modelled: their output is any content.
* Metadata in `Records` (packed value by value, as results are), NaN and infinity, texts that are not
  UTF-8, JSON numbers beyond what a float holds.
* SQLite itself: write lock, atomic commit and one committed state for a cursor are taken from it. A call
  is made at most once in `SqliteStore`; `read_sql` and `execute` are for inspection.
* `get` is one step in `Staging`; in the code it looks at the stage and then reads
  the store, so it may miss what a branch stages on the same record in between.
* What a process does after the end of its event loop under `Teardown` is not
  restricted; `Teardown` is only used to show what then goes wrong. A `FileLock` whose
  cancelled acquisition is completed by its thread afterwards is left to that library.
* Rules added to a transition between two runs after it was declared; the domain a session
  never claimed, which a run refuses at once; a session whose records lack a parent, which no
  store writes.
* A task that makes a call after its context was left (it would ensure again on the
  left context's cache). The public interfaces, function reflection and
  contract test suites carry no state.

## 6. Plan

What is modelled is complete but for the list above, and so are the proofs but for what is said at the end of
section 4. What is left is `KeptApart` for all arguments, which takes `Arguments` by depth instead of by structure.
