---------------------------- MODULE SqliteStore -----------------------------
(***************************************************************************)
(* The SQLite store (packages/glyff-sqlite): clients in several processes  *)
(* share one database.  A write holds its client's asyncio.Lock, and a     *)
(* worker thread runs its statements in one BEGIN IMMEDIATE; reads see     *)
(* what is committed; opening a client stamps or checks the format in a    *)
(* transaction of its own, on the thread of the event loop.                *)
(***************************************************************************)
EXTENDS Naturals

CONSTANTS
    Saves, Migrations, Claims, Reads,   \* the calls of clients, each made once
    Batch,                    \* mutations of a commit
    Client,                   \* instances of SQLiteClient
    Process, Home,            \* the process of each client
    Format,                   \* format versions of builds
    Teardown,                 \* an event loop is torn down while calls run
    None

Commits == Saves \cup Migrations
Writes == Commits \cup Claims
Op == Writes \cup Reads

ASSUME SqliteAssumption ==
    /\ Saves \cap Migrations = {} /\ Commits \cap Claims = {} /\ Writes \cap Reads = {}
    /\ Op \cap Client = {} /\ None \notin Op \cup Client \cup Format
    /\ Home \in [Client -> Process]
    /\ Batch \in Nat \ {0} /\ Teardown \in BOOLEAN

VARIABLES
    db,        \* what is committed
    writer,    \* who is in a BEGIN IMMEDIATE: a call or a client that is opened
    mutex,     \* _write_lock of each client: the call that holds it
    phase,     \* how far each client is opened
    format,    \* FORMAT_VERSION of its build
    op         \* the calls

svars == <<db, writer, mutex, phase, format, op>>

Database ==
    [stamp : Format \cup {None}, rows : SUBSET (Saves \X (1..Batch)),
     moved : SUBSET Migrations, winner : Claims \cup {None}]
Empty == [stamp |-> None, rows |-> {}, moved |-> {}, winner |-> None]

Ended == {"done", "lost"}

CallState ==
    [pc : {"idle", "queued", "working", "fetching"} \cup Ended,
     work : {"none", "starting", "running", "ended", "failed"},
     client : Client \cup {None}, cancelled : BOOLEAN, at : Nat,
     draft : Database, source : Database,
     claim : Claims \cup {None}, seen : SUBSET Commits]

Idle == [pc |-> "idle", work |-> "none", client |-> None, cancelled |-> FALSE, at |-> 0,
         draft |-> Empty, source |-> Empty, claim |-> None, seen |-> {}]

Settled(o) == op[o].work \in {"ended", "failed"}

(* A call ends answered or lost.  A thread that outlives it keeps what it   *)
(* works on.                                                                *)
Done(o) == [Idle EXCEPT !.pc = "done", !.claim = op[o].claim, !.seen = op[o].seen]
Lost == [Idle EXCEPT !.pc = "lost"]
Orphan(o) == [op[o] EXCEPT !.pc = "lost", !.cancelled = FALSE]

Init ==
    /\ db = Empty
    /\ writer = None
    /\ mutex = [c \in Client |-> None]
    /\ phase = [c \in Client |-> "new"]
    /\ format = [c \in Client |-> None]
    /\ op = [o \in Op |-> Idle]

(* SQLiteBackend.__init__ blocks the event loop of its process.             *)
Opening == {"waiting", "stamping"}
Looping(p) == \A c \in Client : Home[c] = p => phase[c] \notin Opening

-----------------------------------------------------------------------------
(* Opening a client: _initialize_schema_sync *)

Open(c, v) ==
    /\ phase[c] = "new"
    /\ Looping(Home[c])
    /\ phase' = [phase EXCEPT ![c] = "waiting"]
    /\ format' = [format EXCEPT ![c] = v]
    /\ UNCHANGED <<db, writer, mutex, op>>

AcceptsAny(c) == TRUE   \* mutant: whatever the stamp
Accepts(c) == db.stamp \in {None, format[c]}

Initialize(c) ==
    /\ phase[c] = "waiting"
    /\ writer = None
    /\ phase' = [phase EXCEPT ![c] = IF Accepts(c) THEN "stamping" ELSE "refused"]
    /\ writer' = IF Accepts(c) THEN c ELSE None
    /\ UNCHANGED <<db, mutex, format, op>>

OpenCommit(c) ==
    /\ phase[c] = "stamping"
    /\ db' = IF db.stamp = None THEN [db EXCEPT !.stamp = format[c]] ELSE db
    /\ phase' = [phase EXCEPT ![c] = "open"]
    /\ writer' = None
    /\ UNCHANGED <<mutex, format, op>>

(* Connecting, a statement or the commit fails, or the lock is not free     *)
(* within the busy timeout.                                                 *)
OpenFails(c) ==
    /\ phase[c] \in Opening
    /\ phase' = [phase EXCEPT ![c] = "refused"]
    /\ writer' = IF writer = c THEN None ELSE writer
    /\ UNCHANGED <<db, mutex, format, op>>

-----------------------------------------------------------------------------
(* run_immediate *)

Begin(o, c) ==
    /\ op[o].pc = "idle"
    /\ phase[c] = "open"
    /\ Looping(Home[c])
    /\ op' = [op EXCEPT ![o] =
                IF o \in Reads THEN [Idle EXCEPT !.pc = "fetching", !.work = "starting",
                                                 !.client = c]
                ELSE [Idle EXCEPT !.pc = "queued", !.client = c]]
    /\ UNCHANGED <<db, writer, mutex, phase, format>>

AcquireAnyway(o) ==   \* mutant: without the client's own lock
    /\ op[o].pc = "queued"
    /\ Looping(Home[op[o].client])
    /\ op' = [op EXCEPT ![o].pc = "working", ![o].work = "starting"]
    /\ UNCHANGED <<db, writer, mutex, phase, format>>
Acquire(o) ==
    /\ op[o].pc = "queued"
    /\ mutex[op[o].client] = None
    /\ Looping(Home[op[o].client])
    /\ op' = [op EXCEPT ![o].pc = "working", ![o].work = "starting"]
    /\ mutex' = [mutex EXCEPT ![op[o].client] = o]
    /\ UNCHANGED <<db, writer, phase, format>>

BeginDeferred(o) ==   \* mutant: the lock is not taken before the first read
    /\ o \in Writes /\ op[o].work = "starting"
    /\ op' = [op EXCEPT ![o].work = "running", ![o].draft = db]
    /\ writer' = o
    /\ UNCHANGED <<db, mutex, phase, format>>
BeginImmediate(o) ==
    /\ o \in Writes /\ op[o].work = "starting"
    /\ writer = None
    /\ op' = [op EXCEPT ![o].work = "running", ![o].draft = db]
    /\ writer' = o
    /\ UNCHANGED <<db, mutex, phase, format>>

(* The statements: an upsert for each mutation of a batch; the insert and   *)
(* the select of a claim; a migration reads the session, deletes its rows,  *)
(* writes the rebuilt ones and replaces the versions, of which it changes   *)
(* another domain's than the one claimed here.                              *)
Statements(o) == IF o \in Saves THEN Batch ELSE IF o \in Claims THEN 2 ELSE 4

After(o, d, n) ==
    CASE o \in Saves -> [d EXCEPT !.rows = @ \cup {<<o, n>>}]
      [] o \in Claims -> IF n = 1 /\ d.winner = None THEN [d EXCEPT !.winner = o] ELSE d
      [] o \in Migrations /\ n = 2 -> [d EXCEPT !.rows = {}]
      [] o \in Migrations /\ n = 3 -> [d EXCEPT !.rows = op[o].source.rows]
      [] o \in Migrations /\ n = 4 ->
            [d EXCEPT !.winner = op[o].source.winner, !.moved = op[o].source.moved \cup {o}]
      [] OTHER -> d

(* The session to migrate must have claimed a domain.                       *)
Migrates(o) == op[o].draft.winner # None

Execute(o) ==
    LET n == op[o].at + 1 IN
    /\ op[o].work = "running"
    /\ n <= Statements(o)
    /\ o \in Migrations => Migrates(o)
    /\ op' = [op EXCEPT ![o].at = n, ![o].draft = After(o, op[o].draft, n),
                        ![o].source = IF o \in Migrations /\ n = 1 THEN op[o].draft ELSE @]
    /\ UNCHANGED <<db, writer, mutex, phase, format>>

Settle(o, how, answer) ==
    [op EXCEPT ![o] = [Idle EXCEPT !.pc = op[o].pc, !.cancelled = op[o].cancelled,
                                   !.client = IF op[o].pc = "working" THEN op[o].client ELSE None,
                                   !.work = how, !.claim = answer]]

Commit(o) ==
    /\ op[o].work = "running"
    /\ op[o].at = Statements(o)
    /\ db' = op[o].draft
    /\ op' = Settle(o, "ended", IF o \in Claims THEN op[o].draft.winner ELSE None)
    /\ writer' = None
    /\ UNCHANGED <<mutex, phase, format>>

(* Connecting, a statement, the operation or COMMIT raises, or another      *)
(* connection keeps the write lock for longer than the busy timeout; a      *)
(* session that claimed no domain is not migrated.                          *)
RolledBackNot(o) == writer   \* mutant: the transaction is left open
RolledBack(o) == IF writer = o THEN None ELSE writer

Refuses(o) ==
    /\ op[o].work = "running"
    /\ o \in Migrations /\ ~Migrates(o)
    /\ op' = Settle(o, "failed", None)
    /\ writer' = RolledBack(o)
    /\ UNCHANGED <<db, mutex, phase, format>>

WorkFails(o) ==
    /\ o \in Writes /\ op[o].work \in {"starting", "running"}
    /\ op' = Settle(o, "failed", None)
    /\ writer' = RolledBack(o)
    /\ UNCHANGED <<db, mutex, phase, format>>

(* The worker is waited for, however often the caller is cancelled.  The    *)
(* end of asyncio.run cancels the worker's task with the caller's: it       *)
(* counts as done though its thread goes on, or is never started.           *)
Leaves(o) == Settled(o) \/ (Teardown /\ op[o].cancelled)

Return(o) ==
    /\ op[o].pc = "working"
    /\ Leaves(o)
    /\ Looping(Home[op[o].client])
    /\ \/ /\ Settled(o)
          /\ op' = [op EXCEPT ![o] = IF op[o].work = "ended" /\ ~op[o].cancelled
                                     THEN Done(o) ELSE Lost]
       \/ /\ ~Settled(o)
          /\ op' = [op EXCEPT ![o] = Orphan(o)]
       \/ /\ op[o].work = "starting"
          /\ op' = [op EXCEPT ![o] = Lost]
    /\ mutex' = [mutex EXCEPT ![op[o].client] = None]
    /\ UNCHANGED <<db, writer, phase, format>>

-----------------------------------------------------------------------------
(* read_committed, iter_committed: one cursor reads one committed state.    *)

Kept(d) == {s \in Saves : \E i \in 1..Batch : <<s, i>> \in d.rows} \cup d.moved

Fetch(o) ==
    /\ op[o].pc = "fetching" /\ op[o].work = "starting"
    /\ op' = [op EXCEPT ![o].work = "ended", ![o].seen = Kept(db)]
    /\ UNCHANGED <<db, writer, mutex, phase, format>>

FetchFails(o) ==
    /\ op[o].pc = "fetching" /\ op[o].work = "starting"
    /\ op' = [op EXCEPT ![o] = Lost]
    /\ UNCHANGED <<db, writer, mutex, phase, format>>

FetchReturn(o) ==
    /\ op[o].pc = "fetching" /\ op[o].work = "ended"
    /\ Looping(Home[op[o].client])
    /\ op' = [op EXCEPT ![o] = Done(o)]
    /\ UNCHANGED <<db, writer, mutex, phase, format>>

-----------------------------------------------------------------------------
Cancel(o) ==
    /\ op[o].pc \in {"queued", "fetching", "working"}
    /\ Looping(Home[op[o].client])
    /\ op' = [op EXCEPT ![o] = IF op[o].pc = "working" THEN [@ EXCEPT !.cancelled = TRUE]
                               ELSE Lost]
    /\ UNCHANGED <<db, writer, mutex, phase, format>>

(* A process dies, with its threads; SQLite drops what they had begun.      *)
Crash(p) ==
    LET dead == {c \in Client : Home[c] = p} IN
    /\ phase' = [c \in Client |-> IF c \in dead THEN "gone" ELSE phase[c]]
    /\ op' = [o \in Op |-> IF op[o].client \in dead THEN Lost ELSE op[o]]
    /\ mutex' = [c \in Client |-> IF c \in dead THEN None ELSE mutex[c]]
    /\ writer' = IF writer \in dead \/ \E o \in Writes : writer = o /\ op[o].client \in dead
                 THEN None ELSE writer
    /\ UNCHANGED <<db, format>>

-----------------------------------------------------------------------------
Step(o) ==
    \/ Acquire(o) \/ BeginImmediate(o) \/ Execute(o) \/ Commit(o) \/ Refuses(o) \/ Return(o)
    \/ Fetch(o) \/ FetchReturn(o)

OpenStep(c) == Initialize(c) \/ OpenCommit(c)

Next ==
    \/ \E c \in Client : OpenStep(c) \/ OpenFails(c) \/ \E v \in Format : Open(c, v)
    \/ \E o \in Op :
        \/ Step(o) \/ WorkFails(o) \/ FetchFails(o) \/ Cancel(o)
        \/ \E c \in Client : Begin(o, c)
    \/ \E p \in Process : Crash(p)

Fairness ==
    /\ \A o \in Op : WF_svars(Step(o))
    /\ \A c \in Client : WF_svars(OpenStep(c))

Spec == Init /\ [][Next]_svars
FairSpec == Spec /\ Fairness

-----------------------------------------------------------------------------
(* Types of the state.                                                      *)
TypeOK ==
    /\ db \in Database
    /\ writer \in Writes \cup Client \cup {None}
    /\ mutex \in [Client -> Writes \cup {None}]
    /\ phase \in [Client -> {"new", "open", "refused", "gone"} \cup Opening]
    /\ format \in [Client -> Format \cup {None}]
    /\ op \in [Op -> CallState]

(* A thread never waits for SQLite's write lock behind a thread of its own  *)
(* client, so calls of one client never time each other out, however they   *)
(* are cancelled; only one that outlived its event loop is in the way       *)
(* (run_immediate, run_to_completion).                                      *)
NoSelfContention ==
    \A o, q \in Writes :
        /\ op[o].work = "starting" /\ writer = q
        /\ op[o].client = op[q].client
        => Teardown /\ "lost" \in {op[o].pc, op[q].pc}

(* A client that is open works on a database of its own format, whoever     *)
(* stamped it and whenever (_stamp_or_check_meta).                          *)
OwnFormat == \A c \in Client : phase[c] = "open" => db.stamp = format[c]

(* Every call, every opening and every thread comes to an end, also when a  *)
(* client is opened, and blocks the event loop, while its process writes.   *)
EveryCallEnds ==
    []<>(/\ \A o \in Op : /\ op[o].pc \in {"idle"} \cup Ended
                         /\ op[o].work \in {"none", "ended", "failed"}
         /\ \A c \in Client : phase[c] \notin Opening)

-----------------------------------------------------------------------------
(* The store implements the atomic document: a write takes effect when it   *)
(* is committed.  A thread that outlives its call still has to.             *)
Progress(o) ==
    CASE op[o].pc = "idle" -> "none"
      [] op[o].pc = "done" -> "done"
      [] op[o].work = "failed" \/ (op[o].pc = "lost" /\ op[o].work = "none") -> "lost"
      [] op[o].work = "ended" -> "answered"
      [] OTHER -> "asked"

Answer(o) == [st |-> Progress(o), claim |-> op[o].claim, seen |-> op[o].seen]

Atomic == INSTANCE AtomicDocument WITH
    stamp <- db.stamp, kept <- Kept(db), winner <- db.winner,
    ticket <- [o \in Op |-> Answer(o)]

(* Whatever the processes, tasks, cancellations and crashes, each operation *)
(* takes effect at once or not at all, and no other undoes it.              *)
ActsAsDocument == Atomic!DSpec

=============================================================================
