----------------------------- MODULE FileStore -----------------------------
(***************************************************************************)
(* The file store (packages/glyff-file-store): clients in several          *)
(* processes share one document.  An update holds the client's             *)
(* asyncio.Lock and the store's lock file, and leaves reading and          *)
(* replacing to a worker thread; reads take no lock; opening a client      *)
(* removes stranded temporaries and stamps a new document.                 *)
(***************************************************************************)
EXTENDS Naturals

CONSTANTS
    Commits, Claims, Reads,   \* the calls of clients, each made once
    Client,                   \* instances of FileClient
    Process, Home,            \* the process of each client
    Format,                   \* format versions of builds
    OpenBusy,                 \* a client is opened while its process updates
    Teardown,                 \* an event loop is torn down while calls run
    None

Op == Commits \cup Claims \cup Reads
Updates == Commits \cup Claims

ASSUME StoreAssumption ==
    /\ Commits \cap Claims = {} /\ Updates \cap Reads = {} /\ Op \cap Client = {}
    /\ None \notin Op \cup Client \cup Format
    /\ Home \in [Client -> Process]
    /\ OpenBusy \in BOOLEAN /\ Teardown \in BOOLEAN

VARIABLES
    doc,       \* the document
    temps,     \* the temporaries beside it, each by what writes it
    flock,     \* the lock file: the client that holds it, and how often
    mutex,     \* _lock of each client: the call that holds it
    phase,     \* how far each client is opened
    format,    \* _format_version of each client
    op         \* the calls

fvars == <<doc, temps, flock, mutex, phase, format, op>>

Document ==
    [stamp : Format \cup {None}, kept : SUBSET Commits, winner : Claims \cup {None}]
Missing == [stamp |-> None, kept |-> {}, winner |-> None]

Held == {"held", "working"}
Ended == {"done", "failed", "cancelled", "crashed"}

CallState ==
    [pc : {"idle", "queued", "locking", "fetching"} \cup Held \cup Ended,
     work : {"none", "reading", "replacing", "ended", "failed"},
     client : Client \cup {None}, cancelled : BOOLEAN,
     view : Document, claim : Claims \cup {None}, seen : SUBSET Commits]

Idle == [pc |-> "idle", work |-> "none", client |-> None, cancelled |-> FALSE,
         view |-> Missing, claim |-> None, seen |-> {}]

Settled(o) == op[o].work \in {"ended", "failed"}

(* A call that ended keeps what it answered.                                *)
Over(o, s) ==
    [pc |-> s, work |-> IF Settled(o) THEN "none" ELSE op[o].work,
     client |-> None, cancelled |-> FALSE, view |-> op[o].view,
     claim |-> IF s = "done" THEN op[o].claim ELSE None,
     seen |-> IF s = "done" THEN op[o].seen ELSE {}]

Init ==
    /\ doc = Missing
    /\ temps = {}
    /\ flock = [by |-> None, depth |-> 0]
    /\ mutex = [c \in Client |-> None]
    /\ phase = [c \in Client |-> "new"]
    /\ format = [c \in Client |-> None]
    /\ op = [o \in Op |-> Idle]

-----------------------------------------------------------------------------
(* The locks.  A handle may take the file lock again while it has it, so    *)
(* alone it would not keep the tasks of one client apart.                   *)

Locked(c) == [by |-> c, depth |-> flock.depth + 1]

Unlocked == IF flock.depth = 1 THEN [by |-> None, depth |-> 0]
                               ELSE [flock EXCEPT !.depth = @ - 1]

(* FileClient.__init__ blocks the event loop of its process.                *)
Opening == {"waiting", "sweeping", "stamping"}
Looping(p) == \A c \in Client : Home[c] = p => phase[c] \notin Opening

-----------------------------------------------------------------------------
(* Opening a client. *)

Open(c, v) ==
    /\ phase[c] = "new"
    /\ Looping(Home[c])
    /\ OpenBusy \/ \A o \in Updates :
          op[o].client # None => Home[op[o].client] # Home[c]
    /\ phase' = [phase EXCEPT ![c] = "waiting"]
    /\ format' = [format EXCEPT ![c] = v]
    /\ UNCHANGED <<doc, temps, flock, mutex, op>>

OpenLockAnyway(c) ==   \* mutant: the store is not held while it is opened
    /\ phase[c] = "waiting"
    /\ phase' = [phase EXCEPT ![c] = "sweeping"]
    /\ flock' = IF flock.by = None THEN Locked(c) ELSE flock
    /\ UNCHANGED <<doc, temps, mutex, format, op>>
OpenLock(c) ==
    /\ phase[c] = "waiting"
    /\ flock.by = None
    /\ phase' = [phase EXCEPT ![c] = "sweeping"]
    /\ flock' = Locked(c)
    /\ UNCHANGED <<doc, temps, mutex, format, op>>

(* Leftovers go, then the stamp decides.                                    *)
AcceptsAny(c) == TRUE   \* mutant: whatever the stamp
Accepts(c) == doc.stamp = format[c]

Sweep(c) ==
    /\ phase[c] = "sweeping"
    /\ \/ /\ doc.stamp = None
          /\ temps' = {c}
          /\ phase' = [phase EXCEPT ![c] = "stamping"]
          /\ flock' = flock
       \/ /\ doc.stamp # None
          /\ temps' = {}
          /\ phase' = [phase EXCEPT ![c] = IF Accepts(c) THEN "open" ELSE "refused"]
          /\ flock' = Unlocked
    /\ UNCHANGED <<doc, mutex, format, op>>

Stamp(c) ==
    /\ phase[c] = "stamping"
    /\ c \in temps
    /\ doc' = [Missing EXCEPT !.stamp = format[c]]
    /\ temps' = temps \ {c}
    /\ phase' = [phase EXCEPT ![c] = "open"]
    /\ flock' = Unlocked
    /\ UNCHANGED <<mutex, format, op>>

OpenFails(c) ==
    /\ phase[c] \in {"sweeping", "stamping"}
    /\ temps' = temps \ {c}
    /\ phase' = [phase EXCEPT ![c] = "refused"]
    /\ flock' = Unlocked
    /\ UNCHANGED <<doc, mutex, format, op>>

-----------------------------------------------------------------------------
(* update_document *)

Begin(o, c) ==
    /\ op[o].pc = "idle"
    /\ phase[c] = "open"
    /\ Looping(Home[c])
    /\ op' = [op EXCEPT ![o] =
                IF o \in Reads
                THEN [Idle EXCEPT !.pc = "fetching", !.work = "reading", !.client = c]
                ELSE [Idle EXCEPT !.pc = "queued", !.client = c]]
    /\ UNCHANGED <<doc, temps, flock, mutex, phase, format>>

QueueAnyway(o) ==   \* mutant: without the client's own lock
    /\ op[o].pc = "queued"
    /\ Looping(Home[op[o].client])
    /\ op' = [op EXCEPT ![o].pc = "locking"]
    /\ UNCHANGED <<doc, temps, flock, mutex, phase, format>>
Queue(o) ==
    /\ op[o].pc = "queued"
    /\ mutex[op[o].client] = None
    /\ Looping(Home[op[o].client])
    /\ op' = [op EXCEPT ![o].pc = "locking"]
    /\ mutex' = [mutex EXCEPT ![op[o].client] = o]
    /\ UNCHANGED <<doc, temps, flock, phase, format>>

(* A thread of the lock takes the file lock.                                *)
Lock(o) ==
    /\ op[o].pc = "locking"
    /\ flock.by \in {None, op[o].client}
    /\ op' = [op EXCEPT ![o].pc = "held"]
    /\ flock' = Locked(op[o].client)
    /\ UNCHANGED <<doc, temps, mutex, phase, format>>

StartWorker(o) ==
    /\ op[o].pc = "held"
    /\ Looping(Home[op[o].client])
    /\ op' = [op EXCEPT ![o].pc = "working", ![o].work = "reading"]
    /\ UNCHANGED <<doc, temps, flock, mutex, phase, format>>

(* What an update makes of the document it reads.  A claim of a domain that *)
(* has a version changes nothing.                                           *)
Changes(o) == o \in Commits \/ doc.winner = None
AppliedAlone(o) ==   \* mutant: on an empty document
    IF o \in Commits THEN [Missing EXCEPT !.stamp = doc.stamp, !.kept = {o}]
                     ELSE [doc EXCEPT !.winner = o]
Applied(o) ==
    IF o \in Commits THEN [doc EXCEPT !.kept = @ \cup {o}]
                     ELSE [doc EXCEPT !.winner = o]

ReadAndApply(o) ==
    /\ o \in Updates /\ op[o].work = "reading"
    /\ \/ /\ Changes(o)
          /\ op' = [op EXCEPT ![o].work = "replacing", ![o].view = Applied(o)]
          /\ temps' = temps \cup {o}
       \/ /\ ~Changes(o)
          /\ op' = [op EXCEPT ![o].work = "ended", ![o].claim = doc.winner]
          /\ temps' = temps
    /\ UNCHANGED <<doc, flock, mutex, phase, format>>

Replace(o) ==
    /\ op[o].work = "replacing"
    /\ o \in temps
    /\ doc' = op[o].view
    /\ temps' = temps \ {o}
    /\ op' = [op EXCEPT ![o].work = "ended", ![o].view = Missing,
                        ![o].claim = IF o \in Claims THEN o ELSE None]
    /\ UNCHANGED <<flock, mutex, phase, format>>

(* Reading, the operation, writing or replacing raises; the temporary goes. *)
WorkFails(o) ==
    /\ o \in Updates /\ op[o].work \in {"reading", "replacing"}
    /\ temps' = temps \ {o}
    /\ op' = [op EXCEPT ![o].work = "failed", ![o].view = Missing]
    /\ UNCHANGED <<doc, flock, mutex, phase, format>>

(* The worker is waited for, however often the caller is cancelled.  The    *)
(* end of asyncio.run cancels every task, so the worker's with the caller's:*)
(* it counts as done, though its thread goes on.                            *)
Leaves(o) == Settled(o) \/ (Teardown /\ op[o].cancelled)

Return(o) ==
    LET c == op[o].client IN
    /\ op[o].pc = "working"
    /\ Leaves(o)
    /\ Looping(Home[c])
    /\ op' = [op EXCEPT ![o] =
                 Over(o, IF op[o].cancelled THEN "cancelled"
                         ELSE IF op[o].work = "failed" THEN "failed" ELSE "done")]
    /\ mutex' = [mutex EXCEPT ![c] = None]
    /\ flock' = Unlocked
    /\ UNCHANGED <<doc, temps, phase, format>>

-----------------------------------------------------------------------------
(* read_committed_executions *)

Fetch(o) ==
    /\ op[o].pc = "fetching" /\ op[o].work = "reading"
    /\ op' = [op EXCEPT ![o].work = "ended", ![o].seen = doc.kept]
    /\ UNCHANGED <<doc, temps, flock, mutex, phase, format>>

FetchFails(o) ==
    /\ op[o].pc = "fetching" /\ op[o].work = "reading"
    /\ op' = [op EXCEPT ![o] = Over(o, "failed")]
    /\ UNCHANGED <<doc, temps, flock, mutex, phase, format>>

FetchReturn(o) ==
    /\ op[o].pc = "fetching" /\ op[o].work = "ended"
    /\ Looping(Home[op[o].client])
    /\ op' = [op EXCEPT ![o] = Over(o, "done")]
    /\ UNCHANGED <<doc, temps, flock, mutex, phase, format>>

-----------------------------------------------------------------------------
(* The caller is cancelled.  What it has not handed to a worker it gives    *)
(* back at once; a worker's end is waited for.                              *)
CancelQueued(o) ==
    /\ op[o].pc \in {"queued", "fetching"}
    /\ Looping(Home[op[o].client])
    /\ op' = [op EXCEPT ![o] = Over(o, "cancelled")]
    /\ UNCHANGED <<doc, temps, flock, mutex, phase, format>>

GivenBackNot(o) == mutex   \* mutant: a cancelled waiter keeps the client's lock
GivenBack(o) == [mutex EXCEPT ![op[o].client] = None]

CancelLocking(o) ==
    /\ op[o].pc \in {"locking", "held"}
    /\ Looping(Home[op[o].client])
    /\ op' = [op EXCEPT ![o] = Over(o, "cancelled")]
    /\ mutex' = GivenBack(o)
    /\ flock' = IF op[o].pc = "held" THEN Unlocked ELSE flock
    /\ UNCHANGED <<doc, temps, phase, format>>

CancelWorking(o) ==
    /\ op[o].pc = "working"
    /\ Looping(Home[op[o].client])
    /\ op' = [op EXCEPT ![o].cancelled = TRUE]
    /\ UNCHANGED <<doc, temps, flock, mutex, phase, format>>

(* A process dies, with its threads; the system lets go of its lock.        *)
Crash(p) ==
    LET dead == {c \in Client : Home[c] = p} IN
    /\ phase' = [c \in Client |-> IF c \in dead THEN "gone" ELSE phase[c]]
    /\ op' = [o \in Op |->
                IF op[o].client \in dead
                THEN [Over(o, "crashed") EXCEPT !.work = "none", !.view = Missing]
                ELSE op[o]]
    /\ mutex' = [c \in Client |-> IF c \in dead THEN None ELSE mutex[c]]
    /\ flock' = IF flock.by \in dead THEN [by |-> None, depth |-> 0] ELSE flock
    /\ UNCHANGED <<doc, temps, format>>

-----------------------------------------------------------------------------
Step(o) ==
    \/ Queue(o) \/ Lock(o) \/ StartWorker(o) \/ ReadAndApply(o) \/ Replace(o) \/ Return(o)
    \/ Fetch(o) \/ FetchReturn(o)

OpenStep(c) == OpenLock(c) \/ Sweep(c) \/ Stamp(c)

Next ==
    \/ \E c \in Client :
        OpenStep(c) \/ OpenFails(c) \/ \E v \in Format : Open(c, v)
    \/ \E o \in Op :
        \/ Step(o) \/ WorkFails(o) \/ FetchFails(o)
        \/ CancelQueued(o) \/ CancelLocking(o) \/ CancelWorking(o)
        \/ \E c \in Client : Begin(o, c)
    \/ \E p \in Process : Crash(p)

Fairness ==
    /\ \A o \in Op : WF_fvars(Step(o))
    /\ \A c \in Client : WF_fvars(OpenStep(c))

Spec == Init /\ [][Next]_fvars
FairSpec == Spec /\ Fairness

-----------------------------------------------------------------------------
(* Types of the state.                                                      *)
TypeOK ==
    /\ doc \in Document
    /\ temps \in SUBSET (Updates \cup Client)
    /\ flock \in [by : Client \cup {None}, depth : Nat]
    /\ mutex \in [Client -> Updates \cup {None}]
    /\ phase \in [Client -> {"new", "open", "refused", "gone"} \cup Opening]
    /\ format \in [Client -> Format \cup {None}]
    /\ op \in [Op -> CallState]

(* At most one thread at a time, of all processes, reads the document to    *)
(* replace it or deletes temporaries, however callers are cancelled         *)
(* (update_document, __init__, run_to_completion).                          *)
Writing ==
    {o \in Updates : op[o].work \in {"reading", "replacing"}}
    \cup {c \in Client : phase[c] \in {"sweeping", "stamping"}}

OneWriter == \A x, y \in Writing : x = y

(* A temporary that is being written is not deleted by a client that is     *)
(* opened meanwhile, and one that is left belongs to a process that died    *)
(* (_initialize_sync, _write_document_sync).                                *)
TemporariesAreOwned ==
    /\ \A o \in Updates :
        /\ op[o].work = "replacing" => o \in temps
        /\ o \in temps => op[o].work = "replacing" \/ op[o].pc = "crashed"
    /\ \A c \in Client :
        /\ phase[c] = "stamping" => c \in temps
        /\ c \in temps => phase[c] \in {"stamping", "gone"}

(* A client that is open works on a document of its own format, whoever     *)
(* stamped it and whenever (_initialize_sync).                              *)
OwnFormat == \A c \in Client : phase[c] = "open" => doc.stamp = format[c]

(* Every call and every opening comes to an end: no lock stays with a call  *)
(* that failed or was cancelled.  As each is made once, this is to say that *)
(* again and again none is under way.                                       *)
EveryCallEnds ==
    []<>(/\ \A o \in Op : op[o].pc \in {"idle"} \cup Ended
         /\ \A c \in Client : phase[c] \notin Opening)

-----------------------------------------------------------------------------
(* The store implements the atomic document: an update takes effect when    *)
(* the document is replaced.                                                *)
Progress(o) ==
    CASE op[o].pc = "idle" -> "none"
      [] op[o].pc = "done" -> "done"
      [] op[o].pc \in {"failed", "cancelled", "crashed"} \/ op[o].work = "failed" -> "lost"
      [] op[o].pc \in {"working", "fetching"} /\ op[o].work = "ended" -> "answered"
      [] OTHER -> "asked"

Answer(o) == [st |-> Progress(o), claim |-> op[o].claim, seen |-> op[o].seen]

Atomic == INSTANCE AtomicDocument WITH
    stamp <- doc.stamp, kept <- doc.kept, winner <- doc.winner,
    ticket <- [o \in Op |-> Answer(o)]

(* Whatever the processes, tasks, cancellations and crashes, each operation *)
(* takes effect at once or not at all, and no other undoes it.              *)
ActsAsDocument == Atomic!DSpec

=============================================================================
