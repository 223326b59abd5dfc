------------------------------- MODULE Engine -------------------------------
(***************************************************************************)
(* The durable-execution engine of glyff: engraved calls of one SessionId, *)
(* as packages/glyff/src/glyff/_executor.py runs them against the records  *)
(* of that session.  A call is identified by its parent, its content and   *)
(* an ordinal the run's Sequencer hands out; START commits in one          *)
(* transaction, the body and COMPLETE in another; a completed call is      *)
(* replayed from its record instead of being run.                          *)
(*                                                                         *)
(* Every step is one stretch of code between two suspension points (or a   *)
(* crash, a cancellation, a store error), so TLC interleaves concurrent    *)
(* branches, metadata writes and pruning handlers as asyncio may.          *)
(***************************************************************************)
EXTENDS Naturals, Sequences, FiniteSets

CONSTANTS
    Attempt,    \* the invocations that may be made; a slot is used once
    Run,        \* the Session objects that may be entered on this SessionId
    Content,    \* classes of calls with equal domain, name and arguments
    Key,        \* metadata keys a body may set
    None,       \* no attempt
    MaxDepth,   \* bound: nesting of engraved calls
    MaxOrdinal, \* bound: equal calls of one parent in one run
    Pruning,    \* the descendants of a completed call are deleted on its event
    Detached,   \* a body, or a session, may end before the tasks it started
    Overlap,    \* a run may be entered while tasks of one already left are live
    Concurrent  \* a body may have several metadata writes under way at once

ASSUME EngineAssumption ==
    /\ MaxDepth \in Nat \ {0}
    /\ MaxOrdinal \in Nat \ {0}
    /\ None \notin Attempt
    /\ {Pruning, Detached, Overlap, Concurrent} \subseteq BOOLEAN

-----------------------------------------------------------------------------
(* Identities: the chain of frames from the session root to the call. *)

Frame == [content : Content, seq : 0..(MaxOrdinal - 1)]
Id == UNION {[1..n -> Frame] : n \in 1..MaxDepth}
Root == <<>>
Parent(i) == SubSeq(i, 1, Len(i) - 1)
BeneathOrSelf(i, j) ==   \* mutant: a path is a prefix of itself
    Len(j) <= Len(i) /\ SubSeq(i, 1, Len(j)) = j
Beneath(i, j) == Len(j) < Len(i) /\ SubSeq(i, 1, Len(j)) = j

Above == [i \in Id |-> {j \in Id : Beneath(i, j)}]

(* A counter of the Sequencer belongs to a parent and a content. *)
Scope == ({Root} \cup {i \in Id : Len(i) < MaxDepth}) \X Content

-----------------------------------------------------------------------------
(* Records.  A result is the attempt whose body produced it. *)

Status == {"absent", "started", "completed"}
Record == [status : Status, result : Attempt \cup {None}, meta : SUBSET Key]

Absent == [status |-> "absent", result |-> None, meta |-> {}]
Started == [status |-> "started", result |-> None, meta |-> {}]

CompleteAnew(rec, a) ==   \* mutant: the record is rebuilt, its metadata lost
    [Started EXCEPT !.status = "completed", !.result = a]
Complete(rec, a) == [rec EXCEPT !.status = "completed", !.result = a]
SetMetadata(rec, k) == [rec EXCEPT !.meta = @ \cup {k}]

-----------------------------------------------------------------------------
VARIABLES
    store,   \* the committed records of the session
    runs,    \* the state of each Session object
    counter, \* the counters of each run's Sequencer
    att,     \* the control state and locals of each attempt
    setter,  \* the metadata writes of each attempt
    entered, \* history: attempts whose body was entered
    durable, \* history: attempts whose completion has been committed
    emitted, \* history: attempts that emitted ExecutionCompleted
    failed   \* history: attempts that emitted ExecutionFailed

vars == <<store, runs, counter, att, setter, entered, durable, emitted,
          failed>>
history == <<entered, durable, emitted, failed>>

StageOpen == {"body", "serialize"}
Live == {"check", "startRead", "startCommit", "commit", "emit", "pruneRead",
         "pruneCommit", "emitFailed"} \cup StageOpen
Ended == {"returned", "raised", "crashed"}

AttemptState ==
    [pc : {"idle"} \cup Live \cup Ended,
     run : Run \cup {None},
     id : Id \cup {Root},
     caller : Attempt \cup {None},
     staged : Record,   \* what its open or closing transaction has staged
     found : Record,    \* what it read to complete
     doomed : SUBSET Id, \* what its pruning handler has listed
     ret : Attempt \cup {None}]

SetterState == [state : {"none", "read", "done", "failed"}, snap : Record]

IsLive(a) == att[a].pc \in Live
Idle == [pc |-> "idle", run |-> None, id |-> Root, caller |-> None,
         staged |-> Absent, found |-> Absent, doomed |-> {}, ret |-> None]
Leave(a, end, ret) ==   \* the frame is gone, and its locals with it
    [att EXCEPT ![a] = [@ EXCEPT !.pc = end, !.ret = ret, !.staged = Absent,
                                 !.found = Absent, !.doomed = {}]]
Goto(a, pc) == [att EXCEPT ![a] = [@ EXCEPT !.pc = pc]]
Stage(a, pc, rec) == [att EXCEPT ![a] = [@ EXCEPT !.pc = pc, !.staged = rec]]
Unset == [state |-> "none", snap |-> Absent]

Init ==
    /\ store = [i \in Id |-> Absent]
    /\ runs = [r \in Run |-> "new"]
    /\ counter = [r \in Run |-> [s \in Scope |-> 0]]
    /\ att = [a \in Attempt |-> Idle]
    /\ setter = [a \in Attempt |-> [k \in Key |-> Unset]]
    /\ entered = {} /\ durable = {} /\ emitted = {} /\ failed = {}

-----------------------------------------------------------------------------
(* Sessions. *)

(* Only tasks of r are at work on the session. *)
Alone(r) == /\ \A q \in Run \ {r} : runs[q] # "open"
            /\ \A a \in Attempt : IsLive(a) => att[a].run = r

OpenRun(r) ==
    /\ runs[r] = "new"
    /\ \A q \in Run : runs[q] # "open"
    /\ Overlap \/ Alone(r)
    /\ runs' = [runs EXCEPT ![r] = "open"]
    /\ counter' = [counter EXCEPT ![r] = [s \in Scope |-> 0]]
    /\ UNCHANGED <<store, att, setter, history>>

CloseRun(r) ==
    /\ runs[r] = "open"
    /\ Detached \/ \A a \in Attempt : att[a].run = r => ~IsLive(a)
    /\ runs' = [runs EXCEPT ![r] = "closed"]
    /\ UNCHANGED <<store, counter, att, setter, history>>

(* The process of a run dies; whatever it had not committed is gone. *)
Crash(r) ==
    /\ runs[r] \in {"open", "closed"}
    /\ runs[r] = "closed" => \E a \in Attempt : att[a].run = r /\ IsLive(a)
    /\ runs' = [runs EXCEPT ![r] = "crashed"]
    /\ att' = [a \in Attempt |->
                 IF att[a].run = r /\ IsLive(a)
                 THEN Leave(a, "crashed", None)[a]
                 ELSE att[a]]
    /\ UNCHANGED <<store, counter, setter, history>>

-----------------------------------------------------------------------------
(* Calling: the ordinal is taken before anything is read. *)

NextIdFromOne(r, parent, c) ==   \* mutant: the counter is read after its step
    Append(parent, [content |-> c, seq |-> counter[r][<<parent, c>>] + 1])
NextIdUnnumbered(r, parent, c) ==   \* mutant: equal calls are not told apart
    Append(parent, [content |-> c, seq |-> 0])
NextId(r, parent, c) ==
    Append(parent, [content |-> c, seq |-> counter[r][<<parent, c>>]])

Enter(a, r, caller, parent, c) ==
    /\ att[a].pc = "idle"
    /\ Len(parent) < MaxDepth
    /\ counter[r][<<parent, c>>] < MaxOrdinal
    /\ att' = [att EXCEPT ![a] = [Idle EXCEPT !.pc = "check", !.run = r,
                  !.id = NextId(r, parent, c), !.caller = caller]]
    /\ counter' = [counter EXCEPT ![r][<<parent, c>>] = @ + 1]
    /\ UNCHANGED <<store, runs, setter, history>>

CallFromSession(a) ==
    \E r \in Run, c \in Content :
        runs[r] = "open" /\ Enter(a, r, None, Root, c)

(* A task a body started and never awaited can call after the body ended:  *)
(* its copied context still names that call as the current one.            *)
CallFromBody(a) ==
    \E b \in Attempt, c \in Content :
        /\ \/ att[b].pc = "body"
           \/ Detached /\ b \in entered /\ runs[att[b].run] # "crashed"
        /\ Overlap \/ Alone(att[b].run)
        /\ Enter(a, att[b].run, b, att[b].id, c)

-----------------------------------------------------------------------------
(* Replay, or START in a transaction of its own. *)

CheckNeverReplays(a) ==   \* mutant: a completed record is not looked for
    /\ att[a].pc = "check"
    /\ att' = Goto(a, "startRead")
    /\ UNCHANGED <<store, runs, counter, setter, history>>
Check(a) ==
    /\ att[a].pc = "check"
    /\ LET rec == store[att[a].id] IN
       att' = IF rec.status = "completed"
              THEN Leave(a, "returned", rec.result)
              ELSE Goto(a, "startRead")
    /\ UNCHANGED <<store, runs, counter, setter, history>>

ResetForSiblings(r, i) ==   \* mutant: the scope of the call, not beneath it
    [counter EXCEPT ![r] = [s \in Scope |-> IF s[1] = Parent(i) THEN 0 ELSE @[s]]]
ResetForCall(r, i) ==
    [counter EXCEPT ![r] = [s \in Scope |-> IF s[1] = i THEN 0 ELSE @[s]]]

StartRead(a) ==
    /\ att[a].pc = "startRead"
    /\ counter' = ResetForCall(att[a].run, att[a].id)
    /\ att' = Stage(a, "startCommit", IF store[att[a].id] = Absent
                                    THEN Started ELSE Absent)
    /\ UNCHANGED <<store, runs, setter, history>>

PersistIfNew(a) ==   \* mutant: a record already there is left as it is
    IF att[a].staged = Absent \/ store[att[a].id] # Absent THEN store
    ELSE [store EXCEPT ![att[a].id] = att[a].staged]
Persist(a) ==
    IF att[a].staged = Absent THEN store
    ELSE [store EXCEPT ![att[a].id] = att[a].staged]

StartCommit(a) ==
    /\ att[a].pc = "startCommit"
    /\ store' = Persist(a)
    /\ entered' = entered \cup {a}
    /\ att' = Stage(a, "body", Absent)
    /\ UNCHANGED <<runs, counter, setter, durable, emitted, failed>>

-----------------------------------------------------------------------------
(* The body: calls, metadata writes, and the ways it ends. *)

Visible(a) == IF att[a].staged = Absent THEN store[att[a].id] ELSE att[a].staged

SettledEarly(a) == TRUE   \* mutant: branches are not waited for
SettledIfReturned(a) ==   \* mutant: a branch that failed is waited for
    /\ \A b \in Attempt : att[b].caller = a => att[b].pc = "returned"
    /\ \A k \in Key : setter[a][k].state # "read"
Settled(a) ==
    \/ Detached
    \/ /\ \A b \in Attempt : att[b].caller = a => ~IsLive(b)
       /\ \A k \in Key : setter[a][k].state # "read"

MetadataRead(a, k) ==
    /\ att[a].pc = "body"
    /\ setter[a][k].state = "none"
    /\ Concurrent \/ \A l \in Key : setter[a][l].state # "read"
    /\ setter' = [setter EXCEPT ![a][k] =
                    IF Visible(a) = Absent
                    THEN [state |-> "failed", snap |-> Absent]
                    ELSE [state |-> "read", snap |-> Visible(a)]]
    /\ UNCHANGED <<store, runs, counter, att, history>>

(* The whole snapshot goes back, with the key in it; outside an open stage *)
(* the write is refused.                                                   *)
MetadataSave(a, k) ==
    /\ setter[a][k].state = "read"
    /\ att[a].pc # "crashed"
    /\ IF att[a].pc \in StageOpen
       THEN /\ att' = Stage(a, att[a].pc, SetMetadata(setter[a][k].snap, k))
            /\ setter' = [setter EXCEPT ![a][k] =
                            [state |-> "done", snap |-> Absent]]
       ELSE /\ att' = att
            /\ setter' = [setter EXCEPT ![a][k] =
                            [state |-> "failed", snap |-> Absent]]
    /\ UNCHANGED <<store, runs, counter, history>>

(* The body returns and its record is read back; without one the call ends *)
(* in a LookupError, and neither event is emitted.                         *)
BodyReturn(a) ==
    /\ att[a].pc = "body"
    /\ Settled(a)
    /\ att' = IF Visible(a) = Absent
              THEN Leave(a, "raised", None)
              ELSE [att EXCEPT ![a] =
                      [@ EXCEPT !.pc = "serialize", !.found = Visible(a)]]
    /\ UNCHANGED <<store, runs, counter, setter, history>>

BodyRaiseCommits(a) ==   \* mutant: leaving the scope commits after an exception
    /\ att[a].pc = "body"
    /\ Settled(a)
    /\ store' = Persist(a)
    /\ att' = Stage(a, "emitFailed", Absent)
    /\ UNCHANGED <<runs, counter, setter, history>>
BodyRaise(a) ==
    /\ att[a].pc = "body"
    /\ Settled(a)
    /\ att' = Stage(a, "emitFailed", Absent)
    /\ UNCHANGED <<store, runs, counter, setter, history>>

EmitFailed(a) ==
    /\ att[a].pc = "emitFailed"
    /\ failed' = failed \cup {a}
    /\ att' = Leave(a, "raised", None)
    /\ UNCHANGED <<store, runs, counter, setter, entered, durable, emitted>>

-----------------------------------------------------------------------------
(* COMPLETE, in the body's transaction. *)

CompleteSave(a) ==
    /\ att[a].pc = "serialize"
    /\ att' = IF att[a].found.status = "completed"
              THEN Leave(a, "raised", None)
              ELSE [att EXCEPT ![a] =
                      [@ EXCEPT !.pc = "commit", !.found = Absent,
                                !.staged = Complete(att[a].found, a)]]
    /\ UNCHANGED <<store, runs, counter, setter, history>>

Commit(a) ==
    /\ att[a].pc = "commit"
    /\ store' = Persist(a)
    /\ durable' = durable \cup {a}
    /\ att' = Stage(a, "emit", Absent)
    /\ UNCHANGED <<runs, counter, setter, entered, emitted, failed>>

Emit(a) ==
    /\ att[a].pc = "emit"
    /\ emitted' = emitted \cup {a}
    /\ att' = IF Pruning
              THEN Goto(a, "pruneRead")
              ELSE Leave(a, "returned", a)
    /\ UNCHANGED <<store, runs, counter, setter, entered, durable, failed>>

-----------------------------------------------------------------------------
(* The pruning handler: list the descendants, delete them, whatever comes. *)

PruneReadChildren(a) ==   \* mutant: direct children only
    /\ att[a].pc = "pruneRead"
    /\ att' = [att EXCEPT ![a] =
                 [@ EXCEPT !.pc = "pruneCommit",
                           !.doomed = {i \in Id : /\ Parent(i) = att[a].id
                                                  /\ store[i] # Absent}]]
    /\ UNCHANGED <<store, runs, counter, setter, history>>
PruneRead(a) ==
    /\ att[a].pc = "pruneRead"
    /\ att' = [att EXCEPT ![a] =
                 [@ EXCEPT !.pc = "pruneCommit",
                           !.doomed = {i \in Id : /\ Beneath(i, att[a].id)
                                                  /\ store[i] # Absent}]]
    /\ UNCHANGED <<store, runs, counter, setter, history>>

(* Its commit may be cancelled after it took effect: the attempt raises. *)
PruneCommit(a) ==
    /\ att[a].pc = "pruneCommit"
    /\ store' = [i \in Id |-> IF i \in att[a].doomed THEN Absent ELSE store[i]]
    /\ \/ att' = Leave(a, "returned", a)
       \/ att' = Leave(a, "raised", None)
    /\ UNCHANGED <<runs, counter, setter, history>>

(* A handler's exception is logged and swallowed. *)
PruneFails(a) ==
    /\ att[a].pc \in {"pruneRead", "pruneCommit"}
    /\ att' = Leave(a, "returned", a)
    /\ UNCHANGED <<store, runs, counter, setter, history>>

-----------------------------------------------------------------------------
(* Anything else that ends an attempt without an event: a cancellation, at *)
(* a suspension point or delivered once a commit has settled; an error of  *)
(* the store or of the serializer.  What was staged is discarded.          *)
Abandon(a) ==
    /\ IsLive(a)
    /\ att[a].pc = "body" => Settled(a)
    /\ att' = Leave(a, "raised", None)
    /\ UNCHANGED <<store, runs, counter, setter, history>>

-----------------------------------------------------------------------------
Progress(a) ==
    \/ Check(a) \/ StartRead(a) \/ StartCommit(a)
    \/ \E k \in Key : MetadataSave(a, k)
    \/ BodyReturn(a) \/ BodyRaise(a) \/ EmitFailed(a)
    \/ CompleteSave(a) \/ Commit(a) \/ Emit(a)
    \/ PruneRead(a) \/ PruneCommit(a) \/ PruneFails(a)

Next ==
    \/ \E r \in Run : OpenRun(r) \/ CloseRun(r) \/ Crash(r)
    \/ \E a \in Attempt :
        \/ CallFromSession(a) \/ CallFromBody(a)
        \/ \E k \in Key : MetadataRead(a, k)
        \/ Progress(a) \/ Abandon(a)

Spec == Init /\ [][Next]_vars

(* The event loop resumes whatever is ready, so an attempt that can go on  *)
(* goes on; bodies are assumed to terminate.  Sessions are left.           *)
Fairness ==
    /\ \A a \in Attempt : WF_vars(Progress(a))
    /\ \A r \in Run : WF_vars(CloseRun(r))

FairSpec == Spec /\ Fairness

-----------------------------------------------------------------------------
(* Types of the state. *)
TypeOK ==
    /\ store \in [Id -> Record]
    /\ runs \in [Run -> {"new", "open", "closed", "crashed"}]
    /\ counter \in [Run -> [Scope -> 0..MaxOrdinal]]
    /\ att \in [Attempt -> AttemptState]
    /\ setter \in [Attempt -> [Key -> SetterState]]
    /\ entered \subseteq Attempt
    /\ durable \subseteq Attempt
    /\ emitted \subseteq Attempt
    /\ failed \subseteq Attempt

(* No two calls of one run share an identity, though equal calls race for  *)
(* their ordinals and starting a call resets counters (_sequencer.py).     *)
IdsUniqueInRun ==
    \A a, b \in Attempt :
        /\ a # b
        /\ att[a].pc # "idle" /\ att[a].run = att[b].run
        => att[a].id # att[b].id

(* reset_for_call never finds a counter of the call it starts: the fresh   *)
(* Sequencer of each run is what restarts the ordinals of a retried call.  *)
ResetFindsNothing ==
    \A a \in Attempt : att[a].pc = "startRead" =>
        \A c \in Content : Len(att[a].id) < MaxDepth =>
            counter[att[a].run][<<att[a].id, c>>] = 0

(* Whoever asks for a call, in whatever run, is answered with the same     *)
(* result: it is replayed, never computed twice (README.md, Behavior).     *)
Agreement ==
    \A a, b \in Attempt :
        /\ att[a].pc = "returned" /\ att[b].pc = "returned"
        /\ att[a].id = att[b].id
        => att[a].ret = att[b].ret

(* A call that returned is recorded with what it returned, or lies beneath *)
(* a completed call, where no resume will look.                            *)
AnswersAreRecorded ==
    \A a \in Attempt : (att[a].pc = "returned" \/ a \in emitted) =>
        \/ /\ store[att[a].id].status = "completed"
           /\ att[a].pc = "returned" => store[att[a].id].result = att[a].ret
        \/ \E i \in Id : Beneath(att[a].id, i) /\ store[i].status = "completed"

(* The body of a call that has completed is not entered again: completed   *)
(* work is replayed, and what pruning removes is out of reach              *)
(* (docs/events.md, Pruning completed subtrees).                           *)
CompletedNeverRerun ==
    \A a \in Attempt, b \in durable :
        ~(att[a].pc = "body" /\ att[a].id = att[b].id)

(* ExecutionCompleted is emitted at most once for a call, over all runs    *)
(* (docs/events.md, Delivery semantics).                                   *)
OneCompletedEvent ==
    \A a, b \in emitted : att[a].id = att[b].id => a = b

(* A body whose call failed left nothing behind: a record is completed, or *)
(* exactly what START wrote, and no failed attempt's result is recorded.   *)
FailurePersistsNothing ==
    /\ \A i \in Id : store[i].status = "started" => store[i] = Started
    /\ \A a \in failed : \A i \in Id : store[i].result # a

(* The metadata a body was told it had set is what its completed record    *)
(* carries, key for key (README.md, Per-execution metadata).               *)
MetadataWithResult ==
    \A i \in Id : store[i].status = "completed" =>
        store[i].meta =
            {k \in Key : setter[store[i].result][k].state = "done"}

(* While a body runs, and until its completion commits, its record is      *)
(* STARTED: neither the LookupError nor the "already completed" ValueError *)
(* of the completion path can be reached.                                  *)
RunningRecordIsStarted ==
    \A a \in Attempt : att[a].pc \in {"body", "serialize", "commit"} =>
        store[att[a].id].status = "started"

(* The records implement what Durable promises of them. *)
Promise == INSTANCE Durable WITH
    Call <- Id,
    Ancestors <- Above,
    Value <- Attempt \X SUBSET Key,
    NoValue <- <<None, {}>>,
    status <- [i \in Id |-> store[i].status],
    value <- [i \in Id |-> <<store[i].result, store[i].meta>>]

KeepsPromise == Promise!DSpec

(* A session that was entered is left, whatever became of its calls: none  *)
(* waits for ever on its branches, a metadata write or a pruning handler.  *)
EveryRunEnds ==
    \A r \in Run : runs[r] = "open" ~> runs[r] # "open"

=============================================================================
