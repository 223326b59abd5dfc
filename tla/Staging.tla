------------------------------ MODULE Staging -------------------------------
(***************************************************************************)
(* What the tasks of one process see and change of a store through its     *)
(* transactions (packages/glyff/src/glyff/store/staging.py and the         *)
(* repositories built on it).  A transaction opens a stage and holds its   *)
(* mutations; the open stage lives in a context variable, which a task     *)
(* started meanwhile inherits by copy.  Closing a stage gives back the one *)
(* it was opened inside, and a commit then applies the batch at once.      *)
(***************************************************************************)
EXTENDS Naturals, FiniteSets

CONSTANTS
    Task,     \* the asyncio tasks, each with a context of its own
    Main,     \* the task that is there at the start
    Stage,    \* the transactions that may be begun; each has one stage
    Key,      \* the records of the store
    None,     \* no stage; no record
    Lister,   \* bound: the tasks that enumerate, each once
    Shared    \* a task may be handed a transaction that another one began

ASSUME StagingAssumption ==
    /\ Main \in Task
    /\ Lister \subseteq Task
    /\ None \notin Stage
    /\ Shared \in BOOLEAN

-----------------------------------------------------------------------------
(* A record is named by the transaction that saved it. *)
Value == Stage \cup {None}
Mutation == {"none", "save", "delete"}
Mutations == [Key -> Mutation]
Untouched == [k \in Key |-> "none"]

StageState ==
    [state : {"unborn", "open", "closed"},
     owner : Task \cup {None},   \* the task that began it
     outer : Stage \cup {None},  \* what its token gives back
     token : BOOLEAN,            \* the registry still holds its token
     staged : Mutations,
     tx : {"none", "begun", "committing", "committed", "failed", "rolledBack"}]

ListState ==
    [state : {"none", "half", "done", "torn"},
     held : Stage \cup {None},   \* the caller's open stage
     own : SUBSET Key,           \* what that stage had staged at the start
     committed : [Key -> Value], \* as read; in the end, what is returned
     staged : Mutations]

VARIABLES
    backend,   \* which repository enumerates
    live,      \* the tasks that were started
    inherited, \* the stage in each task's context when it started
    open,      \* the stage in each task's context now
    stage,     \* the stages and their transactions
    store,     \* the committed records
    list,      \* an enumeration of each task
    window     \* history: what each enumeration could have met

svars == <<backend, live, inherited, open, stage, store, list, window>>

Unborn == [state |-> "unborn", owner |-> None, outer |-> None, token |-> FALSE,
           staged |-> Untouched, tx |-> "none"]
Unlisted == [state |-> "none", held |-> None, own |-> {},
             committed |-> [k \in Key |-> None], staged |-> Untouched]

Init ==
    /\ backend \in {"file", "sqlite"}
    /\ live = {Main}
    /\ inherited = [t \in Task |-> None]
    /\ open = [t \in Task |-> None]
    /\ stage = [s \in Stage |-> Unborn]
    /\ store = [k \in Key |-> None]
    /\ list = [t \in Task |-> Unlisted]
    /\ window = [t \in Task |-> {}]

-----------------------------------------------------------------------------
(* What a task sees. *)

CurrentHeld(t) == open[t]   \* mutant: a closed stage is still read
Current(t) ==
    IF open[t] # None /\ stage[open[t]].state = "closed" THEN None ELSE open[t]

StagedBy(s) == IF s = None THEN Untouched ELSE stage[s].staged

OverlaySaves(recs, muts, s) ==   \* mutant: a staged delete masks nothing
    [k \in Key |-> IF muts[k] = "save" THEN s ELSE recs[k]]
Overlay(recs, muts, s) ==
    [k \in Key |-> CASE muts[k] = "save" -> s
                     [] muts[k] = "delete" -> None
                     [] OTHER -> recs[k]]

(* get: the open stage first, then the committed record. *)
Seen(t) == Overlay(store, StagedBy(Current(t)), Current(t))

(* A task runs one operation at a time. *)
Ready(t) == t \in live /\ list[t].state # "half"

-----------------------------------------------------------------------------
(* A task copies the context it is started from.  It may stop at any time,  *)
(* also with a stage it never closes.                                       *)
Spawn(t, u) ==
    /\ Ready(t)
    /\ u \notin live
    /\ live' = live \cup {u}
    /\ inherited' = [inherited EXCEPT ![u] = open[t]]
    /\ open' = [open EXCEPT ![u] = open[t]]
    /\ UNCHANGED <<backend, stage, store, list>>

-----------------------------------------------------------------------------
(* Transactions. *)

Begin(t, s) ==
    /\ Ready(t)
    /\ stage[s].state = "unborn"
    /\ stage' = [stage EXCEPT ![s] =
                   [Unborn EXCEPT !.state = "open", !.owner = t, !.token = TRUE,
                                  !.outer = open[t], !.tx = "begun"]]
    /\ open' = [open EXCEPT ![t] = s]
    /\ UNCHANGED <<backend, live, inherited, store, list>>

(* save, delete_many; outside an open stage they raise. *)
Write(t, k, m) ==
    /\ Ready(t)
    /\ Current(t) # None
    /\ m \in {"save", "delete"}
    /\ stage' = [stage EXCEPT ![Current(t)].staged[k] = m]
    /\ UNCHANGED <<backend, live, inherited, open, store, list>>

(* What closing does to the context of t: the token restores the stage that *)
(* was open, but only in the context that made it.                          *)
GivesBackNone(t, s) ==   \* mutant: the enclosing stage is not restored
    [open EXCEPT ![t] = None]
GivesBack(t, s) == [open EXCEPT ![t] = stage[s].outer]

Close(t, s, how) ==
    /\ open[t] = s
    /\ stage[s].token
    /\ stage[s].owner = t
    /\ stage' = [stage EXCEPT ![s] =
                   [@ EXCEPT !.state = "closed", !.token = FALSE, !.tx = how]]
    /\ open' = GivesBack(t, s)

(* A close that raises: out of order, which changes nothing, or in a copy   *)
(* of the context, where the token is popped before the reset refuses it.   *)
CloseRefusedPopsFirst(t, s) ==   \* mutant: popped before it is checked
    /\ open[t] # s \/ ~stage[s].token \/ stage[s].owner # t
    /\ stage' = [stage EXCEPT ![s].token = FALSE]
    /\ open' = open
CloseRefused(t, s) ==
    /\ open[t] # s \/ ~stage[s].token \/ stage[s].owner # t
    /\ stage' = [stage EXCEPT ![s].token = @ /\ open[t] # s]
    /\ open' = open

(* commit or rollback of the transaction object; the first to close wins.   *)
Finish(t, s) ==
    /\ Ready(t)
    /\ stage[s].tx = "begun"
    /\ Shared \/ stage[s].owner = t
    /\ \/ \E how \in {"committing", "rolledBack"} : Close(t, s, how)
       \/ CloseRefused(t, s)
    /\ UNCHANGED <<backend, live, inherited, store, list>>

(* The store takes the batch whole, or fails and takes none of it.          *)
Apply(s) ==
    /\ stage[s].tx = "committing"
    /\ store' = Overlay(store, stage[s].staged, s)
    /\ stage' = [stage EXCEPT ![s].tx = "committed"]
    /\ UNCHANGED <<backend, live, inherited, open, list>>

ApplyFails(s) ==
    /\ stage[s].tx = "committing"
    /\ stage' = [stage EXCEPT ![s].tx = "failed"]
    /\ UNCHANGED <<backend, live, inherited, open, store, list>>

-----------------------------------------------------------------------------
(* executions: the committed records and the staged mutations are taken at  *)
(* two moments; SQLite's repository copies the stage first, the others last. *)

ListBegin(t) ==
    /\ Ready(t)
    /\ t \in Lister /\ list[t].state = "none"
    /\ LET s == Current(t) IN
       list' = [list EXCEPT ![t] =
                  [Unlisted EXCEPT
                     !.state = "half",
                     !.held = s,
                     !.own = {k \in Key : StagedBy(s)[k] # "none"},
                     !.committed = IF backend = "file" THEN store ELSE @,
                     !.staged = IF backend = "sqlite" THEN StagedBy(s) ELSE @]]
    /\ UNCHANGED <<backend, live, inherited, open, stage, store>>

ListEnd(t) ==
    /\ list[t].state = "half"
    /\ LET l == list[t]
           recs == IF backend = "sqlite" THEN store ELSE l.committed
           muts == IF backend = "file" THEN StagedBy(Current(t)) ELSE l.staged
       IN  list' = [list EXCEPT ![t] =
                      IF Current(t) = l.held
                      THEN [Unlisted EXCEPT !.state = "done",
                              !.committed = Overlay(recs, muts, l.held)]
                      ELSE [Unlisted EXCEPT !.state = "torn"]]
    /\ UNCHANGED <<backend, live, inherited, open, stage, store>>

-----------------------------------------------------------------------------
Act ==
    \/ \E t, u \in Task : Spawn(t, u)
    \/ \E t \in Task :
        \/ ListBegin(t) \/ ListEnd(t)
        \/ \E s \in Stage : Begin(t, s) \/ Finish(t, s)
        \/ \E k \in Key, m \in Mutation : Write(t, k, m)
    \/ \E s \in Stage : Apply(s) \/ ApplyFails(s)

(* While t enumerates: what it sees, and for a key it had not staged what   *)
(* is committed.                                                            *)
Met(t) ==
    {<<k, Seen(t)[k]>> : k \in Key}
        \cup {<<k, store[k]>> : k \in Key \ list[t].own}

Next ==
    /\ Act
    /\ window' = [t \in Task |->
                    CASE list'[t].state = "half" ->
                           Met(t)' \cup IF list[t].state = "half" THEN window[t] ELSE {}
                      [] list'[t].state = "torn" -> {}
                      [] OTHER -> window[t]]

Spec == Init /\ [][Next]_svars

-----------------------------------------------------------------------------
(* Types of the state. *)
TypeOK ==
    /\ backend \in {"file", "sqlite"}
    /\ live \subseteq Task
    /\ inherited \in [Task -> Value]
    /\ open \in [Task -> Value]
    /\ stage \in [Stage -> StageState]
    /\ store \in [Key -> Value]
    /\ list \in [Task -> ListState]
    /\ window \in [Task -> SUBSET (Key \X Value)]

(* A task reads a record only once it is committed, or from a stage still  *)
(* open that it, or the task it comes from, began: never from a batch that *)
(* was rolled back, failed or is still being written (staging.py, open).   *)
NoDiscardedRead ==
    \A t \in Task, k \in Key :
        LET s == Seen(t)[k] IN
        s # None =>
            \/ stage[s].tx = "committed"
            \/ /\ stage[s].state = "open"
               /\ open[t] = s
               /\ stage[s].owner = t \/ inherited[t] = s

(* A stage that is open can be closed by the task that began it: a close   *)
(* that was refused has left it exactly as it was (staging.py, leave).     *)
OpenStageCanClose ==
    \A s \in Stage : stage[s].state = "open" => stage[s].token

(* The stages a task has open are nested in one another, the innermost is  *)
(* the current one, and with the last of them closed the task is back at   *)
(* what its context held when it started.                                  *)
EnclosingGivenBack ==
    \A t \in Task :
        LET mine == {s \in Stage : stage[s].state = "open" /\ stage[s].owner = t} IN
        /\ open[t] \in IF mine = {} THEN {inherited[t]} ELSE mine
        /\ \A s \in mine \ {open[t]} : \E r \in mine : stage[r].outer = s

(* What a commit will apply is fixed when its stage closes: a branch that  *)
(* still holds the stage cannot add to the batch being written.            *)
BatchIsFinal ==
    [][\A s \in Stage : stage[s].state = "closed" =>
         stage'[s].staged = stage[s].staged]_svars

(* Every record an enumeration returns was visible to the caller at some   *)
(* moment of it, or, for a key the caller had not staged, committed then;  *)
(* what its transaction had staged is never missing (_interfaces.py,       *)
(* executions).  Not claimed when the transaction was closed meanwhile.    *)
ListedWasVisible ==
    \A t \in Task : list[t].state = "done" =>
        \A k \in Key : <<k, list[t].committed[k]>> \in window[t]

=============================================================================
