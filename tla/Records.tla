------------------------------ MODULE Records -------------------------------
(***************************************************************************)
(* Executions as the rows of the SQLite store, and their enumeration:      *)
(* what a commit makes of the staged executions, the range of paths that   *)
(* stands for the descendants of a call, read batch by batch, and its      *)
(* merge with what the caller's transaction has staged.  One session.  A   *)
(* sorted sequence that is read from its front is a set here, and the      *)
(* least of it is read.                                                    *)
(***************************************************************************)
EXTENDS Paths, FiniteSets

CONSTANTS
    BytesOf,     \* the bytes of each argument a call takes
    Restorable,  \* the bytes from_recorded_bytes takes
    Hex,         \* their SHA-256
    Sites,       \* domain, name and ordinal of calls
    Contents,    \* status and result of executions
    ReadBatch,   \* rows fetched at a time
    MaxCalls,    \* bound: calls that are made
    Common,      \* bound: the arguments of calls that are not alone
    MaxStaged,   \* bound: mutations of a batch
    None

VARIABLES
    calls,   \* the identities of the calls made, with the argument of each
    rows,    \* the committed rows, by path
    saved,   \* history: the executions in them, by identity
    stage,   \* the caller's stage: mutations by identity
    pc,      \* of the enumeration
    asked,   \* its arguments, and the stage it has copied
    found,   \* history: what was saved when it asked the database
    staged,  \* the paths of the copied stage that it has to merge
    cursor,  \* the rows it has to fetch, by path
    batch,   \* the rows fetched
    out      \* the executions it has listed

store == <<calls, rows, saved, stage>>
rvars == <<store, pc, asked, found, staged, cursor, batch, out>>

Deleted == [status |-> "deleted", result |-> None]
Nothing == [x \in {} |-> x]

Digest == [v \in DOMAIN BytesOf |-> Hex[BytesOf[v]]]

Frame(site, v) ==
    [domain |-> site.domain, name |-> site.name, sequence |-> site.sequence, digest |-> Digest[v]]

(* SHA-256 keeps apart what it is given, a record's bytes are taken back,   *)
(* and an execution has a result when it is completed and not before.       *)
RecordsAssumption ==
    /\ \A v \in DOMAIN BytesOf : BytesOf[v] \in DOMAIN Hex \cap Restorable
    /\ \A b, d \in DOMAIN Hex : Hex[b] = Hex[d] => b = d
    /\ \A site \in Sites, v \in DOMAIN BytesOf : Frame(site, v) \in Frames
    /\ \A site \in Sites : site.domain \in Seq(Digits \cup Letters) /\ site.domain # <<>>
    /\ \A site \in Sites : site.name # <<>>
    /\ \A v \in DOMAIN BytesOf : Digest[v] # <<>>
    /\ \A c \in Contents :
          /\ DOMAIN c = {"status", "result"}
          /\ c.status # "deleted"
          /\ c.status = "completed" <=> c.result # None
          /\ c.result # None => DOMAIN c.result = {"says", "spelling"}
                                  /\ [c.result EXCEPT !.spelling = "compact"] # None
    /\ ReadBatch \in Nat \ {0}

ASSUME RecordsAssumption

Init ==
    /\ calls = {}
    /\ rows = Nothing /\ saved = Nothing /\ stage = Nothing
    /\ pc = "idle"
    /\ asked = Nothing /\ found = Nothing
    /\ staged = {} /\ cursor = Nothing /\ batch = Nothing
    /\ out = <<>>

Known == {c.id : c \in calls}
Over(f, g) == [x \in DOMAIN f \cup DOMAIN g |-> IF x \in DOMAIN g THEN g[x] ELSE f[x]]

-----------------------------------------------------------------------------
(* A call gets an identity; of an argument that is refused there are no     *)
(* bytes.                                                                   *)

Call(parent, site, v) ==
    /\ pc = "idle"
    /\ calls # {} => /\ Cardinality(calls) < MaxCalls
                     /\ {v} \cup {c.value : c \in calls} \subseteq Common
    /\ calls' = calls \cup {[id |-> Append(parent, Frame(site, v)), value |-> v]}
    /\ UNCHANGED <<rows, saved, stage, pc, asked, found, staged, cursor, batch, out>>

Stage(id, mutation) ==
    /\ pc = "idle"
    /\ Cardinality(DOMAIN stage \cup {id}) <= MaxStaged
    /\ stage' = Over(stage, [i \in {id} |-> mutation])
    /\ UNCHANGED <<calls, rows, saved, pc, asked, found, staged, cursor, batch, out>>

(* A result that is no JSON text is noticed when it is written.             *)
Packs(content) == content.result # None => content.result.spelling # "none"

Save(id, content) ==
    /\ Packs(content) \/ Cardinality(calls) < MaxCalls   \* a bound, too
    /\ Stage(id, content)

Delete(id) == Stage(id, Deleted)

-----------------------------------------------------------------------------
(* SQLiteExecutionRecord and the aggregate codec.  A result is JSON text,   *)
(* of which a row keeps what it says; no result is NULL, not null.          *)

Preimage == [d \in {Hex[b] : b \in DOMAIN Hex} |-> CHOOSE b \in DOMAIN Hex : Hex[b] = d]
ArgumentsOf(id) == Preimage[id[Len(id)].digest]

RowOf(id, content) ==
    [arguments |-> ArgumentsOf(id), status |-> content.status,
     result |-> IF content.result = None THEN None ELSE content.result.says]

Unpacked(row) ==
    IF row.status = "completed" THEN [says |-> row.result, spelling |-> "compact"] ELSE None

IdAt(p, ids) == CHOOSE id \in ids : PathOf(id) = p

(* The batch is written whole, or not at all when a result is no JSON text. *)
Written(deleted) ==
    LET paths == {PathOf(id) : id \in DOMAIN stage \ deleted}
        gone == {PathOf(id) : id \in deleted}
        at(p) == IdAt(p, DOMAIN stage) IN
    [p \in (DOMAIN rows \ gone) \cup paths |->
        IF p \in paths THEN RowOf(at(p), stage[at(p)]) ELSE rows[p]]

Commit ==
    LET deleted == {id \in DOMAIN stage : stage[id] = Deleted}
        total == Over(saved, stage) IN
    /\ pc \in {"idle", "listing"}
    /\ DOMAIN stage # {}
    /\ stage' = Nothing
    /\ \/ /\ \A id \in DOMAIN stage : Packs(stage[id])
          /\ rows' = Written(deleted)
          /\ saved' = [id \in DOMAIN total \ deleted |-> total[id]]
       \/ /\ \E id \in DOMAIN stage : ~Packs(stage[id])
          /\ UNCHANGED <<rows, saved>>
    /\ UNCHANGED <<calls, pc, asked, found, staged, cursor, batch, out>>

-----------------------------------------------------------------------------
(* executions(status, under) *)

Prefix(id) == IF id = <<>> THEN <<>> ELSE Below(PathOf(id))
StagedFor(prefix) == {p \in {PathOf(id) : id \in DOMAIN stage} : IsPrefix(prefix, p)}

(* What is staged is taken first, before the database is asked.             *)
Enumerate(under, status) ==
    /\ pc = "idle"
    /\ pc' = "listing"
    /\ asked' = [under |-> under, status |-> status, stage |-> stage]
    /\ staged' = StagedFor(Prefix(under))
    /\ UNCHANGED <<store, found, cursor, batch, out>>

UpperBound(prefix) == [prefix EXCEPT ![Len(prefix)] = @ + 1]

InRange(p, prefix) ==
    prefix = <<>> \/ (~TextLess(p, prefix) /\ TextLess(p, UpperBound(prefix)))

Select ==
    /\ pc = "listing"
    /\ pc' = "merging"
    /\ found' = saved
    /\ cursor' = [p \in {q \in DOMAIN rows : InRange(q, Prefix(asked.under))} |-> rows[p]]
    /\ UNCHANGED <<store, asked, staged, batch, out>>

(* fetchmany: the next rows in the order of their paths.                    *)
Fetch(paths) ==
    /\ pc = "merging"
    /\ DOMAIN batch = {} /\ DOMAIN cursor # {}
    /\ \A p \in paths, q \in DOMAIN cursor \ paths : TextLess(p, q)
    /\ Cardinality(paths) = ReadBatch
       \/ (Cardinality(paths) < ReadBatch /\ paths = DOMAIN cursor)
    /\ batch' = [p \in paths |-> cursor[p]]
    /\ cursor' = [p \in DOMAIN cursor \ paths |-> cursor[p]]
    /\ UNCHANGED <<store, pc, asked, found, staged, out>>

Yield(e) == out' = IF asked.status \in {None, e.status} THEN Append(out, e) ELSE out

ExecutionAt(id, content) ==
    [id |-> id, arguments |-> ArgumentsOf(id), status |-> content.status,
     result |-> content.result]

(* The staged execution at a path is yielded, if it is not deleted.         *)
TakeStaged(p) ==
    LET id == IdAt(p, DOMAIN asked.stage)
        mutation == asked.stage[id] IN
    /\ staged' = staged \ {p}
    /\ \/ mutation = Deleted /\ UNCHANGED out
       \/ mutation # Deleted /\ Yield(ExecutionAt(id, mutation))

(* to_execution; the digest of an identity is that of its arguments.        *)
RestoredDigest == [b \in DOMAIN Hex \cap Restorable |-> Hex[b]]
Readable(p, row) ==
    /\ IsPath(p)
    /\ row.arguments \in DOMAIN RestoredDigest
    /\ RestoredDigest[row.arguments] = IdOf(p)[Len(IdOf(p))].digest
ExecutionOf(p, row) ==
    [id |-> IdOf(p), arguments |-> row.arguments, status |-> row.status,
     result |-> Unpacked(row)]

TakeRow(p) == batch' = [q \in DOMAIN batch \ {p} |-> batch[q]]

MergeBefore(s, p) == TextLess(s, p) \/ s = p   \* mutant: takes the row's own for one before it
Before(s, p) == TextLess(s, p)

Passing == staged # {} /\ Before(Least(staged), Least(DOMAIN batch))
Overlaid == staged # {} /\ Least(staged) = Least(DOMAIN batch)

(* The loops over the rows and over the staged paths before a row.          *)
Merge ==
    LET p == Least(DOMAIN batch) IN
    /\ pc = "merging"
    /\ DOMAIN batch # {}
    /\ \/ /\ Passing
          /\ TakeStaged(Least(staged))
          /\ UNCHANGED <<pc, batch>>
       \/ /\ ~Passing /\ Overlaid
          /\ TakeStaged(p) /\ TakeRow(p)
          /\ UNCHANGED pc
       \/ /\ ~Passing /\ ~Overlaid
          /\ IF Readable(p, batch[p])
             THEN Yield(ExecutionOf(p, batch[p])) /\ TakeRow(p) /\ UNCHANGED <<pc, staged>>
             ELSE pc' = "failed" /\ UNCHANGED <<staged, batch, out>>
    /\ UNCHANGED <<store, asked, found, cursor>>

Finish ==
    /\ pc = "merging"
    /\ DOMAIN batch = {} /\ DOMAIN cursor = {}
    /\ \/ /\ staged # {}
          /\ TakeStaged(Least(staged))
          /\ UNCHANGED pc
       \/ /\ staged = {}
          /\ pc' = "listed"
          /\ UNCHANGED <<staged, out>>
    /\ UNCHANGED <<store, asked, found, cursor, batch>>

Close ==
    /\ pc = "listed"
    /\ pc' = "idle"
    /\ asked' = Nothing /\ found' = Nothing /\ out' = <<>>
    /\ UNCHANGED <<store, staged, cursor, batch>>

-----------------------------------------------------------------------------
Next ==
    \/ \E parent \in Known \cup {<<>>}, site \in Sites, v \in DOMAIN Digest : Call(parent, site, v)
    \/ \E id \in Known : Delete(id) \/ \E content \in Contents : Save(id, content)
    \/ \E under \in Known \cup {<<>>}, status \in {None, "completed"} : Enumerate(under, status)
    \/ \E paths \in SUBSET DOMAIN cursor : Fetch(paths)
    \/ Commit \/ Select \/ Merge \/ Finish \/ Close

Spec == Init /\ [][Next]_rvars

-----------------------------------------------------------------------------
(* An enumeration lists what is committed when it asks, overlaid by what    *)
(* was staged when it began, beneath the call it is for and of the status   *)
(* it asks for: each execution once, as it was saved but for the spelling   *)
(* of its result, and after its ancestors.  No row that was written is      *)
(* refused (executions, iter_committed).                                    *)
Said(e) == [e EXCEPT !.result = IF @ = None THEN None ELSE @.says]

Overlay ==
    LET all == Over(found, asked.stage) IN
    {ExecutionAt(id, all[id]) :
        id \in {i \in DOMAIN all : /\ all[i] # Deleted
                                   /\ asked.status \in {None, all[i].status}
                                   /\ IsStrictPrefix(asked.under, i)}}

ListedIsOverlay ==
    /\ pc # "failed"
    /\ pc = "listed" =>
        /\ {Said(out[i]) : i \in DOMAIN out} = {Said(e) : e \in Overlay}
        /\ Len(out) = Cardinality(Overlay)
        /\ \A i, j \in DOMAIN out : IsStrictPrefix(out[i].id, out[j].id) => i < j

(* A path is the only text that reads as its identity: none that differs in *)
(* one character is taken for it, or for another it does not write          *)
(* (_decode, _decode_sequence).                                             *)
Alphabet == {Hash, Percent, Plus, Slash, Colon, 48, 49, 97}
                \cup {Upper(Slash), Lower(Slash), Upper(97)}

Aliases == [f \in {Frame(site, v) : site \in Sites, v \in DOMAIN Digest} |->
               {t \in Near(FormatFrame(f), Alphabet) : IsPath(t) /\ PathOf(IdOf(t)) # t}]

OneSpelling == \A c \in calls : \A i \in DOMAIN c.id : Aliases[c.id[i]] = {}
=============================================================================
