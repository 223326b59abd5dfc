------------------------- MODULE SqliteStoreProofs -------------------------
(***************************************************************************)
(* SqliteStore, for every number of calls, clients, processes and formats, *)
(* and whether or not event loops are torn down under their workers.       *)
(***************************************************************************)
EXTENDS SqliteStore, TLAPS

(* What a call's own progress decides. *)
Local(o) ==
    /\ op[o].pc \in {"idle", "queued", "done"} => op[o].work = "none"
    /\ op[o].pc \in {"idle", "done"} => op[o].client = None
    /\ op[o].pc \in {"queued", "fetching", "working"} => op[o].client \in Client
    /\ op[o].pc \in {"queued", "working"} => o \in Writes
    /\ op[o].pc = "fetching" => o \in Reads /\ op[o].work \in {"starting", "ended"}
    /\ op[o].pc = "working" => op[o].work # "none"
    /\ op[o].pc = "lost" /\ op[o].work # "none" => Teardown /\ o \in Writes
    /\ op[o].work # "running" => op[o].at = 0
    /\ op[o].work # "ended" /\ op[o].pc # "done" => op[o].claim = None /\ op[o].seen = {}

(* A call with a worker of its own has its client's lock.                  *)
Locked(o) == op[o].pc = "working" => mutex[op[o].client] = o

(* What the n statements of a call make of what is committed.              *)
Drafted(o, n) ==
    IF o \in Saves THEN [db EXCEPT !.rows = @ \cup ({o} \X (1..n))]
    ELSE IF o \in Claims
         THEN IF n = 0 \/ db.winner # None THEN db ELSE [db EXCEPT !.winner = o]
    ELSE IF n = 2 THEN [db EXCEPT !.rows = {}]
    ELSE IF n = 4 THEN [db EXCEPT !.moved = @ \cup {o}]
    ELSE db

(* Who is in a transaction keeps everybody else from committing, so that   *)
(* what it works on is what is committed and its own statements.           *)
Alone(o) ==
    /\ writer = o <=> op[o].work = "running"
    /\ op[o].work = "running" =>
         /\ op[o].at <= Statements(o)
         /\ op[o].draft = Drafted(o, op[o].at)
         /\ o \in Migrations /\ op[o].at # 0 => op[o].source = db

(* A client that stamps is in a transaction too.                           *)
Opened(c) ==
    /\ writer = c <=> phase[c] = "stamping"
    /\ phase[c] \notin {"new", "gone"} => format[c] \in Format
    /\ phase[c] = "stamping" => db.stamp \in {None, format[c]}
    /\ phase[c] = "open" => db.stamp = format[c]

Inv ==
    /\ TypeOK
    /\ \A o \in Op : Local(o) /\ Locked(o) /\ Alone(o)
    /\ \A c \in Client : Opened(c)

LEMMA InvInit == Init => Inv
<1> SUFFICES ASSUME Init PROVE Inv
  OBVIOUS
<1>1. Idle \in CallState /\ Empty \in Database
  BY DEF Idle, Empty, CallState, Database
<1>2. TypeOK
  BY <1>1 DEF Init, TypeOK, Opening
<1>3. ASSUME NEW o \in Op PROVE Local(o) /\ Locked(o) /\ Alone(o)
  BY SqliteAssumption DEF Init, Idle, Local, Locked, Alone
<1>4. ASSUME NEW c \in Client PROVE Opened(c)
  BY SqliteAssumption DEF Init, Opened
<1> QED
  BY <1>2, <1>3, <1>4 DEF Inv

-----------------------------------------------------------------------------
(* The step of a call, as the others see it: their locks and transactions  *)
(* are theirs, and what is committed changes for none that is in one.      *)
LEMMA InvCall ==
    ASSUME Inv, NEW o \in Op, NEW x \in CallState, op' = [op EXCEPT ![o] = x],
           UNCHANGED <<phase, format>>,
           mutex' \in [Client -> Writes \cup {None}],
           \A c \in Client : mutex'[c] = mutex[c] \/ mutex[c] \in {None, o},
           writer' = writer \/ (o \in Writes /\ writer \in {None, o} /\ writer' \in {None, o}),
           db' = db \/ (writer = o /\ db' \in Database /\ db'.stamp = db.stamp),
           Local(o)', Locked(o)', Alone(o)'
    PROVE  Inv'
<1>1. TypeOK
  BY DEF Inv
<1>2. /\ op' \in [Op -> CallState] /\ op'[o] = x
      /\ \A u \in Op : u # o => op'[u] = op[u]
  BY <1>1 DEF TypeOK
<1>3. TypeOK'
  BY <1>1, <1>2 DEF TypeOK
<1>4. ASSUME NEW u \in Op, u # o
      PROVE  Local(u)' /\ Locked(u)' /\ Alone(u)'
  <2>1. op'[u] = op[u] /\ Local(u) /\ Locked(u) /\ Alone(u) /\ u # None
    BY <1>2, <1>4, SqliteAssumption DEF Inv
  <2>2. Local(u)'
    BY <2>1 DEF Local
  <2>3. Locked(u)'
    <3>1. op[u].pc = "working" => op[u].client \in Client
      BY <2>1 DEF Local
    <3> QED
      BY <1>4, <2>1, <3>1 DEF Locked
  <2>4. writer' = u <=> writer = u
    BY <1>4, <2>1
  <2>5. op[u].work = "running" => db' = db
    BY <1>4, <2>1 DEF Alone
  <2>6. op[u].work = "running" => Drafted(u, op[u].at)' = Drafted(u, op[u].at)
    BY <2>1, <2>5 DEF Drafted
  <2>7. Alone(u)'
    BY <2>1, <2>4, <2>5, <2>6 DEF Alone
  <2> QED
    BY <2>2, <2>3, <2>7
<1>5. ASSUME NEW c \in Client PROVE Opened(c)'
  <2>1. Opened(c) /\ c # o /\ c # None
    BY SqliteAssumption DEF Inv
  <2>2. writer' = c <=> writer = c
    BY <2>1
  <2>3. db'.stamp = db.stamp
    OBVIOUS
  <2> QED
    BY <2>1, <2>2, <2>3 DEF Opened
<1> QED
  BY <1>3, <1>4, <1>5 DEF Inv

(* The step of a call that is not in a transaction, nor after it.          *)
LEMMA InvQuiet ==
    ASSUME Inv, NEW o \in Op, NEW x \in CallState, op' = [op EXCEPT ![o] = x],
           UNCHANGED <<db, writer, phase, format>>,
           mutex' \in [Client -> Writes \cup {None}],
           \A c \in Client : mutex'[c] = mutex[c] \/ mutex[c] \in {None, o},
           x.work # "running", op[o].work # "running",
           Local(o)', Locked(o)'
    PROVE  Inv'
<1>1. op'[o] = x /\ Alone(o)
  BY DEF Inv, TypeOK
<1>2. Alone(o)'
  BY <1>1 DEF Alone
<1> QED
  BY <1>2, InvCall

-----------------------------------------------------------------------------
(* What a call is put into, field by field. *)
LEMMA IdleType == Idle \in CallState /\ Lost \in CallState
BY DEF Idle, Lost, Empty, CallState, Database, Ended

LEMMA LostFields ==
    /\ Lost.pc = "lost" /\ Lost.work = "none" /\ Lost.client = None
    /\ Lost.claim = None /\ Lost.seen = {} /\ Lost.at = 0
BY DEF Idle, Lost

LEMMA DoneFields ==
    ASSUME TypeOK, NEW o \in Op
    PROVE  /\ Done(o) \in CallState /\ Done(o).pc = "done" /\ Done(o).work = "none"
           /\ Done(o).client = None /\ Done(o).claim = op[o].claim /\ Done(o).seen = op[o].seen
           /\ Done(o).at = 0
BY IdleType DEF TypeOK, Done, Idle, CallState, Ended

LEMMA OrphanFields ==
    ASSUME TypeOK, NEW o \in Op
    PROVE  /\ Orphan(o) \in CallState /\ Orphan(o).pc = "lost"
           /\ Orphan(o).work = op[o].work /\ Orphan(o).client = op[o].client
           /\ Orphan(o).claim = op[o].claim /\ Orphan(o).seen = op[o].seen
           /\ Orphan(o).at = op[o].at /\ Orphan(o).draft = op[o].draft
           /\ Orphan(o).source = op[o].source
<1>1. op[o] \in CallState
  BY DEF TypeOK
<1>2. Orphan(o) \in CallState
  BY <1>1 DEF Orphan, CallState, Ended
<1>3. /\ Orphan(o).pc = "lost" /\ Orphan(o).work = op[o].work
      /\ Orphan(o).client = op[o].client /\ Orphan(o).claim = op[o].claim
      /\ Orphan(o).seen = op[o].seen
  BY <1>1 DEF Orphan, CallState
<1>4. /\ Orphan(o).at = op[o].at /\ Orphan(o).draft = op[o].draft
      /\ Orphan(o).source = op[o].source
  BY <1>1 DEF Orphan, CallState
<1> QED
  BY <1>2, <1>3, <1>4

LEMMA SettleFields ==
    ASSUME TypeOK, NEW o \in Op, NEW how \in {"ended", "failed"},
           NEW answer \in Claims \cup {None}, op[o].client \in Client \/ op[o].pc # "working"
    PROVE  \E x \in CallState :
              /\ Settle(o, how, answer) = [op EXCEPT ![o] = x]
              /\ x.pc = op[o].pc /\ x.work = how /\ x.claim = answer /\ x.seen = {}
              /\ x.client = IF op[o].pc = "working" THEN op[o].client ELSE None
              /\ x.at = 0
<1> DEFINE c == IF op[o].pc = "working" THEN op[o].client ELSE None
           x == [Idle EXCEPT !.pc = op[o].pc, !.cancelled = op[o].cancelled, !.client = c,
                             !.work = how, !.claim = answer]
<1>1. op[o] \in CallState
  BY DEF TypeOK
<1>4. Settle(o, how, answer) = [op EXCEPT ![o] = x]
  BY DEF Settle
<1>5. c \in Client \cup {None}
  BY <1>1 DEF CallState
<1>6. op[o].pc \in {"idle", "queued", "working", "fetching"} \cup Ended /\ op[o].cancelled \in BOOLEAN
  BY <1>1 DEF CallState
<1>7. c = IF op[o].pc = "working" THEN op[o].client ELSE None
  OBVIOUS
<1> HIDE DEF c
<1>2. x \in CallState
  BY <1>5, <1>6, IdleType DEF CallState
<1>3. /\ x.pc = op[o].pc /\ x.work = how /\ x.claim = answer /\ x.seen = {}
      /\ x.client = c /\ x.at = 0
  BY DEF Idle
<1> HIDE DEF x
<1> QED
  BY <1>2, <1>3, <1>4, <1>7

-----------------------------------------------------------------------------
(* The steps of a call. *)
LEMMA InvBegin ==
    ASSUME Inv, NEW o \in Op, NEW c \in Client, Begin(o, c)
    PROVE  Inv'
<1> DEFINE x == IF o \in Reads THEN [Idle EXCEPT !.pc = "fetching", !.work = "starting",
                                                 !.client = c]
                ELSE [Idle EXCEPT !.pc = "queued", !.client = c]
<1>1. x \in CallState
  BY IdleType DEF Idle, CallState
<1>2. /\ x.client = c /\ x.claim = None /\ x.seen = {} /\ x.at = 0
      /\ \/ o \in Reads /\ x.pc = "fetching" /\ x.work = "starting"
         \/ o \in Writes /\ x.pc = "queued" /\ x.work = "none"
  BY DEF Idle, Op
<1>3. /\ op' = [op EXCEPT ![o] = x] /\ op[o].pc = "idle"
      /\ UNCHANGED <<db, writer, mutex, phase, format>>
  BY DEF Begin
<1> HIDE DEF x
<1>4. op'[o] = x /\ Local(o) /\ TypeOK
  BY <1>3 DEF Inv, TypeOK
<1>5. Local(o)' /\ Locked(o)'
  BY <1>2, <1>4 DEF Local, Locked
<1>6. op[o].work # "running" /\ x.work # "running"
  BY <1>2, <1>3, <1>4 DEF Local
<1> QED
  BY <1>1, <1>3, <1>4, <1>5, <1>6, InvQuiet DEF TypeOK

LEMMA InvAcquire ==
    ASSUME Inv, NEW o \in Op, Acquire(o)
    PROVE  Inv'
<1> DEFINE x == [op[o] EXCEPT !.pc = "working", !.work = "starting"]
<1>1. op[o] \in CallState /\ op[o].pc = "queued" /\ Local(o) /\ TypeOK
  BY DEF Inv, TypeOK, Acquire
<1>2. /\ x \in CallState /\ x.pc = "working" /\ x.work = "starting" /\ x.client = op[o].client
      /\ x.claim = op[o].claim /\ x.seen = op[o].seen /\ x.at = op[o].at
  BY <1>1 DEF CallState
<1>3. /\ op' = [op EXCEPT ![o] = x] /\ mutex[op[o].client] = None
      /\ mutex' = [mutex EXCEPT ![op[o].client] = o]
      /\ UNCHANGED <<db, writer, phase, format>>
  BY DEF Acquire
<1> HIDE DEF x
<1>4. /\ op[o].client \in Client /\ o \in Writes /\ op[o].work = "none"
      /\ op[o].claim = None /\ op[o].seen = {} /\ op[o].at = 0
  BY <1>1 DEF Local
<1>5. /\ op'[o] = x /\ mutex'[op[o].client] = o /\ mutex' \in [Client -> Writes \cup {None}]
      /\ \A c \in Client : mutex'[c] = mutex[c] \/ mutex[c] \in {None, o}
  BY <1>1, <1>3, <1>4 DEF TypeOK
<1>6. Local(o)' /\ Locked(o)'
  BY <1>2, <1>4, <1>5 DEF Local, Locked
<1> QED
  BY <1>2, <1>3, <1>4, <1>5, <1>6, InvQuiet

LEMMA DraftedFirst ==
    ASSUME TypeOK, NEW o \in Op PROVE Drafted(o, 0) = db
<1>1. db \in Database
  BY DEF TypeOK
<1>2. {o} \X (1..0) = {}
  OBVIOUS
<1>3. db.rows \cup {} = db.rows
  OBVIOUS
<1>4. [db EXCEPT !.rows = db.rows] = db
  BY <1>1 DEF Database
<1> QED
  BY <1>2, <1>3, <1>4 DEF Drafted

LEMMA InvBeginImmediate ==
    ASSUME Inv, NEW o \in Op, BeginImmediate(o)
    PROVE  Inv'
<1> DEFINE x == [op[o] EXCEPT !.work = "running", !.draft = db]
<1>1. /\ op[o] \in CallState /\ Local(o) /\ Locked(o) /\ Alone(o) /\ TypeOK
      /\ o \in Writes /\ op[o].work = "starting" /\ writer = None
      /\ UNCHANGED <<db, mutex, phase, format>> /\ writer' = o
      /\ op' = [op EXCEPT ![o] = x]
  BY DEF Inv, TypeOK, BeginImmediate
<1>2. /\ x \in CallState /\ x.pc = op[o].pc /\ x.work = "running"
      /\ x.client = op[o].client /\ x.claim = op[o].claim /\ x.seen = op[o].seen
      /\ x.draft = db /\ x.at = op[o].at /\ x.source = op[o].source
  BY <1>1 DEF CallState, TypeOK
<1> HIDE DEF x
<1>3. op'[o] = x /\ x.at = 0
  BY <1>1, <1>2 DEF TypeOK, Local
<1>4. Local(o)' /\ Locked(o)'
  <2>1. op[o].pc \in {"working", "lost"}
    BY <1>1, SqliteAssumption DEF Local, CallState, Ended
  <2> QED
    BY <1>1, <1>2, <1>3, <2>1 DEF Local, Locked
<1>5. Drafted(o, 0)' = db'
  BY <1>1, DraftedFirst DEF Drafted
<1>6. 0 <= Statements(o)
  BY SqliteAssumption DEF Statements
<1>7. Alone(o)'
  BY <1>1, <1>2, <1>3, <1>5, <1>6 DEF Alone, Statements
<1> QED
  BY <1>1, <1>2, <1>4, <1>7, InvCall DEF TypeOK

LEMMA AtWork ==
    ASSUME Inv, NEW o \in Writes, op[o].work \in {"starting", "running"}
    PROVE  op[o].pc \in {"working", "lost"}
<1>1. o \in Op /\ o \notin Reads
  BY SqliteAssumption DEF Op
<1>2. op[o] \in CallState /\ Local(o)
  BY <1>1 DEF Inv, TypeOK
<1> QED
  BY <1>1, <1>2 DEF Local, CallState, Ended

(* What the statements make of the database is one, with the same stamp.   *)
LEMMA DraftedType ==
    ASSUME TypeOK, NEW o \in Writes, NEW n \in Nat, n <= Statements(o)
    PROVE  Drafted(o, n) \in Database /\ Drafted(o, n).stamp = db.stamp
<1>1. db \in Database /\ Batch \in Nat
  BY SqliteAssumption DEF TypeOK
<1>2. CASE o \in Saves
  <2> DEFINE rows == db.rows \cup ({o} \X (1..n))
  <2>1. n <= Batch
    BY <1>2 DEF Statements
  <2>2. rows \in SUBSET (Saves \X (1..Batch))
    BY <1>1, <1>2, <2>1 DEF Database
  <2>3. Drafted(o, n) = [db EXCEPT !.rows = rows]
    BY <1>2 DEF Drafted
  <2> HIDE DEF rows
  <2> QED
    BY <1>1, <2>2, <2>3 DEF Database
<1>3. CASE o \notin Saves
  <2>1. o \in Claims \/ o \in Migrations
    BY <1>3 DEF Writes, Commits
  <2> QED
    BY <1>1, <1>3, <2>1, SqliteAssumption DEF Drafted, Database
<1> QED
  BY <1>2, <1>3

LEMMA DraftedNext ==
    ASSUME Inv, NEW o \in Writes, op[o].work = "running",
           op[o].at + 1 <= Statements(o)
    PROVE  After(o, op[o].draft, op[o].at + 1) = Drafted(o, op[o].at + 1)
<1> DEFINE n == op[o].at + 1
<1>1. /\ o \in Op /\ TypeOK /\ Alone(o) /\ db \in Database /\ n \in Nat \ {0}
      /\ op[o].at = n - 1
  BY DEF Op, Inv, TypeOK, CallState
<1>2. op[o].draft = Drafted(o, n - 1) /\ (o \in Migrations /\ n # 1 => op[o].source = db)
  BY <1>1 DEF Alone
<1>3. \/ o \in Saves /\ o \notin Claims /\ o \notin Migrations
      \/ o \in Claims /\ o \notin Saves /\ o \notin Migrations
      \/ o \in Migrations /\ o \notin Saves /\ o \notin Claims
  BY SqliteAssumption DEF Writes, Commits
<1> HIDE DEF n
<1>4. ASSUME o \in Saves PROVE After(o, op[o].draft, n) = Drafted(o, n)
  <2>1. ({o} \X (1..(n - 1))) \cup {<<o, n>>} = {o} \X (1..n)
    <3>1. (1..(n - 1)) \cup {n} = 1..n
      BY <1>1
    <3> QED
      BY <3>1
  <2>2. (db.rows \cup ({o} \X (1..(n - 1)))) \cup {<<o, n>>} = db.rows \cup ({o} \X (1..n))
    BY <2>1
  <2>3. op[o].draft = [db EXCEPT !.rows = db.rows \cup ({o} \X (1..(n - 1)))]
    BY <1>2, <1>4 DEF Drafted
  <2>4. /\ op[o].draft.rows = db.rows \cup ({o} \X (1..(n - 1)))
        /\ \A rows : [op[o].draft EXCEPT !.rows = rows] = [db EXCEPT !.rows = rows]
    BY <1>1, <2>3 DEF Database
  <2>5. After(o, op[o].draft, n) = [op[o].draft EXCEPT !.rows = @ \cup {<<o, n>>}]
    BY <1>3, <1>4 DEF After
  <2>6. Drafted(o, n) = [db EXCEPT !.rows = db.rows \cup ({o} \X (1..n))]
    BY <1>4 DEF Drafted
  <2> QED
    BY <2>2, <2>4, <2>5, <2>6
<1>5. ASSUME o \in Claims PROVE After(o, op[o].draft, n) = Drafted(o, n)
  <2>1. n \in {1, 2}
    BY <1>1, <1>3, <1>5 DEF Statements, n
  <2>2. op[o].draft = IF n - 1 = 0 \/ db.winner # None THEN db ELSE [db EXCEPT !.winner = o]
    BY <1>2, <1>3, <1>5 DEF Drafted
  <2>3. After(o, op[o].draft, n)
          = IF n = 1 /\ op[o].draft.winner = None THEN [op[o].draft EXCEPT !.winner = o]
            ELSE op[o].draft
    BY <1>3, <1>5 DEF After
  <2>4. Drafted(o, n) = IF n = 0 \/ db.winner # None THEN db ELSE [db EXCEPT !.winner = o]
    BY <1>3, <1>5 DEF Drafted
  <2> QED
    BY <2>1, <2>2, <2>3, <2>4
<1>6. ASSUME o \in Migrations PROVE After(o, op[o].draft, n) = Drafted(o, n)
  <2>1. n \in {1, 2, 3, 4}
    BY <1>1, <1>3, <1>6 DEF Statements, n
  <2>2. ASSUME n = 1 PROVE After(o, op[o].draft, n) = Drafted(o, n)
    BY <1>2, <1>3, <1>6, <2>2 DEF Drafted, After
  <2>3. ASSUME n = 2 PROVE After(o, op[o].draft, n) = Drafted(o, n)
    BY <1>2, <1>3, <1>6, <2>3 DEF Drafted, After
  <2>4. ASSUME n = 3 PROVE After(o, op[o].draft, n) = Drafted(o, n)
    <3>1. op[o].draft = [db EXCEPT !.rows = {}] /\ op[o].source = db
      BY <1>2, <1>3, <1>6, <2>4 DEF Drafted
    <3>2. After(o, op[o].draft, n) = [op[o].draft EXCEPT !.rows = op[o].source.rows]
      BY <1>3, <1>6, <2>4 DEF After
    <3>3. Drafted(o, n) = db
      BY <1>3, <1>6, <2>4 DEF Drafted
    <3>4. [[db EXCEPT !.rows = {}] EXCEPT !.rows = db.rows] = db
      BY <1>1 DEF Database
    <3> QED
      BY <3>1, <3>2, <3>3, <3>4
  <2>5. ASSUME n = 4 PROVE After(o, op[o].draft, n) = Drafted(o, n)
    <3>1. op[o].draft = db /\ op[o].source = db
      BY <1>2, <1>3, <1>6, <2>5 DEF Drafted
    <3>2. After(o, op[o].draft, n)
            = [op[o].draft EXCEPT !.winner = op[o].source.winner,
                                  !.moved = op[o].source.moved \cup {o}]
      BY <1>3, <1>6, <2>5 DEF After
    <3>3. Drafted(o, n) = [db EXCEPT !.moved = db.moved \cup {o}]
      BY <1>3, <1>6, <2>5 DEF Drafted
    <3>4. [db EXCEPT !.winner = db.winner, !.moved = db.moved \cup {o}]
            = [db EXCEPT !.moved = db.moved \cup {o}]
      BY <1>1 DEF Database
    <3> QED
      BY <3>1, <3>2, <3>3, <3>4
  <2> QED
    BY <2>1, <2>2, <2>3, <2>4, <2>5
<1> QED
  BY <1>3, <1>4, <1>5, <1>6 DEF n

LEMMA InvExecute ==
    ASSUME Inv, NEW o \in Op, Execute(o)
    PROVE  Inv'
<1> DEFINE n == op[o].at + 1
           draft == After(o, op[o].draft, n)
           source == IF o \in Migrations /\ n = 1 THEN op[o].draft ELSE op[o].source
           x == [op[o] EXCEPT !.at = n, !.draft = draft, !.source = source]
<1>1. /\ op[o] \in CallState /\ Local(o) /\ Locked(o) /\ Alone(o) /\ TypeOK
      /\ op[o].work = "running" /\ n <= Statements(o)
      /\ UNCHANGED <<db, writer, mutex, phase, format>>
      /\ op' = [op EXCEPT ![o] = x]
  BY DEF Inv, TypeOK, Execute
<1>2. o \in Writes
  <2>1. op[o].pc \in {"working", "lost"}
    BY <1>1 DEF Local, CallState, Ended
  <2> QED
    BY <1>1, <2>1 DEF Local
<1>3. n \in Nat \ {0} /\ op[o].at = n - 1
  BY <1>1 DEF CallState
<1>4. draft = Drafted(o, n) /\ draft \in Database
  <2>1. draft = Drafted(o, n)
    BY <1>1, <1>2, DraftedNext
  <2>2. Drafted(o, n) \in Database
    BY <1>1, <1>2, <1>3, DraftedType
  <2> QED
    BY <2>1, <2>2
<1>5. source \in Database /\ (o \in Migrations => source = db)
  <2>1. op[o].draft \in Database /\ op[o].source \in Database
    BY <1>1 DEF CallState
  <2>2. o \in Migrations /\ n # 1 => op[o].source = db
    BY <1>1, <1>3 DEF Alone
  <2>3. n = 1 => op[o].draft = db
    BY <1>1, <1>3, DraftedFirst DEF Alone
  <2> QED
    BY <2>1, <2>2, <2>3
<1> HIDE DEF n, draft, source
<1>6. /\ x \in CallState /\ x.pc = op[o].pc /\ x.work = op[o].work /\ x.client = op[o].client
      /\ x.claim = op[o].claim /\ x.seen = op[o].seen
      /\ x.at = n /\ x.draft = draft /\ x.source = source
  BY <1>1, <1>3, <1>4, <1>5 DEF CallState
<1> HIDE DEF x
<1>7. op'[o] = x
  BY <1>1 DEF TypeOK
<1>8. Local(o)' /\ Locked(o)'
  BY <1>1, <1>6, <1>7 DEF Local, Locked
<1>9. Alone(o)'
  <2> PICK m : m = n
    OBVIOUS
  <2>1. Drafted(o, m)' = Drafted(o, m)
    BY <1>1 DEF Drafted
  <2>2. op'[o].at = m /\ op'[o].draft = Drafted(o, m)'
    BY <1>4, <1>6, <1>7, <2>1
  <2>3. op'[o].draft = Drafted(o, op[o].at)'
    BY <2>2
  <2>4. op'[o].at <= Statements(o)' /\ (o \in Migrations => op'[o].source = db')
    BY <1>1, <1>5, <1>6, <1>7 DEF Statements
  <2>5. op'[o].work = "running" /\ writer' = o
    BY <1>1, <1>2, <1>6, <1>7 DEF Alone
  <2> QED
    BY <2>3, <2>4, <2>5 DEF Alone
<1> QED
  BY <1>1, <1>6, <1>8, <1>9, InvCall DEF TypeOK

LEMMA InvCommit ==
    ASSUME Inv, NEW o \in Op, Commit(o)
    PROVE  Inv'
<1> DEFINE answer == IF o \in Claims THEN op[o].draft.winner ELSE None
<1>1. /\ op[o] \in CallState /\ Local(o) /\ Locked(o) /\ Alone(o) /\ TypeOK
      /\ op[o].work = "running" /\ op[o].at = Statements(o)
      /\ db' = op[o].draft /\ writer' = None /\ UNCHANGED <<mutex, phase, format>>
      /\ op' = Settle(o, "ended", answer)
  BY DEF Inv, TypeOK, Commit
<1>2. o \in Writes /\ op[o].pc \in {"working", "lost"}
  <2>1. op[o].pc \in {"working", "lost"}
    BY <1>1 DEF Local, CallState, Ended
  <2> QED
    BY <1>1, <2>1 DEF Local
<1>3. writer = o /\ db' = Drafted(o, op[o].at) /\ op[o].draft \in Database
  BY <1>1 DEF Alone, CallState
<1>4. db' \in Database /\ db'.stamp = db.stamp
  <2>1. op[o].at \in Nat /\ op[o].at <= Statements(o)
    BY <1>1 DEF CallState, Alone
  <2> QED
    BY <1>1, <1>2, <1>3, <2>1, DraftedType
<1>5. answer \in Claims \cup {None} /\ (op[o].client \in Client \/ op[o].pc # "working")
  BY <1>1, <1>3 DEF Database, Local
<1> HIDE DEF answer
<1>6. PICK x \in CallState :
        /\ Settle(o, "ended", answer) = [op EXCEPT ![o] = x]
        /\ x.pc = op[o].pc /\ x.work = "ended" /\ x.claim = answer /\ x.seen = {}
        /\ x.client = IF op[o].pc = "working" THEN op[o].client ELSE None
        /\ x.at = 0
  BY <1>1, <1>5, SettleFields
<1>7. op' = [op EXCEPT ![o] = x] /\ op'[o] = x
  BY <1>1, <1>6 DEF TypeOK
<1>8. Local(o)'
  BY <1>1, <1>2, <1>6, <1>7 DEF Local
<1>9. Locked(o)'
  BY <1>1, <1>6, <1>7 DEF Locked
<1>10. Alone(o)'
  BY <1>1, <1>2, <1>6, <1>7, SqliteAssumption DEF Alone, Op
<1> QED
  BY <1>1, <1>2, <1>3, <1>4, <1>6, <1>7, <1>8, <1>9, <1>10, InvCall DEF TypeOK

(* A transaction that is rolled back leaves no trace.                      *)
LEMMA InvRollBack ==
    ASSUME Inv, NEW o \in Writes, op[o].work \in {"starting", "running"},
           op' = Settle(o, "failed", None), writer' = RolledBack(o),
           UNCHANGED <<db, mutex, phase, format>>
    PROVE  Inv'
<1>1. /\ o \in Op /\ op[o].pc \in {"working", "lost"} /\ Local(o) /\ Locked(o) /\ Alone(o)
      /\ TypeOK
  BY AtWork DEF Inv, Op
<1>2. PICK x \in CallState :
        /\ Settle(o, "failed", None) = [op EXCEPT ![o] = x]
        /\ x.pc = op[o].pc /\ x.work = "failed" /\ x.claim = None /\ x.seen = {}
        /\ x.client = IF op[o].pc = "working" THEN op[o].client ELSE None
        /\ x.at = 0
  BY <1>1, SettleFields DEF Local
<1>3. op' = [op EXCEPT ![o] = x] /\ op'[o] = x
  BY <1>1, <1>2 DEF TypeOK
<1>4. writer' = writer \/ (writer = o /\ writer' = None)
  BY DEF RolledBack
<1>5. Local(o)'
  BY <1>1, <1>2, <1>3 DEF Local
<1>6. Locked(o)'
  BY <1>1, <1>2, <1>3 DEF Locked
<1>7. Alone(o)'
  BY <1>1, <1>2, <1>3, SqliteAssumption DEF Alone, RolledBack, Op
<1> QED
  BY <1>1, <1>2, <1>3, <1>4, <1>5, <1>6, <1>7, InvCall DEF TypeOK

LEMMA InvWorkFails ==
    ASSUME Inv, NEW o \in Op, WorkFails(o) \/ Refuses(o)
    PROVE  Inv'
<1>1. CASE WorkFails(o)
  BY <1>1, InvRollBack DEF WorkFails
<1>2. CASE Refuses(o)
  <2>1. o \in Writes
    BY <1>2 DEF Refuses, Writes, Commits
  <2> QED
    BY <1>2, <2>1, InvRollBack DEF Refuses
<1> QED
  BY <1>1, <1>2

LEMMA InvReturn ==
    ASSUME Inv, NEW o \in Op, Return(o)
    PROVE  Inv'
<1>1. /\ op[o] \in CallState /\ Local(o) /\ Locked(o) /\ Alone(o) /\ TypeOK
      /\ op[o].pc = "working" /\ UNCHANGED <<db, writer, phase, format>>
      /\ mutex' = [mutex EXCEPT ![op[o].client] = None]
  BY DEF Inv, TypeOK, Return
<1>2. o \in Writes /\ op[o].client \in Client /\ mutex[op[o].client] = o
  BY <1>1 DEF Local, Locked
<1>3. /\ mutex' \in [Client -> Writes \cup {None}]
      /\ \A c \in Client : mutex'[c] = mutex[c] \/ mutex[c] \in {None, o}
  BY <1>1, <1>2 DEF TypeOK
<1>4. CASE /\ Settled(o)
           /\ op' = [op EXCEPT ![o] = IF op[o].work = "ended" /\ ~op[o].cancelled
                                      THEN Done(o) ELSE Lost]
  <2> DEFINE x == IF op[o].work = "ended" /\ ~op[o].cancelled THEN Done(o) ELSE Lost
  <2>1. x \in CallState /\ x.work = "none" /\ x.client = None /\ x.at = 0
    BY <1>1, IdleType, LostFields, DoneFields
  <2>2. x.pc = "done" \/ (x.pc = "lost" /\ x.claim = None /\ x.seen = {})
    BY <1>1, LostFields, DoneFields
  <2>3. op' = [op EXCEPT ![o] = x] /\ op[o].work # "running"
    BY <1>4 DEF Settled
  <2> HIDE DEF x
  <2>4. op'[o] = x
    BY <1>1, <2>3 DEF TypeOK
  <2>5. Local(o)' /\ Locked(o)'
    BY <2>1, <2>2, <2>4 DEF Local, Locked
  <2> QED
    BY <1>1, <1>3, <2>1, <2>3, <2>5, InvQuiet
<1>5. CASE ~Settled(o) /\ op' = [op EXCEPT ![o] = Orphan(o)]
  <2> DEFINE x == Orphan(o)
  <2>1. /\ x \in CallState /\ x.pc = "lost"
        /\ x.work = op[o].work /\ x.client = op[o].client
        /\ x.claim = op[o].claim /\ x.seen = op[o].seen
        /\ x.at = op[o].at /\ x.draft = op[o].draft
        /\ x.source = op[o].source
    BY <1>1, OrphanFields
  <2>2. Teardown /\ op[o].work # "ended"
    BY <1>5 DEF Return, Leaves, Settled
  <2> HIDE DEF x
  <2>3. op' = [op EXCEPT ![o] = x] /\ op'[o] = x
    BY <1>1, <1>5 DEF TypeOK, x
  <2>4. Local(o)' /\ Locked(o)'
    BY <1>1, <1>2, <2>1, <2>2, <2>3 DEF Local, Locked
  <2>5. Drafted(o, op[o].at)' = Drafted(o, op[o].at)
    BY <1>1, <2>1, <2>3 DEF Drafted
  <2>6. Alone(o)'
    BY <1>1, <2>1, <2>3, <2>5 DEF Alone, Statements
  <2> QED
    BY <1>1, <1>3, <2>1, <2>3, <2>4, <2>6, InvCall
<1>6. CASE op[o].work = "starting" /\ op' = [op EXCEPT ![o] = Lost]
  <2>1. op'[o] = Lost
    BY <1>1, <1>6 DEF TypeOK
  <2>2. Local(o)' /\ Locked(o)'
    BY <2>1, LostFields DEF Local, Locked
  <2> QED
    BY <1>1, <1>3, <1>6, <2>2, IdleType, LostFields, InvQuiet
<1> QED
  BY <1>4, <1>5, <1>6 DEF Return

LEMMA InvFetch ==
    ASSUME Inv, NEW o \in Op, Fetch(o)
    PROVE  Inv'
<1> DEFINE x == [op[o] EXCEPT !.work = "ended", !.seen = Kept(db)]
<1>1. /\ op[o] \in CallState /\ Local(o) /\ TypeOK /\ op[o].pc = "fetching"
      /\ op[o].work = "starting" /\ UNCHANGED <<db, writer, mutex, phase, format>>
      /\ op' = [op EXCEPT ![o] = x]
  BY DEF Inv, TypeOK, Fetch
<1>2. Kept(db) \in SUBSET Commits
  BY <1>1 DEF TypeOK, Database, Kept, Commits
<1>3. /\ x \in CallState /\ x.pc = "fetching" /\ x.work = "ended"
      /\ x.client = op[o].client /\ x.at = op[o].at
  BY <1>1, <1>2 DEF CallState
<1> HIDE DEF x
<1>4. op'[o] = x
  BY <1>1 DEF TypeOK
<1>5. Local(o)' /\ Locked(o)'
  BY <1>1, <1>3, <1>4 DEF Local, Locked
<1> QED
  BY <1>1, <1>3, <1>5, InvQuiet DEF TypeOK

LEMMA InvLost ==
    ASSUME Inv, NEW o \in Op, op[o].work # "running", op' = [op EXCEPT ![o] = Lost],
           UNCHANGED <<db, writer, mutex, phase, format>>
    PROVE  Inv'
<1>1. TypeOK /\ op'[o] = Lost
  BY DEF Inv, TypeOK
<1>2. Local(o)' /\ Locked(o)'
  BY <1>1, LostFields DEF Local, Locked
<1> QED
  BY <1>1, <1>2, IdleType, LostFields, InvQuiet DEF TypeOK

LEMMA InvFetchReturn ==
    ASSUME Inv, NEW o \in Op, FetchReturn(o)
    PROVE  Inv'
<1>1. /\ TypeOK /\ op[o].work # "running" /\ op' = [op EXCEPT ![o] = Done(o)]
      /\ UNCHANGED <<db, writer, mutex, phase, format>>
  BY DEF Inv, FetchReturn
<1>2. op'[o] = Done(o)
  BY <1>1 DEF TypeOK
<1>3. Local(o)' /\ Locked(o)'
  BY <1>1, <1>2, DoneFields DEF Local, Locked
<1> QED
  BY <1>1, <1>3, DoneFields, InvQuiet DEF TypeOK

LEMMA InvCancel ==
    ASSUME Inv, NEW o \in Op, Cancel(o)
    PROVE  Inv'
<1>1. /\ op[o] \in CallState /\ Local(o) /\ Locked(o) /\ Alone(o) /\ TypeOK
      /\ op[o].pc \in {"queued", "fetching", "working"}
      /\ UNCHANGED <<db, writer, mutex, phase, format>>
  BY DEF Inv, TypeOK, Cancel
<1>2. CASE op[o].pc = "working"
  <2> DEFINE x == [op[o] EXCEPT !.cancelled = TRUE]
  <2>1. op' = [op EXCEPT ![o] = x]
    BY <1>2 DEF Cancel
  <2>2. /\ x \in CallState /\ x.pc = op[o].pc
        /\ x.work = op[o].work /\ x.client = op[o].client
        /\ x.claim = op[o].claim /\ x.seen = op[o].seen
        /\ x.at = op[o].at /\ x.draft = op[o].draft
        /\ x.source = op[o].source
    BY <1>1 DEF CallState
  <2> HIDE DEF x
  <2>3. op'[o] = x
    BY <1>1, <2>1 DEF TypeOK
  <2>4. Local(o)' /\ Locked(o)'
    BY <1>1, <2>2, <2>3 DEF Local, Locked
  <2>5. Drafted(o, op[o].at)' = Drafted(o, op[o].at)
    BY <1>1, <2>2, <2>3 DEF Drafted
  <2>6. Alone(o)'
    BY <1>1, <2>2, <2>3, <2>5 DEF Alone, Statements
  <2> QED
    BY <1>1, <2>1, <2>2, <2>4, <2>6, InvCall DEF TypeOK
<1>3. CASE op[o].pc # "working"
  <2>1. op' = [op EXCEPT ![o] = Lost]
    BY <1>3 DEF Cancel
  <2>2. op[o].work # "running"
    BY <1>1, <1>3 DEF Local
  <2> QED
    BY <1>1, <2>1, <2>2, InvLost
<1> QED
  BY <1>2, <1>3

-----------------------------------------------------------------------------
(* The steps of a client.  It stamps what has no stamp, so the stamp that  *)
(* another one checked stays.                                              *)
LEMMA InvClient ==
    ASSUME Inv, NEW c \in Client, UNCHANGED <<mutex, op>>, TypeOK',
           \A d \in Client : d # c => phase'[d] = phase[d] /\ format'[d] = format[d],
           writer' = writer \/ (writer \in {None, c} /\ writer' \in {None, c}),
           db' = db \/ (writer = c /\ (db.stamp = None \/ db'.stamp = db.stamp)),
           Opened(c)'
    PROVE  Inv'
<1>1. ASSUME NEW u \in Op PROVE Local(u)' /\ Locked(u)' /\ Alone(u)'
  <2>1. op'[u] = op[u] /\ Local(u) /\ Locked(u) /\ Alone(u) /\ u # None /\ u # c
    BY SqliteAssumption DEF Inv
  <2>2. Local(u)' /\ Locked(u)'
    BY <2>1 DEF Local, Locked
  <2>3. writer' = u <=> writer = u
    BY <2>1
  <2>4. op[u].work = "running" => db' = db
    BY <2>1 DEF Alone
  <2>5. op[u].work = "running" => Drafted(u, op[u].at)' = Drafted(u, op[u].at)
    BY <2>1, <2>4 DEF Drafted
  <2>6. Alone(u)'
    BY <2>1, <2>3, <2>4, <2>5 DEF Alone
  <2> QED
    BY <2>2, <2>6
<1>2. ASSUME NEW d \in Client, d # c PROVE Opened(d)'
  <2>1. Opened(d) /\ phase'[d] = phase[d] /\ format'[d] = format[d] /\ d # None
    BY <1>2, SqliteAssumption DEF Inv
  <2>2. writer' = d <=> writer = d
    BY <1>2, <2>1
  <2>3. phase[d] = "open" => db.stamp # None
    BY <2>1, SqliteAssumption DEF Opened
  <2>4. phase[d] = "stamping" => writer # c
    BY <1>2, <2>1 DEF Opened
  <2>5. phase[d] \in {"stamping", "open"} => db'.stamp = db.stamp
    BY <2>3, <2>4
  <2> QED
    BY <2>1, <2>2, <2>5 DEF Opened
<1> QED
  BY <1>1, <1>2 DEF Inv

LEMMA InvOpen ==
    ASSUME Inv, NEW c \in Client, NEW v \in Format, Open(c, v)
    PROVE  Inv'
<1>1. /\ TypeOK /\ Opened(c) /\ phase[c] = "new"
      /\ phase' = [phase EXCEPT ![c] = "waiting"] /\ format' = [format EXCEPT ![c] = v]
      /\ UNCHANGED <<db, writer, mutex, op>>
  BY DEF Inv, Open
<1>2. TypeOK'
  BY <1>1 DEF TypeOK, Opening
<1>3. phase'[c] = "waiting" /\ format'[c] = v
  BY <1>1 DEF TypeOK
<1>4. Opened(c)'
  BY <1>1, <1>3 DEF Opened
<1> QED
  BY <1>1, <1>2, <1>4, InvClient

LEMMA InvInitialize ==
    ASSUME Inv, NEW c \in Client, Initialize(c)
    PROVE  Inv'
<1>1. /\ TypeOK /\ Opened(c) /\ phase[c] = "waiting" /\ writer = None
      /\ phase' = [phase EXCEPT ![c] = IF Accepts(c) THEN "stamping" ELSE "refused"]
      /\ writer' = IF Accepts(c) THEN c ELSE None
      /\ UNCHANGED <<db, mutex, format, op>>
  BY DEF Inv, Initialize
<1>2. TypeOK'
  BY <1>1 DEF TypeOK, Opening
<1>3. phase'[c] = IF Accepts(c) THEN "stamping" ELSE "refused"
  BY <1>1 DEF TypeOK
<1>4. Opened(c)'
  BY <1>1, <1>3, SqliteAssumption DEF Opened, Accepts
<1> QED
  BY <1>1, <1>2, <1>4, InvClient

LEMMA InvOpenCommit ==
    ASSUME Inv, NEW c \in Client, OpenCommit(c)
    PROVE  Inv'
<1>1. /\ TypeOK /\ Opened(c) /\ phase[c] = "stamping"
      /\ db' = IF db.stamp = None THEN [db EXCEPT !.stamp = format[c]] ELSE db
      /\ phase' = [phase EXCEPT ![c] = "open"] /\ writer' = None
      /\ UNCHANGED <<mutex, format, op>>
  BY DEF Inv, OpenCommit
<1>2. writer = c /\ format[c] \in Format /\ db.stamp \in {None, format[c]} /\ db \in Database
  BY <1>1 DEF Opened, TypeOK
<1>3. db' \in Database /\ db'.stamp = format[c]
  BY <1>1, <1>2 DEF Database
<1>4. TypeOK'
  BY <1>1, <1>3 DEF TypeOK, Opening
<1>5. phase'[c] = "open"
  BY <1>1 DEF TypeOK
<1>6. Opened(c)'
  BY <1>1, <1>2, <1>3, <1>5, SqliteAssumption DEF Opened
<1> QED
  BY <1>1, <1>2, <1>4, <1>6, InvClient

LEMMA InvOpenFails ==
    ASSUME Inv, NEW c \in Client, OpenFails(c)
    PROVE  Inv'
<1>1. /\ TypeOK /\ Opened(c) /\ phase[c] \in Opening
      /\ phase' = [phase EXCEPT ![c] = "refused"]
      /\ writer' = IF writer = c THEN None ELSE writer
      /\ UNCHANGED <<db, mutex, format, op>>
  BY DEF Inv, OpenFails
<1>2. TypeOK'
  BY <1>1 DEF TypeOK, Opening
<1>3. phase'[c] = "refused"
  BY <1>1 DEF TypeOK
<1>4. Opened(c)'
  BY <1>1, <1>3, SqliteAssumption DEF Opened, Opening
<1> QED
  BY <1>1, <1>2, <1>4, InvClient

(* The death of a process ends its transaction, and no other.              *)
LEMMA InvCrash ==
    ASSUME Inv, NEW p \in Process, Crash(p)
    PROVE  Inv'
<1> DEFINE dead == {c \in Client : Home[c] = p}
<1>1. /\ TypeOK
      /\ phase' = [c \in Client |-> IF c \in dead THEN "gone" ELSE phase[c]]
      /\ op' = [o \in Op |-> IF op[o].client \in dead THEN Lost ELSE op[o]]
      /\ mutex' = [c \in Client |-> IF c \in dead THEN None ELSE mutex[c]]
      /\ writer' = IF writer \in dead \/ \E o \in Writes : writer = o /\ op[o].client \in dead
                   THEN None ELSE writer
      /\ UNCHANGED <<db, format>>
  BY DEF Inv, Crash
<1>2. dead \subseteq Client
  OBVIOUS
<1> HIDE DEF dead
<1>3. TypeOK'
  BY <1>1, IdleType DEF TypeOK
<1>4. ASSUME NEW u \in Op PROVE Local(u)' /\ Locked(u)' /\ Alone(u)'
  <2>1. Local(u) /\ Locked(u) /\ Alone(u) /\ u # None /\ u \notin Client
    BY SqliteAssumption DEF Inv
  <2>2. op'[u] = IF op[u].client \in dead THEN Lost ELSE op[u]
    BY <1>1
  <2>3. Local(u)'
    BY <2>1, <2>2, LostFields DEF Local
  <2>4. Locked(u)'
    <3>1. op[u].pc = "working" => op[u].client \in Client
      BY <2>1 DEF Local
    <3> QED
      BY <1>1, <2>1, <2>2, <3>1, LostFields DEF Locked
  <2>5. CASE op[u].client \in dead
    <3>1. writer = u => u \in Writes
      BY <1>1, <2>1 DEF TypeOK
    <3>2. writer' # u
      BY <1>1, <2>1, <2>5, <3>1
    <3>3. Alone(u)'
      BY <2>2, <2>5, <3>2, LostFields DEF Alone
    <3> QED
      BY <2>3, <2>4, <3>3
  <2>6. CASE op[u].client \notin dead
    <3>1. writer' = u <=> writer = u
      BY <1>1, <1>2, <2>1, <2>6
    <3>2. op'[u] = op[u]
      BY <2>2, <2>6
    <3>3. op[u].work = "running" => Drafted(u, op[u].at)' = Drafted(u, op[u].at)
      BY <1>1, <3>2 DEF Drafted
    <3>4. Alone(u)'
      BY <1>1, <2>1, <3>1, <3>2, <3>3 DEF Alone
    <3> QED
      BY <2>3, <2>4, <3>4
  <2> QED
    BY <2>5, <2>6
<1>5. ASSUME NEW c \in Client PROVE Opened(c)'
  <2>1. Opened(c) /\ c # None /\ c \notin Op
    BY SqliteAssumption DEF Inv
  <2>2. phase'[c] = IF c \in dead THEN "gone" ELSE phase[c]
    BY <1>1
  <2>3. CASE c \in dead
    BY <1>1, <2>1, <2>2, <2>3 DEF Opened
  <2>4. CASE c \notin dead
    <3>1. writer' = c <=> writer = c
      BY <1>1, <2>1, <2>4 DEF Op
    <3> QED
      BY <1>1, <2>1, <2>2, <2>4, <3>1 DEF Opened
  <2> QED
    BY <2>3, <2>4
<1> QED
  BY <1>3, <1>4, <1>5 DEF Inv

-----------------------------------------------------------------------------
LEMMA InvNext == Inv /\ [Next]_svars => Inv'
<1> SUFFICES ASSUME Inv, [Next]_svars PROVE Inv'
  OBVIOUS
<1>1. ASSUME NEW c \in Client, OpenStep(c) \/ OpenFails(c) PROVE Inv'
  BY <1>1, InvInitialize, InvOpenCommit, InvOpenFails DEF OpenStep
<1>2. ASSUME NEW c \in Client, NEW v \in Format, Open(c, v) PROVE Inv'
  BY <1>2, InvOpen
<1>3. ASSUME NEW o \in Op, Step(o) PROVE Inv'
  BY <1>3, InvAcquire, InvBeginImmediate, InvExecute, InvCommit, InvWorkFails, InvReturn,
     InvFetch, InvFetchReturn DEF Step
<1>4. ASSUME NEW o \in Op, WorkFails(o) \/ Cancel(o) PROVE Inv'
  BY <1>4, InvWorkFails, InvCancel
<1>5. ASSUME NEW o \in Op, FetchFails(o) PROVE Inv'
  BY <1>5, InvLost DEF FetchFails
<1>6. ASSUME NEW o \in Op, NEW c \in Client, Begin(o, c) PROVE Inv'
  BY <1>6, InvBegin
<1>7. ASSUME NEW p \in Process, Crash(p) PROVE Inv'
  BY <1>7, InvCrash
<1>8. CASE UNCHANGED svars
  <2>1. UNCHANGED <<db, writer, mutex, phase, format, op>>
    BY <1>8 DEF svars
  <2>2. TypeOK'
    BY <2>1 DEF Inv, TypeOK
  <2>3. ASSUME NEW o \in Op PROVE Local(o)' /\ Locked(o)' /\ Alone(o)'
    <3>1. Local(o) /\ Locked(o) /\ Alone(o)
      BY DEF Inv
    <3>2. Local(o)' /\ Locked(o)'
      BY <2>1, <3>1 DEF Local, Locked
    <3>3. Drafted(o, op[o].at)' = Drafted(o, op[o].at)
      BY <2>1 DEF Drafted
    <3>4. Alone(o)'
      BY <2>1, <3>1, <3>3 DEF Alone, Statements
    <3> QED
      BY <3>2, <3>4
  <2>4. ASSUME NEW c \in Client PROVE Opened(c)'
    BY <2>1, <2>4 DEF Inv, Opened
  <2> QED
    BY <2>2, <2>3, <2>4 DEF Inv
<1> QED
  BY <1>1, <1>2, <1>3, <1>4, <1>5, <1>6, <1>7, <1>8 DEF Next

LEMMA InvAlways == Spec => []Inv
BY InvInit, InvNext, PTL DEF Spec

-----------------------------------------------------------------------------
(* Every state has its type, whatever the calls, their cancellations, the  *)
(* openings, failures and crashes (SqliteStore).                           *)
THEOREM SqliteTypes == Spec => []TypeOK
<1>1. Inv => TypeOK
  BY DEF Inv
<1> QED
  BY <1>1, InvAlways, PTL

(* An open client works on a database of its own format: what it checked   *)
(* no later opening changes (_stamp_or_check_meta).                        *)
THEOREM OpenMeansOwnFormat == Spec => []OwnFormat
<1>1. Inv => OwnFormat
  BY DEF Inv, OwnFormat, Opened
<1> QED
  BY <1>1, InvAlways, PTL

(* A thread never waits for the write lock behind a thread of its own      *)
(* client, unless one of them outlived its event loop (run_immediate).     *)
THEOREM CallsDontContend == Spec => []NoSelfContention
<1>1. ASSUME Inv, NEW o \in Writes, NEW q \in Writes,
             op[o].work = "starting", writer = q, op[o].client = op[q].client
      PROVE  Teardown /\ "lost" \in {op[o].pc, op[q].pc}
  <2>1. /\ o \in Op /\ Local(o) /\ Locked(o)
        /\ q \in Op /\ Local(q) /\ Locked(q) /\ op[q].work = "running"
    BY <1>1 DEF Inv, Op, Alone
  <2>2. op[o].pc \in {"working", "lost"} /\ op[q].pc \in {"working", "lost"}
    BY <1>1, <2>1, AtWork
  <2>3. ~(op[o].pc = "working" /\ op[q].pc = "working")
    BY <1>1, <2>1 DEF Locked
  <2> QED
    BY <1>1, <2>1, <2>2, <2>3 DEF Local
<1>2. Inv => NoSelfContention
  BY <1>1 DEF NoSelfContention
<1> QED
  BY <1>2, InvAlways, PTL

-----------------------------------------------------------------------------
(* The atomic document.  The answer of a call, of its record alone.        *)
Stage(r) ==
    CASE r.pc = "idle" -> "none"
      [] r.pc = "done" -> "done"
      [] r.work = "failed" \/ (r.pc = "lost" /\ r.work = "none") -> "lost"
      [] r.work = "ended" -> "answered"
      [] OTHER -> "asked"

Ans(r) == [st |-> Stage(r), claim |-> r.claim, seen |-> r.seen]

Tickets == [o \in Op |-> Answer(o)]

LEMMA AnsOf ==
    /\ \A o \in Op : Answer(o) = Ans(op[o])
    /\ \A o \in Op : Answer(o)' = Ans(op'[o])
  BY DEF Answer, Ans, Progress, Stage

LEMMA AtomicOp == Atomic!Op = Op
  BY DEF Atomic!Op, Op, Writes

LEMMA AnsLost == Ans(Lost) = Atomic!Blank("lost")
  BY LostFields DEF Ans, Stage, Atomic!Blank

(* A call that has begun and is not at its end is asked for.               *)
LEMMA AnsAsked ==
    ASSUME NEW r \in CallState, r.pc \notin {"idle", "done"},
           \/ r.work \in {"starting", "running"}
           \/ r.work = "none" /\ r.pc # "lost"
    PROVE  Stage(r) = "asked"
  BY DEF Stage

LEMMA AnsAnswered ==
    ASSUME NEW r \in CallState, r.pc \notin {"idle", "done"}, r.work = "ended"
    PROVE  Stage(r) = "answered"
  BY DEF Stage

LEMMA TicketsStep ==
    ASSUME TypeOK, NEW o \in Op, NEW x \in CallState, op' = [op EXCEPT ![o] = x]
    PROVE  Tickets' = [Tickets EXCEPT ![o] = Ans(x)] /\ Tickets[o] = Ans(op[o])
<1>1. op'[o] = x /\ \A u \in Op : u # o => op'[u] = op[u]
  BY DEF TypeOK
<1>2. \A u \in Op : Answer(u)' = IF u = o THEN Ans(x) ELSE Answer(u)
  BY <1>1, AnsOf
<1>3. Tickets' = [u \in Op |-> Answer(u)']
  BY DEF Tickets
<1>4. Tickets' = [Tickets EXCEPT ![o] = Ans(x)]
  BY <1>2, <1>3 DEF Tickets
<1> QED
  BY <1>4, AnsOf DEF Tickets

(* A step that changes no answer, and one that loses calls.                *)
LEMMA TicketsSame ==
    ASSUME TypeOK, NEW o \in Op, NEW x \in CallState, op' = [op EXCEPT ![o] = x],
           Stage(x) = Stage(op[o]), x.claim = op[o].claim, x.seen = op[o].seen,
           UNCHANGED db
    PROVE  UNCHANGED Atomic!dvars
<1>1. Ans(x) = Ans(op[o])
  BY DEF Ans
<1>2. Tickets' = Tickets
  <2>1. Tickets' = [Tickets EXCEPT ![o] = Tickets[o]]
    BY <1>1, TicketsStep
  <2>2. Tickets = [u \in Op |-> Tickets[u]]
    BY DEF Tickets
  <2> QED
    BY <2>1, <2>2
<1>3. Kept(db)' = Kept(db)
  BY DEF Kept
<1> QED
  BY <1>2, <1>3 DEF Tickets, Atomic!dvars

LEMMA TicketsLost ==
    ASSUME TypeOK, NEW S \in SUBSET Op, UNCHANGED db,
           \A o \in S : Stage(op[o]) \in {"asked", "answered"} /\ Ans(op'[o]) = Atomic!Blank("lost"),
           \A o \in Op \ S : Ans(op'[o]) = Ans(op[o])
    PROVE  Atomic!Lose(S)
<1>1. \A o \in Op : Answer(o)' = IF o \in S THEN Atomic!Blank("lost") ELSE Answer(o)
  BY AnsOf
<1>2. Tickets' = [o \in Op |-> IF o \in S THEN Atomic!Blank("lost") ELSE Tickets[o]]
  BY <1>1 DEF Tickets
<1>3. \A o \in S : Tickets[o].st \in {"asked", "answered"}
  BY AnsOf DEF Tickets, Ans
<1>4. Kept(db)' = Kept(db)
  BY DEF Kept
<1> QED
  BY <1>2, <1>3, <1>4, AtomicOp DEF Tickets, Atomic!Lose

LEMMA TicketsLose ==
    ASSUME TypeOK, NEW o \in Op, NEW x \in CallState, op' = [op EXCEPT ![o] = x], UNCHANGED db,
           Stage(op[o]) \in {"asked", "answered"}, Ans(x) = Atomic!Blank("lost")
    PROVE  Atomic!Lose({o})
<1>1. op'[o] = x /\ \A u \in Op : u # o => op'[u] = op[u]
  BY DEF TypeOK
<1> QED
  BY <1>1, TicketsLost

-----------------------------------------------------------------------------
(* Each step of the store as one of the document, or none.                 *)
LEMMA AtomicAsk ==
    ASSUME Inv, NEW o \in Op, NEW c \in Client, Begin(o, c) PROVE Atomic!Ask(o)
<1> DEFINE x == IF o \in Reads THEN [Idle EXCEPT !.pc = "fetching", !.work = "starting",
                                                 !.client = c]
                ELSE [Idle EXCEPT !.pc = "queued", !.client = c]
<1>1. /\ op' = [op EXCEPT ![o] = x] /\ op[o].pc = "idle" /\ phase[c] = "open"
      /\ UNCHANGED db /\ TypeOK /\ Opened(c)
  BY DEF Begin, Inv
<1>2. /\ x \in CallState /\ x.claim = None /\ x.seen = {}
      /\ x.pc \notin {"idle", "done", "lost"} /\ x.work \in {"none", "starting"}
  BY IdleType DEF Idle, CallState
<1> HIDE DEF x
<1>3. Ans(x) = Atomic!Blank("asked")
  BY <1>2, AnsAsked DEF Ans, Atomic!Blank
<1>4. Tickets' = [Tickets EXCEPT ![o] = Atomic!Blank("asked")] /\ Tickets[o] = Ans(op[o])
  BY <1>1, <1>2, <1>3, TicketsStep
<1>5. Tickets[o].st = "none"
  <2>1. op[o].work = "none"
    BY <1>1 DEF Inv, Local
  <2>2. Stage(op[o]) = "none"
    BY <1>1, <2>1 DEF Stage
  <2> QED
    BY <1>4, <2>2 DEF Ans
<1>6. db.stamp # None
  BY <1>1, SqliteAssumption DEF Opened
<1>7. Kept(db)' = Kept(db)
  BY <1>1 DEF Kept
<1> QED
  BY <1>1, <1>4, <1>5, <1>6, <1>7 DEF Tickets, Atomic!Ask

(* A call that moves is still asked for.                                   *)
LEMMA AtomicMove ==
    ASSUME Inv, NEW o \in Op,
           \/ Acquire(o) \/ BeginImmediate(o) \/ Execute(o)
           \/ Cancel(o) /\ op[o].pc = "working"
    PROVE  UNCHANGED Atomic!dvars
<1>1. TypeOK /\ op[o] \in CallState /\ Local(o)
  BY DEF Inv, TypeOK
<1>2. CASE Acquire(o)
  <2> DEFINE x == [op[o] EXCEPT !.pc = "working", !.work = "starting"]
  <2>1. op' = [op EXCEPT ![o] = x] /\ UNCHANGED db /\ op[o].pc = "queued"
    BY <1>2 DEF Acquire
  <2>2. /\ x \in CallState /\ x.pc = "working" /\ x.work = "starting"
        /\ x.claim = op[o].claim /\ x.seen = op[o].seen
    BY <1>1 DEF CallState
  <2> HIDE DEF x
  <2>3. Stage(x) = "asked"
    BY <2>2, AnsAsked
  <2>4. Stage(op[o]) = "asked"
    BY <1>1, <2>1, AnsAsked DEF Local
  <2> QED
    BY <1>1, <2>1, <2>2, <2>3, <2>4, TicketsSame
<1>3. CASE BeginImmediate(o)
  <2> DEFINE x == [op[o] EXCEPT !.work = "running", !.draft = db]
  <2>1. op' = [op EXCEPT ![o] = x] /\ UNCHANGED db /\ op[o].work = "starting"
    BY <1>3 DEF BeginImmediate
  <2>2. /\ x \in CallState /\ x.pc = op[o].pc /\ x.work = "running"
        /\ x.claim = op[o].claim /\ x.seen = op[o].seen
    BY <1>1 DEF CallState, TypeOK
  <2> HIDE DEF x
  <2>3. op[o].pc \notin {"idle", "done"}
    BY <1>1, <2>1 DEF Local
  <2>4. Stage(x) = "asked"
    BY <2>2, <2>3, AnsAsked
  <2>5. Stage(op[o]) = "asked"
    BY <1>1, <2>1, <2>3, AnsAsked
  <2> QED
    BY <1>1, <2>1, <2>2, <2>4, <2>5, TicketsSame
<1>4. CASE Execute(o)
  <2> DEFINE n == op[o].at + 1
             draft == After(o, op[o].draft, n)
             source == IF o \in Migrations /\ n = 1 THEN op[o].draft ELSE op[o].source
             x == [op[o] EXCEPT !.at = n, !.draft = draft, !.source = source]
  <2>1. op' = [op EXCEPT ![o] = x] /\ UNCHANGED db
    BY <1>4 DEF Execute
  <2> HIDE DEF draft, source
  <2>2. /\ x.pc = op[o].pc /\ x.work = op[o].work
        /\ x.claim = op[o].claim /\ x.seen = op[o].seen
    BY <1>1 DEF CallState
  <2> HIDE DEF x
  <2>3. op'[o] = x /\ op' \in [Op -> CallState]
    BY <1>1, <1>4, <2>1, InvExecute DEF TypeOK, Inv
  <2>4. x \in CallState
    BY <2>3
  <2>5. Stage(x) = Stage(op[o])
    BY <2>2 DEF Stage
  <2> QED
    BY <1>1, <2>1, <2>2, <2>4, <2>5, TicketsSame
<1>5. CASE Cancel(o) /\ op[o].pc = "working"
  <2> DEFINE x == [op[o] EXCEPT !.cancelled = TRUE]
  <2>1. op' = [op EXCEPT ![o] = x] /\ UNCHANGED db
    BY <1>5 DEF Cancel
  <2>2. /\ x \in CallState /\ x.pc = op[o].pc /\ x.work = op[o].work
        /\ x.claim = op[o].claim /\ x.seen = op[o].seen
    BY <1>1 DEF CallState
  <2> HIDE DEF x
  <2>3. Stage(x) = Stage(op[o])
    BY <2>2 DEF Stage
  <2> QED
    BY <1>1, <2>1, <2>2, <2>3, TicketsSame
<1> QED
  BY <1>2, <1>3, <1>4, <1>5

(* What a commit makes of the committed records.                           *)
LEMMA DraftedKept ==
    ASSUME TypeOK, NEW o \in Writes, NEW d, d = Drafted(o, Statements(o))
    PROVE  /\ o \in Commits => Kept(d) = Kept(db) \cup {o} /\ d.winner = db.winner
           /\ o \in Claims => /\ Kept(d) = Kept(db)
                              /\ d.winner = IF db.winner = None THEN o ELSE db.winner
<1>1. db \in Database /\ Batch \in Nat \ {0}
  BY SqliteAssumption DEF TypeOK
<1>2. ASSUME o \in Saves PROVE Kept(d) = Kept(db) \cup {o} /\ d.winner = db.winner
  <2>1. d.rows = db.rows \cup ({o} \X (1..Batch)) /\ d.moved = db.moved /\ d.winner = db.winner
    BY <1>1, <1>2 DEF Drafted, Statements, Database
  <2>2. \E i \in 1..Batch : <<o, i>> \in d.rows
    BY <1>1, <2>1
  <2>3. ASSUME NEW s \in Saves, s # o
        PROVE  (\E i \in 1..Batch : <<s, i>> \in d.rows)
                  <=> (\E i \in 1..Batch : <<s, i>> \in db.rows)
    BY <2>1, <2>3
  <2> QED
    BY <1>2, <2>1, <2>2, <2>3 DEF Kept
<1>3. ASSUME o \in Migrations PROVE Kept(d) = Kept(db) \cup {o} /\ d.winner = db.winner
  <2>1. Statements(o) = 4 /\ o \notin Saves /\ o \notin Claims
    BY <1>3, SqliteAssumption DEF Statements, Commits
  <2>2. d.rows = db.rows /\ d.moved = db.moved \cup {o} /\ d.winner = db.winner
    BY <1>1, <2>1 DEF Drafted, Database
  <2> QED
    BY <2>2 DEF Kept
<1>4. ASSUME o \in Claims
      PROVE  Kept(d) = Kept(db) /\ d.winner = IF db.winner = None THEN o ELSE db.winner
  <2>1. Statements(o) = 2 /\ o \notin Saves
    BY <1>4, SqliteAssumption DEF Statements, Commits
  <2>2. /\ d.rows = db.rows /\ d.moved = db.moved
        /\ d.winner = IF db.winner = None THEN o ELSE db.winner
    BY <1>1, <1>4, <2>1 DEF Drafted, Database
  <2> QED
    BY <2>2 DEF Kept
<1> QED
  BY <1>2, <1>3, <1>4 DEF Commits

LEMMA AtomicCommit ==
    ASSUME Inv, NEW o \in Op, Commit(o)
    PROVE  \/ o \in Commits /\ Atomic!Commit(o)
           \/ o \in Claims /\ Atomic!Claim(o)
<1> DEFINE answer == IF o \in Claims THEN op[o].draft.winner ELSE None
<1>1. /\ op[o] \in CallState /\ Local(o) /\ Alone(o) /\ TypeOK
      /\ op[o].work = "running" /\ op[o].at = Statements(o)
      /\ db' = op[o].draft /\ op' = Settle(o, "ended", answer)
  BY DEF Inv, TypeOK, Commit
<1>2. o \in Writes /\ op[o].pc \in {"working", "lost"}
  <2>1. op[o].pc \in {"working", "lost"}
    BY <1>1 DEF Local, CallState, Ended
  <2> QED
    BY <1>1, <2>1 DEF Local
<1>3. db' = Drafted(o, Statements(o)) /\ op[o].draft \in Database
  BY <1>1 DEF Alone, CallState
<1>4. db'.stamp = db.stamp
  <2>1. op[o].at \in Nat /\ op[o].at <= Statements(o)
    BY <1>1 DEF CallState, Alone
  <2> QED
    BY <1>1, <1>2, <1>3, <2>1, DraftedType
<1>5. answer = IF o \in Claims THEN db'.winner ELSE None
  BY <1>1
<1>6. answer \in Claims \cup {None} /\ (op[o].client \in Client \/ op[o].pc # "working")
  BY <1>1, <1>3 DEF Database, Local
<1> HIDE DEF answer
<1>7. PICK x \in CallState :
        /\ Settle(o, "ended", answer) = [op EXCEPT ![o] = x]
        /\ x.pc = op[o].pc /\ x.work = "ended" /\ x.claim = answer /\ x.seen = {}
        /\ x.client = IF op[o].pc = "working" THEN op[o].client ELSE None
        /\ x.at = 0
  BY <1>1, <1>6, SettleFields
<1>8. Tickets' = [Tickets EXCEPT ![o] = Ans(x)] /\ Tickets[o] = Ans(op[o])
  BY <1>1, <1>7, TicketsStep
<1>9. Stage(x) = "answered" /\ Stage(op[o]) = "asked"
  BY <1>1, <1>2, <1>7, AnsAsked, AnsAnswered
<1>10. Tickets[o].st = "asked"
  BY <1>8, <1>9 DEF Ans
<1>11. /\ o \in Commits => Kept(db') = Kept(db) \cup {o} /\ db'.winner = db.winner
       /\ o \in Claims => /\ Kept(db') = Kept(db)
                          /\ db'.winner = IF db.winner = None THEN o ELSE db.winner
  BY <1>1, <1>2, <1>3, DraftedKept
<1>12. Kept(db)' = Kept(db')
  BY DEF Kept
<1>13. CASE o \in Commits
  <2>1. o \notin Claims
    BY <1>13, SqliteAssumption
  <2>2. Ans(x) = Atomic!Blank("answered")
    BY <1>5, <1>7, <1>9, <2>1 DEF Ans, Atomic!Blank
  <2>3. Tickets' = [Tickets EXCEPT ![o] = Atomic!Blank("answered")]
    BY <1>8, <2>2
  <2>4. Atomic!Commit(o)
    BY <1>4, <1>10, <1>11, <1>12, <1>13, <2>3 DEF Tickets, Atomic!Commit
  <2> QED
    BY <1>13, <2>4
<1>14. CASE o \in Claims
  <2>1. Ans(x) = [Atomic!Blank("answered") EXCEPT !.claim = db'.winner]
    BY <1>5, <1>7, <1>9, <1>14 DEF Ans, Atomic!Blank
  <2>2. Tickets' = [Tickets EXCEPT ![o] = [Atomic!Blank("answered") EXCEPT !.claim = db'.winner]]
    BY <1>8, <2>1
  <2>3. Atomic!Claim(o)
    BY <1>4, <1>10, <1>11, <1>12, <1>14, <2>2 DEF Tickets, Atomic!Claim
  <2> QED
    BY <1>14, <2>3
<1> QED
  BY <1>2, <1>13, <1>14 DEF Writes

LEMMA AtomicRead ==
    ASSUME Inv, NEW o \in Op, Fetch(o) PROVE o \in Reads /\ Atomic!Read(o)
<1> DEFINE x == [op[o] EXCEPT !.work = "ended", !.seen = Kept(db)]
<1>1. /\ op[o] \in CallState /\ Local(o) /\ TypeOK /\ op[o].pc = "fetching"
      /\ op[o].work = "starting" /\ UNCHANGED db
      /\ op' = [op EXCEPT ![o] = x]
  BY DEF Inv, TypeOK, Fetch
<1>2. Kept(db) \in SUBSET Commits
  BY <1>1 DEF TypeOK, Database, Kept, Commits
<1>3. /\ x \in CallState /\ x.pc = "fetching" /\ x.work = "ended"
      /\ x.claim = op[o].claim /\ x.seen = Kept(db)
  BY <1>1, <1>2 DEF CallState
<1> HIDE DEF x
<1>4. o \in Reads /\ op[o].claim = None
  BY <1>1 DEF Local
<1>5. Stage(x) = "answered" /\ Stage(op[o]) = "asked"
  BY <1>1, <1>3, AnsAsked, AnsAnswered
<1>6. Ans(x) = [Atomic!Blank("answered") EXCEPT !.seen = Kept(db)]
  BY <1>3, <1>4, <1>5 DEF Ans, Atomic!Blank
<1>7. /\ Tickets' = [Tickets EXCEPT ![o] = [Atomic!Blank("answered") EXCEPT !.seen = Kept(db)]]
      /\ Tickets[o] = Ans(op[o])
  <2>1. Tickets' = [Tickets EXCEPT ![o] = Ans(x)] /\ Tickets[o] = Ans(op[o])
    BY <1>1, <1>3, TicketsStep
  <2> QED
    BY <1>6, <2>1
<1>8. Tickets[o].st = "asked" /\ Kept(db)' = Kept(db)
  BY <1>1, <1>5, <1>7 DEF Ans, Kept
<1> QED
  BY <1>1, <1>4, <1>7, <1>8 DEF Tickets, Atomic!Read

LEMMA AtomicGive ==
    ASSUME Inv, NEW o \in Op, op[o].pc \notin {"idle", "done"}, op[o].work = "ended",
           op' = [op EXCEPT ![o] = Done(o)], UNCHANGED db
    PROVE  Atomic!Give(o)
<1>1. TypeOK /\ op[o] \in CallState
  BY DEF Inv, TypeOK
<1>2. Stage(op[o]) = "answered" /\ Stage(Done(o)) = "done"
  BY <1>1, AnsAnswered, DoneFields DEF Stage
<1>3. Ans(Done(o)) = [Ans(op[o]) EXCEPT !.st = "done"]
  BY <1>1, <1>2, DoneFields DEF Ans
<1>4. Tickets' = [Tickets EXCEPT ![o] = Ans(Done(o))] /\ Tickets[o] = Ans(op[o])
  BY <1>1, DoneFields, TicketsStep
<1>5. Tickets' = [Tickets EXCEPT ![o].st = "done"]
  BY <1>3, <1>4
<1>6. Tickets[o].st = "answered" /\ Kept(db)' = Kept(db)
  BY <1>2, <1>4 DEF Ans, Kept
<1> QED
  BY <1>5, <1>6 DEF Tickets, Atomic!Give

(* A call returns: its answer is given, or lost to a cancellation.         *)
LEMMA AtomicReturn ==
    ASSUME Inv, NEW o \in Op, Return(o) \/ FetchReturn(o)
    PROVE  Atomic!Give(o) \/ Atomic!Lose({o}) \/ UNCHANGED Atomic!dvars
<1>1. TypeOK /\ op[o] \in CallState /\ Local(o)
  BY DEF Inv, TypeOK
<1>2. UNCHANGED db
  BY DEF Return, FetchReturn
<1>3. CASE FetchReturn(o)
  BY <1>2, <1>3, AtomicGive DEF FetchReturn
<1>4. CASE Return(o)
  <2>1. op[o].pc = "working"
    BY <1>4 DEF Return
  <2>2. CASE op' = [op EXCEPT ![o] = Done(o)] /\ op[o].work = "ended"
    BY <1>2, <2>1, <2>2, AtomicGive
  <2>3. CASE op' = [op EXCEPT ![o] = Lost] /\ op[o].work \in {"ended", "starting"}
    <3>1. Stage(op[o]) \in {"asked", "answered"}
      BY <1>1, <2>1, <2>3, AnsAsked, AnsAnswered
    <3> QED
      BY <1>1, <1>2, <2>3, <3>1, AnsLost, IdleType, TicketsLose
  <2>4. CASE op' = [op EXCEPT ![o] = Lost] /\ op[o].work = "failed"
    <3>1. Stage(op[o]) = "lost" /\ Stage(Lost) = "lost"
      BY <2>1, <2>4, LostFields DEF Stage
    <3>2. op[o].claim = None /\ op[o].seen = {}
      BY <1>1, <2>1, <2>4 DEF Local
    <3> QED
      BY <1>1, <1>2, <2>4, <3>1, <3>2, IdleType, LostFields, TicketsSame
  <2>5. CASE op' = [op EXCEPT ![o] = Orphan(o)] /\ ~Settled(o)
    <3>1. op[o].work \in {"starting", "running"}
      BY <1>1, <2>1, <2>5 DEF Local, CallState, Settled
    <3>2. Stage(op[o]) = "asked" /\ Stage(Orphan(o)) = "asked"
      BY <1>1, <2>1, <3>1, OrphanFields, AnsAsked
    <3> QED
      BY <1>1, <1>2, <2>5, <3>2, OrphanFields, TicketsSame
  <2> QED
    BY <1>4, <2>1, <2>2, <2>3, <2>4, <2>5 DEF Return, Settled
<1> QED
  BY <1>3, <1>4

(* A call that fails or is cancelled before its answer is lost.            *)
LEMMA AtomicRollBack ==
    ASSUME Inv, NEW o \in Writes, op[o].work \in {"starting", "running"},
           op' = Settle(o, "failed", None), UNCHANGED db
    PROVE  Atomic!Lose({o})
<1>1. /\ o \in Op /\ op[o].pc \in {"working", "lost"} /\ Local(o) /\ TypeOK
      /\ op[o] \in CallState
  BY AtWork DEF Inv, Op, TypeOK
<1>2. PICK x \in CallState :
        /\ Settle(o, "failed", None) = [op EXCEPT ![o] = x]
        /\ x.pc = op[o].pc /\ x.work = "failed" /\ x.claim = None /\ x.seen = {}
        /\ x.client = IF op[o].pc = "working" THEN op[o].client ELSE None
        /\ x.at = 0
  BY <1>1, SettleFields DEF Local
<1>3. Stage(x) = "lost"
  BY <1>1, <1>2 DEF Stage
<1>4. Ans(x) = Atomic!Blank("lost")
  BY <1>2, <1>3 DEF Ans, Atomic!Blank
<1>5. Stage(op[o]) = "asked"
  BY <1>1, AnsAsked
<1> QED
  BY <1>1, <1>2, <1>4, <1>5, TicketsLose

LEMMA AtomicLose ==
    ASSUME Inv, NEW o \in Op,
           \/ WorkFails(o) \/ Refuses(o) \/ FetchFails(o)
           \/ Cancel(o) /\ op[o].pc # "working"
    PROVE  Atomic!Lose({o})
<1>1. TypeOK /\ op[o] \in CallState /\ Local(o)
  BY DEF Inv, TypeOK
<1>2. CASE WorkFails(o)
  BY <1>2, AtomicRollBack DEF WorkFails
<1>3. CASE Refuses(o)
  <2>1. o \in Writes
    BY <1>3 DEF Refuses, Writes, Commits
  <2> QED
    BY <1>3, <2>1, AtomicRollBack DEF Refuses
<1>4. CASE FetchFails(o) \/ (Cancel(o) /\ op[o].pc # "working")
  <2>1. op' = [op EXCEPT ![o] = Lost] /\ UNCHANGED db /\ op[o].pc \in {"queued", "fetching"}
    BY <1>4 DEF FetchFails, Cancel
  <2>2. op[o].work \in {"none", "starting", "ended"}
    BY <1>1, <2>1 DEF Local
  <2>3. Stage(op[o]) \in {"asked", "answered"}
    BY <1>1, <2>1, <2>2, AnsAsked, AnsAnswered
  <2> QED
    BY <1>1, <2>1, <2>3, AnsLost, IdleType, TicketsLose
<1> QED
  BY <1>2, <1>3, <1>4

(* A crash loses every call of the process that was not lost already.      *)
LEMMA AtomicCrash ==
    ASSUME Inv, NEW p \in Process, Crash(p)
    PROVE  \E S \in SUBSET Op : Atomic!Lose(S)
<1> DEFINE S == {o \in Op : Ans(op'[o]) # Ans(op[o])}
<1>1. TypeOK /\ UNCHANGED db
  BY DEF Inv, Crash
<1>2. ASSUME NEW o \in S
      PROVE  /\ Stage(op[o]) \in {"asked", "answered"}
             /\ Ans(op'[o]) = Atomic!Blank("lost")
  <2>1. /\ o \in Op /\ op[o] \in CallState /\ Local(o) /\ Ans(op'[o]) # Ans(op[o])
    BY <1>1, <1>2 DEF Inv, TypeOK
  <2>2. op'[o] = Lost /\ op[o].client \in Client
    BY <2>1 DEF Crash
  <2>3. Ans(op'[o]) = Atomic!Blank("lost")
    BY <2>2, AnsLost
  <2>4. op[o].pc \notin {"idle", "done"}
    BY <2>1, <2>2, SqliteAssumption DEF Local
  <2>5. ASSUME Stage(op[o]) = "lost" PROVE FALSE
    <3>1. op[o].work # "ended"
      BY <2>1, <2>4, <2>5, AnsAnswered
    <3>2. op[o].claim = None /\ op[o].seen = {}
      BY <2>1, <2>4, <3>1 DEF Local
    <3> QED
      BY <2>1, <2>3, <2>5, <3>2 DEF Ans, Atomic!Blank
  <2>6. Stage(op[o]) \in {"lost", "answered", "asked"}
    BY <2>4 DEF Stage
  <2> QED
    BY <2>3, <2>5, <2>6
<1>3. \A o \in Op \ S : Ans(op'[o]) = Ans(op[o])
  OBVIOUS
<1> HIDE DEF S
<1>4. S \in SUBSET Op
  BY DEF S
<1> QED
  BY <1>1, <1>2, <1>3, <1>4, TicketsLost

(* The first opening stamps; the later ones change nothing.                *)
LEMMA AtomicStamp ==
    ASSUME Inv, NEW c \in Client, OpenCommit(c)
    PROVE  (\E v \in Format : Atomic!Stamp(v)) \/ UNCHANGED Atomic!dvars
<1>1. /\ phase[c] = "stamping" /\ Opened(c) /\ TypeOK /\ UNCHANGED op
      /\ db' = IF db.stamp = None THEN [db EXCEPT !.stamp = format[c]] ELSE db
  BY DEF OpenCommit, Inv
<1>2. Tickets' = Tickets
  BY <1>1 DEF Tickets, Answer, Progress
<1>3. CASE db.stamp = None
  <2> PICK v : v = format[c]
    OBVIOUS
  <2>1. v \in Format /\ db \in Database
    BY <1>1 DEF Opened, TypeOK
  <2>2. /\ db'.stamp = v /\ db'.rows = db.rows /\ db'.moved = db.moved
        /\ db'.winner = db.winner
    BY <1>1, <1>3, <2>1 DEF Database
  <2>3. Kept(db)' = Kept(db)
    BY <2>2 DEF Kept
  <2>4. Atomic!Stamp(v)
    BY <1>2, <1>3, <2>2, <2>3 DEF Tickets, Atomic!Stamp
  <2> QED
    BY <2>1, <2>4
<1>4. CASE db.stamp # None
  <2>1. db' = db /\ Kept(db)' = Kept(db)
    BY <1>1, <1>4 DEF Kept
  <2> QED
    BY <1>2, <2>1 DEF Tickets, Atomic!dvars
<1> QED
  BY <1>3, <1>4

LEMMA AtomicStep ==
    ASSUME Inv, [Next]_svars PROVE [Atomic!DNext]_(Atomic!dvars)
<1>1. ASSUME NEW S \in SUBSET Op, Atomic!Lose(S) PROVE Atomic!DNext
  BY <1>1, AtomicOp DEF Atomic!DNext
<1>2. ASSUME UNCHANGED <<db, op>> PROVE UNCHANGED Atomic!dvars
  BY <1>2 DEF Atomic!dvars, Answer, Progress, Kept
<1>3. ASSUME NEW c \in Client,
             Initialize(c) \/ OpenFails(c) \/ \E v \in Format : Open(c, v)
      PROVE  UNCHANGED Atomic!dvars
  <2>1. UNCHANGED <<db, op>>
    BY <1>3 DEF Initialize, OpenFails, Open
  <2> QED
    BY <1>2, <2>1
<1>4. ASSUME NEW c \in Client, OpenCommit(c) PROVE [Atomic!DNext]_(Atomic!dvars)
  <2>1. (\E v \in Format : Atomic!Stamp(v)) => Atomic!DNext
    BY DEF Atomic!DNext
  <2> QED
    BY <1>4, <2>1, AtomicStamp
<1>5. ASSUME NEW o \in Op, Acquire(o) \/ BeginImmediate(o) \/ Execute(o)
      PROVE  UNCHANGED Atomic!dvars
  BY <1>5, AtomicMove
<1>6. ASSUME NEW o \in Op, Commit(o) PROVE Atomic!DNext
  BY <1>6, AtomicCommit DEF Atomic!DNext
<1>7. ASSUME NEW o \in Op, Fetch(o) PROVE Atomic!DNext
  BY <1>7, AtomicRead DEF Atomic!DNext
<1>8. ASSUME NEW o \in Op, Return(o) \/ FetchReturn(o) PROVE [Atomic!DNext]_(Atomic!dvars)
  <2>1. Atomic!Give(o) => Atomic!DNext
    BY AtomicOp DEF Atomic!DNext
  <2>2. Atomic!Lose({o}) => Atomic!DNext
    BY <1>1
  <2> QED
    BY <1>8, <2>1, <2>2, AtomicReturn
<1>9. ASSUME NEW o \in Op, WorkFails(o) \/ Refuses(o) \/ FetchFails(o) PROVE Atomic!DNext
  <2>1. Atomic!Lose({o})
    BY <1>9, AtomicLose
  <2> QED
    BY <1>1, <2>1
<1>10. ASSUME NEW o \in Op, Cancel(o) PROVE [Atomic!DNext]_(Atomic!dvars)
  <2>1. CASE op[o].pc = "working"
    BY <1>10, <2>1, AtomicMove
  <2>2. CASE op[o].pc # "working"
    <3>1. Atomic!Lose({o})
      BY <1>10, <2>2, AtomicLose
    <3> QED
      BY <1>1, <3>1
  <2> QED
    BY <2>1, <2>2
<1>11. ASSUME NEW o \in Op, NEW c \in Client, Begin(o, c) PROVE Atomic!DNext
  BY <1>11, AtomicOp, AtomicAsk DEF Atomic!DNext
<1>12. ASSUME NEW p \in Process, Crash(p) PROVE Atomic!DNext
  BY <1>1, <1>12, AtomicCrash
<1>13. ASSUME NEW o \in Op, Step(o) PROVE [Atomic!DNext]_(Atomic!dvars)
  BY <1>5, <1>6, <1>7, <1>8, <1>9, <1>13 DEF Step
<1>14. CASE UNCHANGED svars
  BY <1>2, <1>14 DEF svars
<1> QED
  BY <1>3, <1>4, <1>9, <1>10, <1>11, <1>12, <1>13, <1>14 DEF Next, OpenStep

LEMMA AtomicInit == Init => Atomic!DInit
<1> SUFFICES ASSUME Init PROVE Atomic!DInit
  OBVIOUS
<1>1. \A o \in Op : Answer(o) = Atomic!Blank("none")
  BY DEF Init, Idle, Answer, Progress, Atomic!Blank
<1>2. db.stamp = None /\ Kept(db) = {} /\ db.winner = None
  BY DEF Init, Empty, Kept
<1> QED
  BY <1>1, <1>2, AtomicOp DEF Atomic!DInit

(* For every number of processes, clients and calls, with threads that     *)
(* outlive their event loop, and whatever fails, is cancelled or crashes,  *)
(* the database acts as one atomic document (run_immediate).               *)
THEOREM DatabaseImplementsDocument == Spec => ActsAsDocument
<1>1. Inv /\ [Next]_svars => [Atomic!DNext]_(Atomic!dvars)
  BY AtomicStep
<1> QED
  BY <1>1, InvAlways, AtomicInit, PTL DEF Spec, ActsAsDocument, Atomic!DSpec

=============================================================================
