-------------------------- MODULE FileStoreProofs --------------------------
(***************************************************************************)
(* FileStore, for every number of calls, clients, processes and formats,    *)
(* whether or not clients are opened while their process updates, as long   *)
(* as no event loop is torn down under a worker.                            *)
(***************************************************************************)
EXTENDS FileStore, TLAPS

(* Where a call is decides what it has: a client that is open, the client's *)
(* lock, the lock file, a worker.                                           *)
Placed(o) ==
    /\ op[o].pc \notin {"idle"} \cup Ended =>
          op[o].client \in Client /\ phase[op[o].client] = "open"
    /\ op[o].pc \in {"queued", "locking", "held", "working"} => o \in Updates
    /\ op[o].pc \in {"locking", "held", "working"} => mutex[op[o].client] = o
    /\ op[o].pc \in Held => flock.by = op[o].client
    /\ o \in Updates /\ op[o].pc # "working" => op[o].work = "none"
    /\ o \in Reads => op[o].work # "replacing"

(* What is being written is the document with the call's own change.        *)
Current(o) ==
    op[o].work = "replacing" => op[o].view = Applied(o) /\ Changes(o)

(* The lock file is taken once, and by one that has use for it.             *)
Guarded ==
    /\ flock.by = None => flock.depth = 0
    /\ \A c \in Client :
        /\ phase[c] \in {"sweeping", "stamping"} => flock.by = c
        /\ flock.by = c =>
             /\ flock.depth = 1
             /\ \/ phase[c] \in {"sweeping", "stamping"}
                \/ mutex[c] \in Updates /\ op[mutex[c]].client = c /\ op[mutex[c]].pc \in Held

Stamped ==
    /\ doc.stamp = None => doc = Missing
    /\ \A c \in Client :
        /\ phase[c] \notin {"new", "gone"} => format[c] \in Format
        /\ phase[c] = "stamping" => doc.stamp = None

Inv ==
    /\ TypeOK
    /\ \A o \in Op : Placed(o) /\ Current(o)
    /\ Guarded
    /\ Stamped
    /\ TemporariesAreOwned
    /\ OwnFormat

LEMMA InvInit == Init => Inv
  BY StoreAssumption
  DEF Init, Inv, TypeOK, Document, Missing, CallState, Idle, Held, Ended, Opening, Placed,
      Current, Guarded, Stamped, TemporariesAreOwned, OwnFormat, Op, Updates

(* Two that are writing would both have the lock file.                      *)
LEMMA InvOneWriter == Inv => OneWriter
<1> SUFFICES ASSUME Inv, NEW x \in Writing, NEW y \in Writing PROVE x = y
  BY DEF OneWriter
<1>1. ASSUME NEW o \in Updates, op[o].work \in {"reading", "replacing"}
      PROVE  /\ op[o].client \in Client /\ phase[op[o].client] = "open"
             /\ mutex[op[o].client] = o /\ flock.by = op[o].client
  BY <1>1 DEF Inv, Placed, Held, Ended, Op, Updates
<1>2. ASSUME NEW c \in Client, phase[c] \in {"sweeping", "stamping"}
      PROVE  flock.by = c
  BY <1>2 DEF Inv, Guarded
<1> QED
  BY <1>1, <1>2 DEF Writing

-----------------------------------------------------------------------------
LEMMA CallStep ==
    ASSUME TypeOK, NEW o \in Op, NEW x \in CallState, op' = [op EXCEPT ![o] = x]
    PROVE  /\ op' \in [Op -> CallState]
           /\ op'[o] = x
           /\ \A u \in Op : u # o => op'[u] = op[u]
  BY DEF TypeOK

LEMMA OverType ==
    ASSUME TypeOK, NEW o \in Op, NEW s \in Ended
    PROVE  /\ Over(o, s) \in CallState
           /\ Over(o, s).pc = s
           /\ Over(o, s).work = IF Settled(o) THEN "none" ELSE op[o].work
           /\ Over(o, s).view = op[o].view
<1>1. op[o] \in CallState
  BY DEF TypeOK
<1> QED
  BY <1>1, StoreAssumption DEF CallState, Over

(* The holder of the lock file gives it back whole.                         *)
LEMMA UnlockedFree ==
    ASSUME Inv, NEW c \in Client, flock.by = c
    PROVE  Unlocked = [by |-> None, depth |-> 0]
  BY DEF Inv, Guarded, Unlocked

(* A step of one call that writes nothing.                                  *)
LEMMA InvCall ==
    ASSUME Inv, NEW o \in Op, NEW x \in CallState, op' = [op EXCEPT ![o] = x],
           UNCHANGED <<doc, temps, phase, format>>,
           flock' \in [by : Client \cup {None}, depth : Nat],
           mutex' \in [Client -> Updates \cup {None}],
           x.work = "replacing" <=> op[o].work = "replacing",
           x.work = "replacing" => x.view = op[o].view,
           op[o].pc # "crashed",
           Placed(o)',
           \A u \in Op : u # o => Placed(u)',
           Guarded'
    PROVE  Inv'
<1>t. TypeOK
  BY DEF Inv
<1>1. /\ op' \in [Op -> CallState] /\ op'[o] = x
      /\ \A u \in Op : u # o => op'[u] = op[u]
  BY <1>t, CallStep
<1>2. TypeOK'
  BY <1>t, <1>1 DEF TypeOK
<1>3. ASSUME NEW u \in Op PROVE Current(u)'
  <2>1. Current(u) /\ Applied(u)' = Applied(u) /\ (Changes(u)' <=> Changes(u))
    BY DEF Inv, Applied, Changes
  <2>2. /\ op'[u].work = "replacing" <=> op[u].work = "replacing"
        /\ op'[u].work = "replacing" => op'[u].view = op[u].view
    BY <1>1
  <2> QED
    BY <2>1, <2>2 DEF Current
<1>4. TemporariesAreOwned'
  <2>1. \A u \in Updates : /\ op'[u].work = "replacing" <=> op[u].work = "replacing"
                           /\ op[u].pc = "crashed" => op'[u].pc = "crashed"
    BY <1>1 DEF Op, Updates
  <2> QED
    BY <2>1 DEF Inv, TemporariesAreOwned
<1>5. Stamped' /\ OwnFormat'
  BY DEF Inv, Stamped, OwnFormat
<1> QED
  BY <1>1, <1>2, <1>3, <1>4, <1>5 DEF Inv

(* The lock file stays as it is while the call that has it stays.           *)
LEMMA GuardedFrame ==
    ASSUME Inv, NEW o \in Op, UNCHANGED <<flock, phase>>,
           \A c \in Client : mutex[c] \in Updates /\ op[mutex[c]].pc \in Held => mutex'[c] = mutex[c],
           \A u \in Op : u # o => op'[u] = op[u],
           op[o].pc \in Held => op'[o].pc \in Held /\ op'[o].client = op[o].client
    PROVE  Guarded'
<1>1. ASSUME NEW c \in Client, flock.by = c, phase[c] \notin {"sweeping", "stamping"}
      PROVE  mutex'[c] \in Updates /\ op'[mutex'[c]].client = c /\ op'[mutex'[c]].pc \in Held
  <2>1. mutex[c] \in Updates /\ op[mutex[c]].client = c /\ op[mutex[c]].pc \in Held
    BY <1>1 DEF Inv, Guarded
  <2>2. mutex'[c] = mutex[c] /\ mutex[c] \in Op
    BY <2>1 DEF Op, Updates
  <2> QED
    BY <2>1, <2>2
<1> QED
  BY <1>1 DEF Inv, Guarded

(* The holder leaves: nobody holds the lock file.                           *)
LEMMA GuardedFree ==
    ASSUME Inv, NEW k \in Client, flock.by = k, flock' = [by |-> None, depth |-> 0],
           \A c \in Client : phase'[c] \in {"sweeping", "stamping"} =>
                               c # k /\ phase[c] \in {"sweeping", "stamping"}
    PROVE  Guarded'
  BY StoreAssumption DEF Inv, Guarded

LEMMA InvBegin ==
    ASSUME Inv, NEW o \in Op, NEW c \in Client, Begin(o, c) PROVE Inv'
<1> DEFINE x == IF o \in Reads
                THEN [Idle EXCEPT !.pc = "fetching", !.work = "reading", !.client = c]
                ELSE [Idle EXCEPT !.pc = "queued", !.client = c]
<1>t. TypeOK /\ Placed(o)
  BY DEF Inv
<1>1. /\ op[o].pc = "idle" /\ phase[c] = "open"
      /\ op' = [op EXCEPT ![o] = x]
      /\ UNCHANGED <<doc, temps, flock, mutex, phase, format>>
  BY DEF Begin
<1>2. x \in CallState /\ x.view = Missing /\ x.work \in {"none", "reading"} /\ x.client = c
      /\ (o \in Reads => x.pc = "fetching" /\ x.work = "reading")
      /\ (o \notin Reads => x.pc = "queued" /\ x.work = "none")
  BY StoreAssumption DEF CallState, Idle, Missing, Document
<1> HIDE DEF x
<1>3. /\ op'[o] = x /\ \A u \in Op : u # o => op'[u] = op[u]
  BY <1>t, <1>1, <1>2, CallStep
<1>4. op[o].work # "replacing"
  BY <1>t, <1>1 DEF Placed, Op, Updates
<1>5. Placed(o)'
  BY <1>1, <1>2, <1>3, StoreAssumption DEF Placed, Held, Ended, Op, Updates
<1>6. \A u \in Op : u # o => Placed(u)'
  BY <1>1, <1>3 DEF Inv, Placed
<1>7. Guarded'
  BY <1>1, <1>3, GuardedFrame DEF Held
<1> QED
  BY <1>t, <1>1, <1>2, <1>3, <1>4, <1>5, <1>6, <1>7, InvCall DEF TypeOK

LEMMA InvQueue ==
    ASSUME Inv, NEW o \in Op, Queue(o) PROVE Inv'
<1> DEFINE c == op[o].client
           x == [op[o] EXCEPT !.pc = "locking"]
<1>t. TypeOK /\ Placed(o) /\ op[o] \in CallState
  BY DEF Inv, TypeOK
<1>1. /\ op[o].pc = "queued" /\ mutex[c] = None
      /\ op' = [op EXCEPT ![o] = x]
      /\ mutex' = [mutex EXCEPT ![c] = o]
      /\ UNCHANGED <<doc, temps, flock, phase, format>>
  BY DEF Queue
<1>2. x \in CallState /\ x.view = op[o].view /\ x.work = op[o].work /\ x.client = c
      /\ x.pc = "locking"
  BY <1>t DEF CallState
<1>3. c \in Client /\ phase[c] = "open" /\ o \in Updates /\ op[o].work = "none"
  BY <1>t, <1>1 DEF Placed, Ended, Held, Op, Updates
<1> HIDE DEF x, c
<1>4. /\ op'[o] = x /\ \A u \in Op : u # o => op'[u] = op[u]
  BY <1>t, <1>1, <1>2, CallStep
<1>5. mutex' \in [Client -> Updates \cup {None}] /\ mutex'[c] = o
      /\ \A k \in Client : k # c => mutex'[k] = mutex[k]
  BY <1>t, <1>1, <1>3 DEF TypeOK
<1>6. Placed(o)'
  BY <1>1, <1>2, <1>3, <1>4, <1>5, StoreAssumption DEF Placed, Held, Ended, Op, Updates
<1>7. ASSUME NEW u \in Op, u # o PROVE Placed(u)'
  <2>1. Placed(u) /\ op'[u] = op[u]
    BY <1>4, <1>7 DEF Inv
  <2>2. op[u].pc \in {"locking", "held", "working"} => op[u].client \in Client /\ op[u].client # c
    BY <1>1, <2>1, StoreAssumption DEF Placed, Held, Ended, Op, Updates
  <2> QED
    BY <1>1, <1>5, <2>1, <2>2 DEF Placed, Held
<1>8. Guarded'
  BY <1>1, <1>4, <1>5, <1>t, GuardedFrame, StoreAssumption DEF Held, Op, Updates
<1> QED
  BY <1>t, <1>1, <1>2, <1>4, <1>5, <1>6, <1>7, <1>8, InvCall DEF TypeOK

LEMMA InvLock ==
    ASSUME Inv, NEW o \in Op, Lock(o) PROVE Inv'
<1> DEFINE c == op[o].client
           x == [op[o] EXCEPT !.pc = "held"]
<1>t. TypeOK /\ Placed(o) /\ op[o] \in CallState
  BY DEF Inv, TypeOK
<1>1. /\ op[o].pc = "locking" /\ flock.by \in {None, c}
      /\ op' = [op EXCEPT ![o] = x]
      /\ flock' = Locked(c)
      /\ UNCHANGED <<doc, temps, mutex, phase, format>>
  BY DEF Lock
<1>2. x \in CallState /\ x.view = op[o].view /\ x.work = op[o].work /\ x.client = c
      /\ x.pc = "held"
  BY <1>t DEF CallState, Held
<1>3. c \in Client /\ phase[c] = "open" /\ o \in Updates /\ mutex[c] = o /\ op[o].work = "none"
  BY <1>t, <1>1 DEF Placed, Ended, Held, Op, Updates
<1>4. flock.by = None
  BY <1>1, <1>3 DEF Inv, Guarded, Held
<1>5. flock' = [by |-> c, depth |-> 1]
  BY <1>1, <1>4 DEF Locked, Inv, Guarded
<1> HIDE DEF x, c
<1>6. /\ op'[o] = x /\ \A u \in Op : u # o => op'[u] = op[u]
  BY <1>t, <1>1, <1>2, CallStep
<1>7. Placed(o)'
  BY <1>1, <1>2, <1>3, <1>5, <1>6, StoreAssumption DEF Placed, Held, Ended, Op, Updates
<1>8. ASSUME NEW u \in Op, u # o PROVE Placed(u)'
  <2>1. Placed(u) /\ op'[u] = op[u]
    BY <1>6, <1>8 DEF Inv
  <2>2. op[u].pc \notin Held
    BY <1>4, <2>1, StoreAssumption DEF Placed, Held, Ended
  <2> QED
    BY <1>1, <2>1, <2>2 DEF Placed
<1>9. Guarded'
  <2>1. \A k \in Client : phase[k] \notin {"sweeping", "stamping"}
    BY <1>4, StoreAssumption DEF Inv, Guarded
  <2>2. flock'.by = c /\ flock'.depth = 1 /\ mutex'[c] = o /\ op'[o].client = c
        /\ op'[o].pc \in Held /\ c # None
    BY <1>1, <1>2, <1>3, <1>5, <1>6, StoreAssumption DEF Held
  <2>3. UNCHANGED phase
    BY <1>1
  <2>4. ASSUME NEW k \in Client, flock'.by = k
        PROVE  mutex'[k] \in Updates /\ op'[mutex'[k]].client = k /\ op'[mutex'[k]].pc \in Held
    BY <1>3, <2>2, <2>4
  <2>5. \A k \in Client : phase'[k] \notin {"sweeping", "stamping"}
    BY <2>1, <2>3
  <2>6. flock'.by # None /\ flock'.depth = 1
    BY <2>2
  <2> HIDE DEF Held
  <2> QED
    BY <2>4, <2>5, <2>6 DEF Guarded
<1>10. /\ flock' \in [by : Client \cup {None}, depth : Nat]
       /\ mutex' \in [Client -> Updates \cup {None}]
  BY <1>t, <1>1, <1>3, <1>5 DEF TypeOK
<1> QED
  BY <1>1, <1>2, <1>7, <1>8, <1>9, <1>10, InvCall

LEMMA InvStartWorker ==
    ASSUME Inv, NEW o \in Op, StartWorker(o) PROVE Inv'
<1> DEFINE x == [op[o] EXCEPT !.pc = "working", !.work = "reading"]
<1>t. TypeOK /\ Placed(o) /\ op[o] \in CallState
  BY DEF Inv, TypeOK
<1>1. /\ op[o].pc = "held"
      /\ op' = [op EXCEPT ![o] = x]
      /\ UNCHANGED <<doc, temps, flock, mutex, phase, format>>
  BY DEF StartWorker
<1>2. x \in CallState /\ x.view = op[o].view /\ x.work = "reading" /\ x.client = op[o].client
      /\ x.pc = "working"
  BY <1>t DEF CallState, Held
<1>3. o \in Updates /\ op[o].work = "none" /\ op[o].client \in Client
  BY <1>t, <1>1 DEF Placed, Ended, Held, Op, Updates
<1> HIDE DEF x
<1>4. /\ op'[o] = x /\ \A u \in Op : u # o => op'[u] = op[u]
  BY <1>t, <1>1, <1>2, CallStep
<1>5. Placed(o)'
  BY <1>t, <1>1, <1>2, <1>3, <1>4 DEF Placed, Held, Ended
<1>6. \A u \in Op : u # o => Placed(u)'
  BY <1>1, <1>4 DEF Inv, Placed
<1>7. Guarded'
  BY <1>1, <1>2, <1>4, GuardedFrame DEF Held
<1> QED
  BY <1>t, <1>1, <1>2, <1>3, <1>4, <1>5, <1>6, <1>7, InvCall DEF TypeOK

(* A call that has the client's lock lets it go, and the lock file with it. *)
LEMMA InvRelease ==
    ASSUME Inv, NEW o \in Op, NEW s \in {"cancelled", "failed", "done"},
           op[o].pc \in Held, op[o].work # "replacing",
           op[o].pc = "working" => Settled(o),
           op' = [op EXCEPT ![o] = Over(o, s)],
           mutex' = [mutex EXCEPT ![op[o].client] = None],
           flock' = Unlocked,
           UNCHANGED <<doc, temps, phase, format>>
    PROVE  Inv'
<1> DEFINE c == op[o].client
<1>t. TypeOK /\ Placed(o)
  BY DEF Inv
<1>1. /\ Over(o, s) \in CallState /\ Over(o, s).pc = s
      /\ Over(o, s).work = (IF Settled(o) THEN "none" ELSE op[o].work)
  BY <1>t, OverType DEF Ended
<1>2. /\ c \in Client /\ phase[c] = "open" /\ o \in Updates /\ mutex[c] = o /\ flock.by = c
      /\ op[o].pc # "working" => op[o].work = "none"
  BY <1>t DEF Placed, Ended, Held
<1>3. Over(o, s).work = "none"
  BY <1>1, <1>2 DEF Settled, Held
<1>4. flock' = [by |-> None, depth |-> 0]
  BY <1>2, UnlockedFree
<1>5. /\ op'[o] = Over(o, s) /\ \A u \in Op : u # o => op'[u] = op[u]
  BY <1>t, <1>1, CallStep
<1>6. Placed(o)'
  BY <1>1, <1>3, <1>5 DEF Placed, Held, Ended
<1>7. ASSUME NEW u \in Op, u # o PROVE Placed(u)'
  <2>1. Placed(u) /\ op'[u] = op[u]
    BY <1>5, <1>7 DEF Inv
  <2>2. op[u].pc \in {"locking", "held", "working"} => op[u].client \in Client /\ op[u].client # c
    BY <1>2, <1>7, <2>1 DEF Placed, Held, Ended
  <2>3. op[u].pc \notin Held
    BY <1>2, <2>1, <2>2 DEF Placed, Held
  <2>4. op[u].pc = "locking" => mutex'[op[u].client] = mutex[op[u].client]
    BY <1>t, <1>2, <2>2 DEF TypeOK
  <2> QED
    BY <2>1, <2>3, <2>4 DEF Placed, Held
<1>8. Guarded'
  BY <1>2, <1>4, GuardedFree
<1>9. /\ flock' \in [by : Client \cup {None}, depth : Nat]
      /\ mutex' \in [Client -> Updates \cup {None}]
  BY <1>t, <1>2, <1>4 DEF TypeOK
<1>10. op[o].pc # "crashed" /\ Over(o, s).work # "replacing"
  BY <1>3 DEF Held
<1> HIDE DEF c
<1> QED
  BY <1>1, <1>6, <1>7, <1>8, <1>9, <1>10, InvCall

LEMMA InvReturn ==
    ASSUME ~Teardown, Inv, NEW o \in Op, Return(o) PROVE Inv'
<1>1. PICK s \in {"cancelled", "failed", "done"} : op' = [op EXCEPT ![o] = Over(o, s)]
  BY DEF Return
<1> QED
  BY <1>1, InvRelease DEF Return, Leaves, Held, Settled

(* A call that has neither lock ends.                                       *)
LEMMA InvEnd ==
    ASSUME Inv, NEW o \in Op, NEW s \in {"cancelled", "failed", "done"},
           op[o].pc \in {"queued", "fetching", "locking"},
           op' = [op EXCEPT ![o] = Over(o, s)],
           mutex' = IF op[o].pc = "locking" THEN [mutex EXCEPT ![op[o].client] = None] ELSE mutex,
           UNCHANGED <<doc, temps, flock, phase, format>>
    PROVE  Inv'
<1> DEFINE c == op[o].client
<1>t. TypeOK /\ Placed(o)
  BY DEF Inv
<1>1. /\ Over(o, s) \in CallState /\ Over(o, s).pc = s
      /\ Over(o, s).work = (IF Settled(o) THEN "none" ELSE op[o].work)
      /\ Over(o, s).view = op[o].view
  BY <1>t, OverType DEF Ended
<1>2. /\ c \in Client /\ phase[c] = "open"
      /\ o \in Updates => op[o].work = "none"
      /\ op[o].work # "replacing"
      /\ op[o].pc = "locking" => mutex[c] = o
  BY <1>t DEF Placed, Ended, Held, Op, Updates
<1>3. /\ Over(o, s).work # "replacing"
      /\ o \in Updates => Over(o, s).work = "none"
  BY <1>1, <1>2
<1>5. /\ op'[o] = Over(o, s) /\ \A u \in Op : u # o => op'[u] = op[u]
  BY <1>t, <1>1, CallStep
<1>6. Placed(o)'
  BY <1>1, <1>3, <1>5 DEF Placed, Held, Ended
<1>7. ASSUME NEW u \in Op, u # o PROVE Placed(u)'
  <2>1. Placed(u) /\ op'[u] = op[u]
    BY <1>5, <1>7 DEF Inv
  <2>2. op[u].pc \in {"locking", "held", "working"} =>
          op[u].client \in Client /\ mutex[op[u].client] = u
    BY <2>1 DEF Placed, Held, Ended
  <2>3. op[u].pc \in {"locking", "held", "working"} =>
          mutex'[op[u].client] = mutex[op[u].client]
    BY <1>t, <1>2, <1>7, <2>2 DEF TypeOK
  <2> QED
    BY <2>1, <2>2, <2>3 DEF Placed
<1>8. Guarded'
  <2>1. \A k \in Client : mutex[k] \in Updates /\ op[mutex[k]].pc \in Held => mutex'[k] = mutex[k]
    BY <1>t, <1>2 DEF TypeOK, Held
  <2> QED
    BY <1>5, <2>1, GuardedFrame DEF Held
<1>9. /\ flock' \in [by : Client \cup {None}, depth : Nat]
      /\ mutex' \in [Client -> Updates \cup {None}]
  BY <1>t, <1>2 DEF TypeOK
<1>10. op[o].pc # "crashed"
  OBVIOUS
<1> HIDE DEF c
<1> QED
  BY <1>1, <1>2, <1>3, <1>6, <1>7, <1>8, <1>9, <1>10, InvCall

LEMMA InvEnds ==
    ASSUME Inv, NEW o \in Op, FetchFails(o) \/ FetchReturn(o) \/ CancelQueued(o) PROVE Inv'
<1>1. /\ op[o].pc \in {"queued", "fetching"} /\ UNCHANGED <<doc, temps, flock, mutex, phase, format>>
      /\ \E s \in {"cancelled", "failed", "done"} : op' = [op EXCEPT ![o] = Over(o, s)]
  BY DEF FetchFails, FetchReturn, CancelQueued
<1> QED
  BY <1>1, InvEnd

LEMMA InvCancelLocking ==
    ASSUME Inv, NEW o \in Op, CancelLocking(o) PROVE Inv'
<1>1. /\ op' = [op EXCEPT ![o] = Over(o, "cancelled")]
      /\ mutex' = [mutex EXCEPT ![op[o].client] = None]
      /\ UNCHANGED <<doc, temps, phase, format>>
  BY DEF CancelLocking, GivenBack
<1>2. CASE op[o].pc = "held"
  <2>1. flock' = Unlocked
    BY <1>2 DEF CancelLocking
  <2>2. op[o].work # "replacing"
    BY <1>2 DEF Inv, Placed, Op, Updates
  <2> QED
    BY <1>1, <1>2, <2>1, <2>2, InvRelease DEF Held
<1>3. CASE op[o].pc = "locking"
  <2>1. UNCHANGED flock
    BY <1>3 DEF CancelLocking
  <2> QED
    BY <1>1, <1>3, <2>1, InvEnd
<1> QED
  BY <1>2, <1>3 DEF CancelLocking

(* A call that stays where it is.                                           *)
LEMMA InvFetch ==
    ASSUME Inv, NEW o \in Op, Fetch(o) \/ CancelWorking(o) PROVE Inv'
<1>t. TypeOK /\ Placed(o) /\ op[o] \in CallState
  BY DEF Inv, TypeOK
<1>1. PICK x \in CallState :
        /\ op' = [op EXCEPT ![o] = x]
        /\ x.pc = op[o].pc /\ x.client = op[o].client /\ x.view = op[o].view
        /\ \/ x.work = op[o].work
           \/ op[o].pc = "fetching" /\ op[o].work = "reading" /\ x.work = "ended"
  <2>1. CASE Fetch(o)
    <3> DEFINE y == [op[o] EXCEPT !.work = "ended", !.seen = doc.kept]
    <3>1. /\ y \in CallState /\ y.pc = op[o].pc /\ y.client = op[o].client
          /\ y.view = op[o].view /\ y.work = "ended"
      BY <1>t DEF CallState, TypeOK, Document
    <3>2. op' = [op EXCEPT ![o] = y]
      BY <2>1 DEF Fetch
    <3> HIDE DEF y
    <3> QED
      BY <2>1, <3>1, <3>2 DEF Fetch
  <2>2. CASE CancelWorking(o)
    <3> DEFINE y == [op[o] EXCEPT !.cancelled = TRUE]
    <3>1. /\ y \in CallState /\ y.pc = op[o].pc /\ y.client = op[o].client
          /\ y.view = op[o].view /\ y.work = op[o].work
      BY <1>t DEF CallState
    <3>2. op' = [op EXCEPT ![o] = y]
      BY <2>2 DEF CancelWorking
    <3> HIDE DEF y
    <3> QED
      BY <3>1, <3>2
  <2> QED
    BY <2>1, <2>2
<1>2. UNCHANGED <<doc, temps, flock, mutex, phase, format>> /\ op[o].pc \in {"fetching", "working"}
  BY DEF Fetch, CancelWorking
<1>3. /\ op'[o] = x /\ \A u \in Op : u # o => op'[u] = op[u]
  BY <1>t, <1>1, CallStep
<1>4. Placed(o)'
  BY <1>t, <1>1, <1>2, <1>3 DEF Placed, Held, Ended
<1>5. \A u \in Op : u # o => Placed(u)'
  BY <1>2, <1>3 DEF Inv, Placed
<1>6. Guarded'
  BY <1>1, <1>2, <1>3, GuardedFrame
<1> QED
  BY <1>t, <1>1, <1>2, <1>4, <1>5, <1>6, InvCall DEF TypeOK

-----------------------------------------------------------------------------
(* The worker's steps.                                                      *)
LEMMA AppliedType ==
    ASSUME TypeOK, NEW o \in Updates
    PROVE  Applied(o) \in Document /\ Applied(o).stamp = doc.stamp
  BY DEF TypeOK, Applied, Document, Updates

(* A step of a worker: the call stays where it is and keeps its locks.      *)
LEMMA InvWork ==
    ASSUME Inv, NEW o \in Updates, op[o].pc = "working",
           NEW x \in CallState, op' = [op EXCEPT ![o] = x],
           x.pc = "working", x.client = op[o].client,
           UNCHANGED <<flock, mutex, phase, format>>
    PROVE  /\ op'[o] = x /\ \A u \in Op : u # o => op'[u] = op[u]
           /\ op' \in [Op -> CallState]
           /\ \A u \in Op : Placed(u)'
           /\ Guarded'
<1>t. TypeOK /\ Placed(o) /\ o \in Op
  BY DEF Inv, Op, Updates
<1>1. /\ op'[o] = x /\ \A u \in Op : u # o => op'[u] = op[u]
      /\ op' \in [Op -> CallState]
  BY <1>t, CallStep
<1>2. \A u \in Op : u # o => Placed(u)'
  BY <1>1 DEF Inv, Placed
<1>3. Placed(o)'
  BY <1>t, <1>1, StoreAssumption DEF Placed, Held, Ended
<1>4. Guarded'
  BY <1>t, <1>1, GuardedFrame DEF Held
<1> QED
  BY <1>1, <1>2, <1>3, <1>4

LEMMA InvReadAndApply ==
    ASSUME Inv, NEW o \in Op, ReadAndApply(o) PROVE Inv'
<1>t. TypeOK /\ Placed(o) /\ op[o] \in CallState
  BY DEF Inv, TypeOK
<1>1. /\ o \in Updates /\ op[o].work = "reading" /\ op[o].pc = "working"
      /\ UNCHANGED <<doc, flock, mutex, phase, format>>
  BY <1>t DEF ReadAndApply, Placed
<1>2. \A u \in Op : Applied(u)' = Applied(u) /\ (Changes(u)' <=> Changes(u))
  BY <1>1 DEF Applied, Changes
<1>3. CASE Changes(o)
  <2> DEFINE x == [op[o] EXCEPT !.work = "replacing", !.view = Applied(o)]
  <2>1. op' = [op EXCEPT ![o] = x] /\ temps' = temps \cup {o}
    BY <1>3 DEF ReadAndApply
  <2>2. /\ x \in CallState /\ x.pc = "working" /\ x.client = op[o].client
        /\ x.work = "replacing" /\ x.view = Applied(o)
    BY <1>t, <1>1, AppliedType DEF CallState
  <2> HIDE DEF x
  <2>3. /\ op'[o] = x /\ \A u \in Op : u # o => op'[u] = op[u]
        /\ op' \in [Op -> CallState]
        /\ \A u \in Op : Placed(u)'
        /\ Guarded'
    BY <1>1, <2>1, <2>2, InvWork
  <2>4. TypeOK'
    BY <1>t, <1>1, <2>1, <2>3 DEF TypeOK
  <2>5. \A u \in Op : Current(u)'
    BY <1>2, <1>3, <2>2, <2>3 DEF Inv, Current
  <2>6. TemporariesAreOwned'
    <3>1. \A u \in Updates : u # o => op'[u] = op[u]
      BY <2>3 DEF Op, Updates
    <3>2. o \notin Client
      BY StoreAssumption
    <3>3. UNCHANGED phase /\ op'[o].work = "replacing" /\ temps' = temps \cup {o}
      BY <1>1, <2>1, <2>2, <2>3
    <3> QED
      BY <3>1, <3>2, <3>3 DEF Inv, TemporariesAreOwned
  <2> QED
    BY <1>1, <2>3, <2>4, <2>5, <2>6 DEF Inv, Stamped, OwnFormat
<1>4. CASE ~Changes(o)
  <2> DEFINE x == [op[o] EXCEPT !.work = "ended", !.claim = doc.winner]
  <2>1. op' = [op EXCEPT ![o] = x] /\ temps' = temps
    BY <1>4 DEF ReadAndApply
  <2>2. /\ x \in CallState /\ x.pc = "working" /\ x.client = op[o].client
        /\ x.work = "ended"
    BY <1>t, <1>1 DEF CallState, TypeOK, Document
  <2> HIDE DEF x
  <2>3. /\ \A u \in Op : Placed(u)'
        /\ Guarded'
    BY <1>1, <2>1, <2>2, InvWork
  <2>4. /\ flock' \in [by : Client \cup {None}, depth : Nat]
        /\ mutex' \in [Client -> Updates \cup {None}]
    BY <1>t, <1>1 DEF TypeOK
  <2>5. /\ UNCHANGED <<doc, temps, phase, format>> /\ op[o].pc # "crashed"
        /\ x.work # "replacing" /\ op[o].work # "replacing"
    BY <1>1, <2>1, <2>2
  <2> QED
    BY <2>1, <2>2, <2>3, <2>4, <2>5, InvCall
<1> QED
  BY <1>3, <1>4

LEMMA InvReplace ==
    ASSUME Inv, NEW o \in Op, Replace(o) PROVE Inv'
<1>t. TypeOK /\ Placed(o) /\ op[o] \in CallState /\ OneWriter
  BY InvOneWriter DEF Inv, TypeOK
<1>1. /\ o \in Updates /\ op[o].work = "replacing" /\ op[o].pc = "working"
      /\ op[o].client \in Client /\ phase[op[o].client] = "open"
      /\ doc' = Applied(o) /\ temps' = temps \ {o}
      /\ UNCHANGED <<flock, mutex, phase, format>>
  BY <1>t DEF Replace, Placed, Inv, Current, Op, Updates, Ended
<1> DEFINE x == [op[o] EXCEPT !.work = "ended", !.view = Missing,
                              !.claim = IF o \in Claims THEN o ELSE None]
<1>2. op' = [op EXCEPT ![o] = x]
  BY DEF Replace
<1>3. /\ x \in CallState /\ x.pc = "working" /\ x.client = op[o].client /\ x.work = "ended"
  BY <1>t, <1>1 DEF CallState, Missing, Document
<1> HIDE DEF x
<1>4. /\ op'[o] = x /\ \A u \in Op : u # o => op'[u] = op[u]
      /\ op' \in [Op -> CallState]
      /\ \A u \in Op : Placed(u)'
      /\ Guarded'
  BY <1>1, <1>2, <1>3, InvWork
<1>5. doc' \in Document /\ doc'.stamp = doc.stamp
  BY <1>t, <1>1, AppliedType
<1>6. TypeOK'
  BY <1>t, <1>1, <1>4, <1>5 DEF TypeOK
<1>7. ASSUME NEW u \in Op, u # o PROVE op[u].work # "replacing"
  <2>1. op[u].work = "replacing" => u \in Updates
    BY DEF Inv, Placed, Op, Updates
  <2> QED
    BY <1>t, <1>1, <1>7, <2>1 DEF OneWriter, Writing
<1>8. \A u \in Op : Current(u)'
  BY <1>3, <1>4, <1>7 DEF Current
<1>9. TemporariesAreOwned'
  <2>1. \A u \in Updates : u # o => op'[u] = op[u]
    BY <1>4 DEF Op, Updates
  <2>2. o \notin Client
    BY StoreAssumption
  <2> QED
    BY <1>1, <1>3, <1>4, <2>1, <2>2 DEF Inv, TemporariesAreOwned
<1>10. doc.stamp # None
  <2>1. doc.stamp = format[op[o].client]
    BY <1>1 DEF Inv, OwnFormat
  <2>2. format[op[o].client] \in Format
    BY <1>1 DEF Inv, Stamped
  <2> QED
    BY <2>1, <2>2, StoreAssumption
<1> QED
  BY <1>1, <1>4, <1>5, <1>6, <1>8, <1>9, <1>10 DEF Inv, Stamped, OwnFormat

LEMMA InvWorkFails ==
    ASSUME Inv, NEW o \in Op, WorkFails(o) PROVE Inv'
<1>t. TypeOK /\ Placed(o) /\ op[o] \in CallState
  BY DEF Inv, TypeOK
<1>1. /\ o \in Updates /\ op[o].pc = "working" /\ temps' = temps \ {o}
      /\ UNCHANGED <<doc, flock, mutex, phase, format>>
  BY <1>t DEF WorkFails, Placed
<1> DEFINE x == [op[o] EXCEPT !.work = "failed", !.view = Missing]
<1>2. op' = [op EXCEPT ![o] = x]
  BY DEF WorkFails
<1>3. /\ x \in CallState /\ x.pc = "working" /\ x.client = op[o].client /\ x.work = "failed"
  BY <1>t, <1>1 DEF CallState, Missing, Document
<1> HIDE DEF x
<1>4. /\ op'[o] = x /\ \A u \in Op : u # o => op'[u] = op[u]
      /\ op' \in [Op -> CallState]
      /\ \A u \in Op : Placed(u)'
      /\ Guarded'
  BY <1>1, <1>2, <1>3, InvWork
<1>5. TypeOK'
  BY <1>t, <1>1, <1>4 DEF TypeOK
<1>6. \A u \in Op : Current(u)'
  <2>1. \A u \in Op : Applied(u)' = Applied(u) /\ (Changes(u)' <=> Changes(u))
    BY <1>1 DEF Applied, Changes
  <2> QED
    BY <1>3, <1>4, <2>1 DEF Inv, Current
<1>7. TemporariesAreOwned'
  <2>1. \A u \in Updates : u # o => op'[u] = op[u]
    BY <1>4 DEF Op, Updates
  <2>2. o \notin Client
    BY StoreAssumption
  <2> QED
    BY <1>1, <1>3, <1>4, <2>1, <2>2 DEF Inv, TemporariesAreOwned
<1> QED
  BY <1>1, <1>4, <1>5, <1>6, <1>7 DEF Inv, Stamped, OwnFormat

-----------------------------------------------------------------------------
(* A process dies.                                                          *)
LEMMA InvCrash ==
    ASSUME Inv, NEW p \in Process, Crash(p) PROVE Inv'
<1> DEFINE dead == {c \in Client : Home[c] = p}
           x(o) == [Over(o, "crashed") EXCEPT !.work = "none", !.view = Missing]
<1>t. TypeOK
  BY DEF Inv
<1>1. /\ phase' = [c \in Client |-> IF c \in dead THEN "gone" ELSE phase[c]]
      /\ op' = [o \in Op |-> IF op[o].client \in dead THEN x(o) ELSE op[o]]
      /\ mutex' = [c \in Client |-> IF c \in dead THEN None ELSE mutex[c]]
      /\ flock' = IF flock.by \in dead THEN [by |-> None, depth |-> 0] ELSE flock
      /\ UNCHANGED <<doc, temps, format>>
  BY DEF Crash
<1>2. ASSUME NEW o \in Op
      PROVE  x(o) \in CallState /\ x(o).pc = "crashed" /\ x(o).work = "none"
  <2>1. /\ Over(o, "crashed") \in CallState /\ Over(o, "crashed").pc = "crashed"
        /\ Missing \in Document
    BY <1>t, OverType DEF Ended, Missing, Document
  <2> QED
    BY <2>1 DEF CallState
<1>d. dead \subseteq Client /\ None \notin dead
  BY StoreAssumption
<1> HIDE DEF dead, x
<1>3. \A o \in Op : IF op[o].client \in dead
                    THEN op'[o].pc = "crashed" /\ op'[o].work = "none"
                    ELSE op'[o] = op[o]
  BY <1>1, <1>2
<1>4. \A c \in Client : IF c \in dead THEN phase'[c] = "gone"
                        ELSE phase'[c] = phase[c] /\ mutex'[c] = mutex[c]
  BY <1>1
<1>5. TypeOK'
  <2>1. op' \in [Op -> CallState]
    BY <1>t, <1>1, <1>2 DEF TypeOK
  <2>2. phase' \in [Client -> {"new", "open", "refused", "gone"} \cup Opening]
    BY <1>t, <1>1 DEF TypeOK
  <2>3. mutex' \in [Client -> Updates \cup {None}]
    BY <1>t, <1>1 DEF TypeOK
  <2>4. flock' \in [by : Client \cup {None}, depth : Nat]
    BY <1>t, <1>1 DEF TypeOK
  <2> QED
    BY <1>t, <1>1, <2>1, <2>2, <2>3, <2>4 DEF TypeOK
<1>6. ASSUME NEW o \in Op PROVE Placed(o)'
  <2>1. CASE op[o].client \in dead
    BY <1>3, <2>1 DEF Placed, Held, Ended
  <2>2. CASE op[o].client \notin dead
    <3>1. op'[o] = op[o] /\ Placed(o)
      BY <1>3, <2>2 DEF Inv
    <3>2. op[o].pc \notin {"idle"} \cup Ended =>
             /\ op[o].client \in Client
             /\ phase'[op[o].client] = phase[op[o].client]
             /\ mutex'[op[o].client] = mutex[op[o].client]
      BY <1>4, <2>2, <3>1 DEF Placed
    <3>3. op[o].pc \in Held => flock' = flock
      BY <1>1, <2>2, <3>1 DEF Placed
    <3> QED
      BY <3>1, <3>2, <3>3 DEF Placed, Held, Ended
  <2> QED
    BY <2>1, <2>2
<1>7. ASSUME NEW o \in Op PROVE Current(o)'
  <2>1. Applied(o)' = Applied(o) /\ (Changes(o)' <=> Changes(o)) /\ Current(o)
    BY <1>1 DEF Applied, Changes, Inv
  <2> QED
    BY <1>3, <2>1 DEF Current
<1>8. Guarded'
  <2>1. CASE flock.by \in dead
    <3>1. flock' = [by |-> None, depth |-> 0]
      BY <1>1, <2>1
    <3>2. \A c \in Client : phase'[c] \notin {"sweeping", "stamping"}
      BY <1>4, <2>1 DEF Inv, Guarded
    <3> QED
      BY <3>1, <3>2, StoreAssumption DEF Guarded
  <2>2. CASE flock.by \notin dead
    <3>1. flock' = flock
      BY <1>1, <2>2
    <3>2. ASSUME NEW c \in Client, phase'[c] \in {"sweeping", "stamping"}
          PROVE  flock.by = c
      BY <1>4, <3>2 DEF Inv, Guarded
    <3>3. ASSUME NEW c \in Client, flock.by = c, phase'[c] \notin {"sweeping", "stamping"}
          PROVE  mutex'[c] \in Updates /\ op'[mutex'[c]].client = c /\ op'[mutex'[c]].pc \in Held
      <4>1. c \notin dead /\ phase'[c] = phase[c] /\ mutex'[c] = mutex[c]
        BY <1>4, <2>2, <3>3
      <4>2. mutex[c] \in Updates /\ op[mutex[c]].client = c /\ op[mutex[c]].pc \in Held
        BY <3>3, <4>1 DEF Inv, Guarded
      <4>3. op'[mutex[c]] = op[mutex[c]]
        BY <1>3, <4>1, <4>2 DEF Op, Updates
      <4> QED
        BY <4>1, <4>2, <4>3
    <3> QED
      BY <3>1, <3>2, <3>3 DEF Inv, Guarded
  <2> QED
    BY <2>1, <2>2
<1>9. Stamped' /\ OwnFormat'
  BY <1>1, <1>4 DEF Inv, Stamped, OwnFormat
<1>10. TemporariesAreOwned'
  <2>1. ASSUME NEW o \in Updates
        PROVE  /\ op'[o].work = "replacing" => o \in temps'
               /\ o \in temps' => op'[o].work = "replacing" \/ op'[o].pc = "crashed"
    BY <1>1, <1>3 DEF Inv, TemporariesAreOwned, Op, Updates
  <2>2. ASSUME NEW c \in Client
        PROVE  /\ phase'[c] = "stamping" => c \in temps'
               /\ c \in temps' => phase'[c] \in {"stamping", "gone"}
    BY <1>1, <1>4 DEF Inv, TemporariesAreOwned
  <2> QED
    BY <2>1, <2>2 DEF TemporariesAreOwned
<1> QED
  BY <1>5, <1>6, <1>7, <1>8, <1>9, <1>10 DEF Inv

-----------------------------------------------------------------------------
(* A client on its way to be opened, or refused: no call is at work in it.  *)
LEMMA InvPhase ==
    ASSUME Inv, NEW c \in Client, NEW s \in {"waiting", "sweeping", "stamping", "open", "refused"},
           phase[c] # "open", phase' = [phase EXCEPT ![c] = s],
           UNCHANGED <<mutex, op>>,
           flock' = flock \/ (flock.by \in {None, c} /\ flock'.by \in {None, c})
    PROVE  /\ phase' \in [Client -> {"new", "open", "refused", "gone"} \cup Opening]
           /\ phase'[c] = s
           /\ \A k \in Client : k # c => phase'[k] = phase[k]
           /\ \A o \in Op : Placed(o)'
<1>t. TypeOK
  BY DEF Inv
<1>1. /\ phase' \in [Client -> {"new", "open", "refused", "gone"} \cup Opening]
      /\ phase'[c] = s
      /\ \A k \in Client : k # c => phase'[k] = phase[k]
  BY <1>t DEF TypeOK, Opening
<1>2. ASSUME NEW o \in Op PROVE Placed(o)'
  <2>1. Placed(o)
    BY DEF Inv
  <2>2. op[o].pc \notin {"idle"} \cup Ended =>
          op[o].client \in Client /\ op[o].client # c /\ phase'[op[o].client] = "open"
    BY <1>1, <2>1 DEF Placed
  <2>3. op[o].pc \in Held => flock' = flock
    BY <2>1, <2>2, StoreAssumption DEF Placed, Held, Ended
  <2> QED
    BY <2>1, <2>2, <2>3 DEF Placed, Held, Ended
<1> QED
  BY <1>1, <1>2

LEMMA InvOpen ==
    ASSUME Inv, NEW c \in Client, NEW v \in Format, Open(c, v) PROVE Inv'
<1>t. TypeOK
  BY DEF Inv
<1>1. /\ phase[c] = "new" /\ phase' = [phase EXCEPT ![c] = "waiting"]
      /\ format' = [format EXCEPT ![c] = v]
      /\ UNCHANGED <<doc, temps, flock, mutex, op>>
  BY DEF Open
<1>2. /\ phase' \in [Client -> {"new", "open", "refused", "gone"} \cup Opening]
      /\ phase'[c] = "waiting"
      /\ \A k \in Client : k # c => phase'[k] = phase[k]
      /\ \A o \in Op : Placed(o)'
  BY <1>1, InvPhase
<1>3. /\ format' \in [Client -> Format \cup {None}] /\ format'[c] = v
      /\ \A k \in Client : k # c => format'[k] = format[k]
  BY <1>t, <1>1 DEF TypeOK
<1>4. TypeOK'
  BY <1>t, <1>1, <1>2, <1>3 DEF TypeOK
<1>5. ASSUME NEW o \in Op PROVE Current(o)'
  BY <1>1 DEF Inv, Current, Applied, Changes
<1>6. Guarded'
  BY <1>1, <1>2 DEF Inv, Guarded
<1>7. Stamped' /\ OwnFormat'
  BY <1>1, <1>2, <1>3 DEF Inv, Stamped, OwnFormat
<1>8. TemporariesAreOwned'
  BY <1>1, <1>2 DEF Inv, TemporariesAreOwned
<1> QED
  BY <1>2, <1>4, <1>5, <1>6, <1>7, <1>8 DEF Inv

LEMMA InvOpenLock ==
    ASSUME Inv, NEW c \in Client, OpenLock(c) PROVE Inv'
<1>t. TypeOK
  BY DEF Inv
<1>1. /\ phase[c] = "waiting" /\ phase' = [phase EXCEPT ![c] = "sweeping"]
      /\ flock.by = None /\ flock' = Locked(c)
      /\ UNCHANGED <<doc, temps, format, mutex, op>>
  BY DEF OpenLock
<1>2. flock' = [by |-> c, depth |-> 1]
  BY <1>1 DEF Locked, Inv, Guarded
<1>3. /\ phase' \in [Client -> {"new", "open", "refused", "gone"} \cup Opening]
      /\ phase'[c] = "sweeping"
      /\ \A k \in Client : k # c => phase'[k] = phase[k]
      /\ \A o \in Op : Placed(o)'
  <2>1. UNCHANGED <<mutex, op>> /\ phase[c] # "open" /\ flock.by = None /\ flock'.by = c
    BY <1>1, <1>2
  <2> QED
    BY <1>1, <2>1, InvPhase
<1>4. TypeOK'
  BY <1>t, <1>1, <1>2, <1>3 DEF TypeOK
<1>5. ASSUME NEW o \in Op PROVE Current(o)'
  BY <1>1 DEF Inv, Current, Applied, Changes
<1>6. Guarded'
  <2>1. \A k \in Client : phase[k] \notin {"sweeping", "stamping"}
    BY <1>1, StoreAssumption DEF Inv, Guarded
  <2>2. flock'.by = c /\ flock'.depth = 1 /\ c # None
    BY <1>2, StoreAssumption
  <2> QED
    BY <1>3, <2>1, <2>2 DEF Guarded
<1>7. Stamped' /\ OwnFormat'
  BY <1>1, <1>3 DEF Inv, Stamped, OwnFormat
<1>8. TemporariesAreOwned'
  BY <1>1, <1>3 DEF Inv, TemporariesAreOwned
<1> QED
  BY <1>3, <1>4, <1>5, <1>6, <1>7, <1>8 DEF Inv

(* A client that has the lock file to be opened is the only writer.         *)
LEMMA AloneOpening ==
    ASSUME Inv, NEW c \in Client, phase[c] \in {"sweeping", "stamping"}
    PROVE  /\ flock.by = c
           /\ \A o \in Op : op[o].work # "replacing"
           /\ \A k \in Client : k # c => phase[k] \notin {"sweeping", "stamping"}
<1>1. OneWriter
  BY InvOneWriter
<1>2. c \in Writing
  BY DEF Writing
<1>3. ASSUME NEW o \in Op, op[o].work = "replacing" PROVE FALSE
  <2>1. o \in Updates
    BY <1>3 DEF Inv, Placed, Op, Updates
  <2>2. o \in Writing
    BY <1>3, <2>1 DEF Writing
  <2> QED
    BY <1>1, <1>2, <1>3, <2>2, StoreAssumption DEF OneWriter
<1>4. ASSUME NEW k \in Client, phase[k] \in {"sweeping", "stamping"} PROVE k = c
  BY <1>1, <1>2, <1>4 DEF OneWriter, Writing
<1> QED
  BY <1>3, <1>4 DEF Inv, Guarded

(* It gives the lock file back.                                             *)
LEMMA InvLeaveOpening ==
    ASSUME Inv, NEW c \in Client, phase[c] \in {"sweeping", "stamping"},
           NEW s \in {"open", "refused"},
           phase' = [phase EXCEPT ![c] = s], flock' = Unlocked,
           UNCHANGED <<mutex, op>>
    PROVE  /\ flock' \in [by : Client \cup {None}, depth : Nat]
           /\ phase' \in [Client -> {"new", "open", "refused", "gone"} \cup Opening]
           /\ phase'[c] = s
           /\ \A k \in Client : k # c => phase'[k] = phase[k]
           /\ \A o \in Op : Placed(o)'
           /\ Guarded'
<1>1. flock.by = c
  BY AloneOpening
<1>2. flock' = [by |-> None, depth |-> 0]
  BY <1>1, UnlockedFree
<1>3. flock.by \in {None, c} /\ flock'.by \in {None, c} /\ phase[c] # "open"
  BY <1>1, <1>2
<1>4. /\ phase' \in [Client -> {"new", "open", "refused", "gone"} \cup Opening]
      /\ phase'[c] = s
      /\ \A k \in Client : k # c => phase'[k] = phase[k]
      /\ \A o \in Op : Placed(o)'
  BY <1>3, InvPhase
<1>5. Guarded'
  BY <1>1, <1>2, <1>4, GuardedFree
<1> QED
  BY <1>2, <1>4, <1>5

LEMMA InvSweep ==
    ASSUME Inv, NEW c \in Client, Sweep(c) PROVE Inv'
<1>t. TypeOK
  BY DEF Inv
<1>1. phase[c] = "sweeping" /\ UNCHANGED <<doc, mutex, format, op>>
  BY DEF Sweep
<1>2. /\ flock.by = c
      /\ \A o \in Op : op[o].work # "replacing"
      /\ \A k \in Client : k # c => phase[k] \notin {"sweeping", "stamping"}
  BY <1>1, AloneOpening
<1>3. ASSUME NEW o \in Op PROVE Current(o)'
  BY <1>1 DEF Inv, Current, Applied, Changes
<1>4. CASE doc.stamp = None
  <2>1. /\ temps' = {c} /\ phase' = [phase EXCEPT ![c] = "stamping"] /\ flock' = flock
    BY <1>4 DEF Sweep
  <2>2. UNCHANGED <<mutex, op>> /\ phase[c] # "open"
    BY <1>1
  <2>3. /\ phase' \in [Client -> {"new", "open", "refused", "gone"} \cup Opening]
        /\ phase'[c] = "stamping"
        /\ \A k \in Client : k # c => phase'[k] = phase[k]
        /\ \A o \in Op : Placed(o)'
    BY <2>1, <2>2, InvPhase
  <2>4. TypeOK'
    BY <1>t, <1>1, <2>1, <2>3 DEF TypeOK
  <2>5. Guarded'
    BY <1>1, <1>2, <2>1, <2>3 DEF Inv, Guarded
  <2>6. Stamped' /\ OwnFormat'
    BY <1>1, <1>4, <2>3 DEF Inv, Stamped, OwnFormat
  <2>7. TemporariesAreOwned'
    <3>1. \A o \in Updates : op'[o].work # "replacing" /\ o \notin temps'
      BY <1>1, <1>2, <2>1, StoreAssumption DEF Op, Updates
    <3>2. \A k \in Client : k # c => phase'[k] # "stamping" /\ k \notin temps'
      BY <1>2, <2>1, <2>3
    <3> QED
      BY <2>1, <2>3, <3>1, <3>2 DEF TemporariesAreOwned
  <2> QED
    BY <1>3, <2>3, <2>4, <2>5, <2>6, <2>7 DEF Inv
<1>5. CASE doc.stamp # None
  <2>1. /\ temps' = {} /\ flock' = Unlocked
        /\ phase' = [phase EXCEPT ![c] = IF Accepts(c) THEN "open" ELSE "refused"]
    BY <1>5 DEF Sweep
  <2>2. PICK s \in {"open", "refused"} :
          phase' = [phase EXCEPT ![c] = s] /\ (s = "open" => doc.stamp = format[c])
    BY <2>1 DEF Accepts
  <2>3. /\ flock' \in [by : Client \cup {None}, depth : Nat]
        /\ phase' \in [Client -> {"new", "open", "refused", "gone"} \cup Opening]
        /\ phase'[c] = s
        /\ \A k \in Client : k # c => phase'[k] = phase[k]
        /\ \A o \in Op : Placed(o)'
        /\ Guarded'
    BY <1>1, <2>1, <2>2, InvLeaveOpening
  <2>4. TypeOK'
    BY <1>t, <1>1, <2>1, <2>3 DEF TypeOK
  <2>5. Stamped' /\ OwnFormat'
    BY <1>1, <1>5, <2>2, <2>3 DEF Inv, Stamped, OwnFormat
  <2>6. TemporariesAreOwned'
    <3>1. \A o \in Updates : op'[o].work # "replacing"
      BY <1>1, <1>2 DEF Op, Updates
    <3>2. \A k \in Client : phase'[k] # "stamping"
      BY <1>2, <2>3
    <3> QED
      BY <2>1, <3>1, <3>2 DEF TemporariesAreOwned
  <2> QED
    BY <1>3, <2>3, <2>4, <2>5, <2>6 DEF Inv
<1> QED
  BY <1>4, <1>5

LEMMA InvStamp ==
    ASSUME Inv, NEW c \in Client, Stamp(c) PROVE Inv'
<1>t. TypeOK
  BY DEF Inv
<1>1. /\ phase[c] = "stamping" /\ phase' = [phase EXCEPT ![c] = "open"]
      /\ doc' = [Missing EXCEPT !.stamp = format[c]]
      /\ temps' = temps \ {c} /\ flock' = Unlocked
      /\ UNCHANGED <<mutex, format, op>>
  BY DEF Stamp
<1>2. /\ \A o \in Op : op[o].work # "replacing"
      /\ \A k \in Client : k # c => phase[k] \notin {"sweeping", "stamping"}
  BY <1>1, AloneOpening
<1>3. /\ flock' \in [by : Client \cup {None}, depth : Nat]
      /\ phase' \in [Client -> {"new", "open", "refused", "gone"} \cup Opening]
      /\ phase'[c] = "open"
      /\ \A k \in Client : k # c => phase'[k] = phase[k]
      /\ \A o \in Op : Placed(o)'
      /\ Guarded'
  BY <1>1, InvLeaveOpening
<1>4. format[c] \in Format /\ doc.stamp = None
  BY <1>1 DEF Inv, Stamped
<1>5. doc' \in Document /\ doc'.stamp = format[c] /\ doc'.stamp # None
  BY <1>1, <1>4, StoreAssumption DEF Document, Missing
<1>6. TypeOK'
  BY <1>t, <1>1, <1>3, <1>5 DEF TypeOK
<1>7. \A o \in Op : Current(o)'
  BY <1>1, <1>2 DEF Current
<1>8. \A k \in Client : k # c => phase[k] # "open"
  BY <1>4, StoreAssumption DEF Inv, Stamped, OwnFormat
<1>9. Stamped' /\ OwnFormat'
  BY <1>1, <1>2, <1>3, <1>5, <1>8 DEF Inv, Stamped, OwnFormat
<1>10. TemporariesAreOwned'
  <2>1. c \notin Updates
    BY StoreAssumption DEF Op, Updates
  <2> QED
    BY <1>1, <1>3, <2>1 DEF Inv, TemporariesAreOwned
<1> QED
  BY <1>3, <1>6, <1>7, <1>9, <1>10 DEF Inv

LEMMA InvOpenFails ==
    ASSUME Inv, NEW c \in Client, OpenFails(c) PROVE Inv'
<1>t. TypeOK
  BY DEF Inv
<1>1. /\ phase[c] \in {"sweeping", "stamping"} /\ phase' = [phase EXCEPT ![c] = "refused"]
      /\ temps' = temps \ {c} /\ flock' = Unlocked
      /\ UNCHANGED <<doc, mutex, format, op>>
  BY DEF OpenFails
<1>2. /\ flock' \in [by : Client \cup {None}, depth : Nat]
      /\ phase' \in [Client -> {"new", "open", "refused", "gone"} \cup Opening]
      /\ phase'[c] = "refused"
      /\ \A k \in Client : k # c => phase'[k] = phase[k]
      /\ \A o \in Op : Placed(o)'
      /\ Guarded'
  BY <1>1, InvLeaveOpening
<1>3. TypeOK'
  BY <1>t, <1>1, <1>2 DEF TypeOK
<1>4. ASSUME NEW o \in Op PROVE Current(o)'
  BY <1>1 DEF Inv, Current, Applied, Changes
<1>5. Stamped' /\ OwnFormat'
  BY <1>1, <1>2 DEF Inv, Stamped, OwnFormat
<1>6. TemporariesAreOwned'
  <2>1. c \notin Updates
    BY StoreAssumption DEF Op, Updates
  <2> QED
    BY <1>1, <1>2, <2>1 DEF Inv, TemporariesAreOwned
<1> QED
  BY <1>2, <1>3, <1>4, <1>5, <1>6 DEF Inv

-----------------------------------------------------------------------------
LEMMA InvNext ==
    ASSUME ~Teardown, Inv, [Next]_fvars PROVE Inv'
<1>1. ASSUME NEW c \in Client, OpenStep(c) \/ OpenFails(c) \/ \E v \in Format : Open(c, v)
      PROVE  Inv'
  BY <1>1, InvOpenLock, InvSweep, InvStamp, InvOpenFails, InvOpen DEF OpenStep
<1>2. ASSUME NEW o \in Op, Step(o) PROVE Inv'
  BY <1>2, InvQueue, InvLock, InvStartWorker, InvReadAndApply, InvReplace, InvReturn, InvFetch,
     InvEnds DEF Step
<1>3. ASSUME NEW o \in Op, \/ WorkFails(o) \/ FetchFails(o) \/ CancelQueued(o)
                           \/ CancelLocking(o) \/ CancelWorking(o)
                           \/ \E c \in Client : Begin(o, c)
      PROVE  Inv'
  BY <1>3, InvWorkFails, InvEnds, InvCancelLocking, InvFetch, InvBegin
<1>4. ASSUME NEW p \in Process, Crash(p) PROVE Inv'
  BY <1>4, InvCrash
<1>5. CASE UNCHANGED fvars
  BY <1>5
  DEF Inv, fvars, TypeOK, Placed, Current, Applied, Changes, Guarded, Stamped, OwnFormat,
      TemporariesAreOwned
<1> QED
  BY <1>1, <1>2, <1>3, <1>4, <1>5 DEF Next

LEMMA InvAlways ==
    ASSUME ~Teardown PROVE Spec => []Inv
<1>1. Inv /\ [Next]_fvars => Inv'
  BY InvNext
<1> QED
  BY <1>1, InvInit, PTL DEF Spec

(* The state keeps its types.                                               *)
THEOREM StoreTypes ==
    ASSUME ~Teardown PROVE Spec => []TypeOK
<1>1. Inv => TypeOK
  BY DEF Inv
<1>2. Spec => []Inv
  BY InvAlways
<1> QED
  BY <1>1, <1>2, PTL

(* Of all threads of all processes at most one reads the document to        *)
(* replace it or deletes temporaries.                                       *)
THEOREM OneWriterAlways ==
    ASSUME ~Teardown PROVE Spec => []OneWriter
<1>1. Spec => []Inv
  BY InvAlways
<1> QED
  BY <1>1, InvOneWriter, PTL

(* No client deletes a temporary that is being written, and none is left    *)
(* but by a process that died.                                              *)
THEOREM TemporariesAreOwnedAlways ==
    ASSUME ~Teardown PROVE Spec => []TemporariesAreOwned
<1>1. Inv => TemporariesAreOwned
  BY DEF Inv
<1>2. Spec => []Inv
  BY InvAlways
<1> QED
  BY <1>1, <1>2, PTL

(* An open client works on a document of its own format.                    *)
THEOREM OwnFormatAlways ==
    ASSUME ~Teardown PROVE Spec => []OwnFormat
<1>1. Inv => OwnFormat
  BY DEF Inv
<1>2. Spec => []Inv
  BY InvAlways
<1> QED
  BY <1>1, <1>2, PTL

-----------------------------------------------------------------------------
(* The refinement.  A call answers nothing before its work has ended, its   *)
(* work fails while it is waited for, and at its end it leaves its client.  *)
Sound(r) ==
    /\ r.work = "failed" => r.pc = "working"
    /\ r.pc \in {"idle"} \cup Ended => r.client = None
    /\ r.work # "ended" /\ r.pc # "done" => r.claim = None /\ r.seen = {}

Answers == \A o \in Op : Sound(op[o])

LEMMA SoundOver ==
    ASSUME TypeOK, NEW o \in Op, NEW s \in Ended, Sound(op[o])
    PROVE  Sound(Over(o, s))
<1>1. op[o] \in CallState
  BY DEF TypeOK
<1>2. op[o].work = "ended" \/ op[o].work = "failed" => Over(o, s).work = "none"
  BY DEF Over, Settled
<1>3. Over(o, s).work # "failed" /\ Over(o, s).work # "ended" /\ Over(o, s).pc = s
  BY <1>1 DEF Over, Settled, CallState
<1>4. /\ s # "done" => Over(o, s).claim = None /\ Over(o, s).seen = {}
      /\ Over(o, s).client = None
  BY DEF Over
<1> QED
  BY <1>3, <1>4 DEF Sound

LEMMA AnswersStep ==
    ASSUME Inv, Answers, NEW o \in Op, NEW x \in CallState, op' = [op EXCEPT ![o] = x], Sound(x)
    PROVE  Answers'
  BY CallStep DEF Inv, Answers

LEMMA AnswersBegin ==
    ASSUME Inv, Answers, NEW o \in Op, NEW c \in Client, Begin(o, c) PROVE Answers'
<1> DEFINE x == IF o \in Reads
                THEN [Idle EXCEPT !.pc = "fetching", !.work = "reading", !.client = c]
                ELSE [Idle EXCEPT !.pc = "queued", !.client = c]
<1>1. op' = [op EXCEPT ![o] = x]
  BY DEF Begin
<1>2. x \in CallState
  BY StoreAssumption DEF CallState, Idle, Missing, Document
<1>3. x.work # "failed" /\ x.claim = None /\ x.seen = {}
      /\ x.pc \in {"fetching", "queued"}
  BY DEF Idle
<1> HIDE DEF x
<1> QED
  BY <1>1, <1>2, <1>3, AnswersStep DEF Sound, Ended

(* The steps that only move a call, or give its work an outcome.            *)
LEMMA AnswersMove ==
    ASSUME Inv, Answers, NEW o \in Op,
           \/ Queue(o) \/ Lock(o) \/ StartWorker(o) \/ ReadAndApply(o) \/ Replace(o)
           \/ Fetch(o) \/ WorkFails(o) \/ CancelWorking(o)
    PROVE  Answers'
<1>t. op[o] \in CallState /\ Sound(op[o]) /\ Placed(o) /\ TypeOK
  BY DEF Inv, TypeOK, Answers
<1>1. CASE Queue(o)
  <2>1. [op[o] EXCEPT !.pc = "locking"] \in CallState
    BY <1>t DEF CallState
  <2>2. Sound([op[o] EXCEPT !.pc = "locking"])
    BY <1>t, <1>1 DEF Sound, Ended, CallState, Queue
  <2> QED
    BY <1>1, <2>1, <2>2, AnswersStep DEF Queue
<1>2. CASE Lock(o)
  <2>1. [op[o] EXCEPT !.pc = "held"] \in CallState
    BY <1>t DEF CallState, Held
  <2>2. Sound([op[o] EXCEPT !.pc = "held"])
    BY <1>t, <1>2 DEF Sound, Ended, CallState, Lock
  <2> QED
    BY <1>2, <2>1, <2>2, AnswersStep DEF Lock
<1>3. CASE StartWorker(o)
  <2> DEFINE x == [op[o] EXCEPT !.pc = "working", !.work = "reading"]
  <2>1. /\ x \in CallState /\ x.claim = op[o].claim /\ x.seen = op[o].seen /\ x.work = "reading"
        /\ x.pc = "working"
    BY <1>t DEF CallState, Held
  <2>2. op[o].pc = "held" /\ op[o].work # "ended"
    BY <1>t, <1>3 DEF StartWorker, Placed, Op, Updates
  <2>3. op' = [op EXCEPT ![o] = x]
    BY <1>3 DEF StartWorker
  <2> HIDE DEF x
  <2>4. Sound(x)
    BY <1>t, <2>1, <2>2 DEF Sound, Ended
  <2> QED
    BY <2>1, <2>3, <2>4, AnswersStep
<1>4. CASE ReadAndApply(o)
  <2>1. op[o].work = "reading" /\ o \in Updates /\ op[o].pc = "working"
    BY <1>t, <1>4 DEF ReadAndApply, Placed
  <2>2. CASE Changes(o)
    <3> DEFINE x == [op[o] EXCEPT !.work = "replacing", !.view = Applied(o)]
    <3>1. /\ x \in CallState /\ x.claim = op[o].claim /\ x.seen = op[o].seen
          /\ x.work = "replacing" /\ x.pc = "working"
      BY <1>t, <2>1, AppliedType DEF CallState
    <3>2. op' = [op EXCEPT ![o] = x]
      BY <1>4, <2>2 DEF ReadAndApply
    <3> HIDE DEF x
    <3>3. Sound(x)
      BY <1>t, <2>1, <3>1 DEF Sound, Ended
    <3> QED
      BY <3>1, <3>2, <3>3, AnswersStep
  <2>3. CASE ~Changes(o)
    <3> DEFINE x == [op[o] EXCEPT !.work = "ended", !.claim = doc.winner]
    <3>1. x \in CallState /\ x.work = "ended" /\ x.pc \in {"working", "fetching"}
      BY <1>t, <2>1 DEF CallState, TypeOK, Document
    <3>2. op' = [op EXCEPT ![o] = x]
      BY <1>4, <2>3 DEF ReadAndApply
    <3> HIDE DEF x
    <3> QED
      BY <3>1, <3>2, AnswersStep DEF Sound, Ended
  <2> QED
    BY <2>2, <2>3
<1>5. CASE Replace(o)
  <2> DEFINE x == [op[o] EXCEPT !.work = "ended", !.view = Missing,
                                !.claim = IF o \in Claims THEN o ELSE None]
  <2>1. x \in CallState /\ x.work = "ended" /\ x.pc \in {"working", "fetching"}
    BY <1>t, <1>5 DEF Replace, Placed, Op, Updates, CallState, Missing, Document
  <2>2. op' = [op EXCEPT ![o] = x]
    BY <1>5 DEF Replace
  <2> HIDE DEF x
  <2> QED
    BY <2>1, <2>2, AnswersStep DEF Sound, Ended
<1>6. CASE Fetch(o)
  <2> DEFINE x == [op[o] EXCEPT !.work = "ended", !.seen = doc.kept]
  <2>1. x \in CallState /\ x.work = "ended" /\ x.pc \in {"working", "fetching"}
    BY <1>t, <1>6 DEF Fetch, CallState, TypeOK, Document
  <2>2. op' = [op EXCEPT ![o] = x]
    BY <1>6 DEF Fetch
  <2> HIDE DEF x
  <2> QED
    BY <2>1, <2>2, AnswersStep DEF Sound, Ended
<1>7. CASE WorkFails(o)
  <2> DEFINE x == [op[o] EXCEPT !.work = "failed", !.view = Missing]
  <2>1. op[o].work \in {"reading", "replacing"} /\ op[o].pc = "working"
    BY <1>t, <1>7 DEF WorkFails, Placed
  <2>2. /\ x \in CallState /\ x.claim = op[o].claim /\ x.seen = op[o].seen
        /\ x.work = "failed" /\ x.pc = "working"
    BY <1>t, <2>1 DEF CallState, Missing, Document
  <2>3. op' = [op EXCEPT ![o] = x]
    BY <1>7 DEF WorkFails
  <2> HIDE DEF x
  <2>4. Sound(x)
    BY <1>t, <2>1, <2>2 DEF Sound, Ended
  <2> QED
    BY <2>2, <2>3, <2>4, AnswersStep
<1>8. CASE CancelWorking(o)
  <2> DEFINE x == [op[o] EXCEPT !.cancelled = TRUE]
  <2>1. /\ x \in CallState /\ x.claim = op[o].claim /\ x.seen = op[o].seen
        /\ x.work = op[o].work /\ x.pc = op[o].pc /\ x.client = op[o].client
    BY <1>t DEF CallState
  <2>2. op' = [op EXCEPT ![o] = x]
    BY <1>8 DEF CancelWorking
  <2> HIDE DEF x
  <2>3. Sound(x)
    BY <1>t, <2>1 DEF Sound, Ended
  <2> QED
    BY <2>1, <2>2, <2>3, AnswersStep
<1> QED
  BY <1>1, <1>2, <1>3, <1>4, <1>5, <1>6, <1>7, <1>8

LEMMA AnswersEnd ==
    ASSUME Inv, Answers, NEW o \in Op,
           \/ Return(o) \/ FetchFails(o) \/ FetchReturn(o) \/ CancelQueued(o) \/ CancelLocking(o)
    PROVE  Answers'
<1>1. PICK s \in {"cancelled", "failed", "done"} : op' = [op EXCEPT ![o] = Over(o, s)]
  BY DEF Return, FetchFails, FetchReturn, CancelQueued, CancelLocking
<1>2. TypeOK /\ Sound(op[o]) /\ s \in Ended
  BY DEF Inv, Answers, Ended
<1>3. Over(o, s) \in CallState /\ Sound(Over(o, s))
  BY <1>2, OverType, SoundOver
<1> QED
  BY <1>1, <1>3, AnswersStep

(* What a crash makes of a call.                                            *)
LEMMA Crashed ==
    ASSUME Inv, NEW p \in Process, Crash(p)
    PROVE  \A o \in Op :
             \/ op'[o] = op[o]
             \/ /\ op'[o].pc = "crashed" /\ op'[o].work = "none"
                /\ op'[o].claim = None /\ op'[o].seen = {} /\ op'[o].client = None
                /\ op[o].client \in Client
<1> SUFFICES ASSUME NEW o \in Op, op'[o] # op[o]
             PROVE  /\ op'[o].pc = "crashed" /\ op'[o].work = "none"
                    /\ op'[o].claim = None /\ op'[o].seen = {} /\ op'[o].client = None
                    /\ op[o].client \in Client
  OBVIOUS
<1> DEFINE x == [Over(o, "crashed") EXCEPT !.work = "none", !.view = Missing]
<1>1. op[o].client \in Client /\ op'[o] = x
  BY DEF Crash
<1>2. Over(o, "crashed").claim = None /\ Over(o, "crashed").seen = {} /\ Over(o, "crashed").client = None
      /\ Over(o, "crashed").pc = "crashed" /\ Over(o, "crashed") \in CallState
      /\ Missing \in Document
  BY OverType DEF Inv, Over, Ended, Missing, Document
<1>3. /\ x.pc = "crashed" /\ x.work = "none" /\ x.claim = None /\ x.seen = {}
      /\ x.client = None
  BY <1>2 DEF CallState
<1> QED
  BY <1>1, <1>3

LEMMA AnswersNext == Inv /\ Answers /\ [Next]_fvars => Answers'
<1> SUFFICES ASSUME Inv, Answers, [Next]_fvars PROVE Answers'
  OBVIOUS
<1>1. CASE UNCHANGED op
  BY <1>1 DEF Answers
<1>2. ASSUME NEW c \in Client, OpenStep(c) \/ OpenFails(c) \/ \E v \in Format : Open(c, v)
      PROVE  UNCHANGED op
  BY <1>2 DEF OpenStep, OpenLock, Sweep, Stamp, OpenFails, Open
<1>3. ASSUME NEW o \in Op, Step(o) PROVE Answers'
  BY <1>3, AnswersMove, AnswersEnd DEF Step
<1>4. ASSUME NEW o \in Op, \/ WorkFails(o) \/ FetchFails(o) \/ CancelQueued(o)
                           \/ CancelLocking(o) \/ CancelWorking(o)
                           \/ \E c \in Client : Begin(o, c)
      PROVE  Answers'
  BY <1>4, AnswersMove, AnswersEnd, AnswersBegin
<1>5. ASSUME NEW p \in Process, Crash(p) PROVE Answers'
  BY <1>5, Crashed DEF Answers, Sound
<1> QED
  BY <1>1, <1>2, <1>3, <1>4, <1>5 DEF Next, fvars

LEMMA AnswersAlways ==
    ASSUME ~Teardown PROVE Spec => [](Inv /\ Answers)
<1>1. Init => Answers
  BY DEF Init, Answers, Sound, Idle
<1>2. Spec => []Inv
  BY InvAlways
<1> QED
  BY <1>1, <1>2, AnswersNext, PTL DEF Spec

(* The answer of a call, of its record alone.                               *)
Stage(r) ==
    CASE r.pc = "idle" -> "none"
      [] r.pc = "done" -> "done"
      [] r.pc \in {"failed", "cancelled", "crashed"} \/ r.work = "failed" -> "lost"
      [] r.pc \in {"working", "fetching"} /\ r.work = "ended" -> "answered"
      [] OTHER -> "asked"

Ans(r) == [st |-> Stage(r), claim |-> r.claim, seen |-> r.seen]

Tickets == [o \in Op |-> Answer(o)]

LEMMA AnsOf ==
    /\ \A o \in Op : Answer(o) = Ans(op[o])
    /\ \A o \in Op : Answer(o)' = Ans(op'[o])
  BY DEF Answer, Ans, Progress, Stage

LEMMA AnsIs ==
    ASSUME NEW r \in CallState, Sound(r)
    PROVE  /\ r.pc = "idle" => Stage(r) = "none"
           /\ r.pc = "done" => Stage(r) = "done"
           /\ r.pc \in {"failed", "cancelled", "crashed"} \/ r.work = "failed" =>
                Stage(r) = "lost"
           /\ r.pc \in {"working", "fetching"} /\ r.work = "ended" => Stage(r) = "answered"
           /\ \/ r.pc \in {"queued", "locking", "held"}
              \/ r.pc \in {"working", "fetching"} /\ r.work \in {"none", "reading", "replacing"}
              => Stage(r) = "asked" \/ r.work = "failed"
  BY DEF Sound, Stage

LEMMA TicketsStep ==
    ASSUME TypeOK, NEW o \in Op, NEW x \in CallState, op' = [op EXCEPT ![o] = x]
    PROVE  Tickets' = [Tickets EXCEPT ![o] = Ans(x)] /\ Tickets[o] = Ans(op[o])
<1>1. op'[o] = x /\ \A u \in Op : u # o => op'[u] = op[u]
  BY CallStep
<1>2. \A u \in Op : Answer(u)' = IF u = o THEN Ans(x) ELSE Answer(u)
  BY <1>1, AnsOf
<1>3. Tickets' = [u \in Op |-> Answer(u)']
  BY DEF Tickets
<1>4. Tickets' = [Tickets EXCEPT ![o] = Ans(x)]
  BY <1>2, <1>3 DEF Tickets
<1> QED
  BY <1>4, AnsOf DEF Tickets

(* A step that changes no answer, and one that loses a call.                *)
LEMMA TicketsSame ==
    ASSUME TypeOK, NEW o \in Op, NEW x \in CallState, op' = [op EXCEPT ![o] = x],
           Ans(x) = Ans(op[o]), UNCHANGED doc
    PROVE  UNCHANGED Atomic!dvars
<1>1. Tickets' = Tickets
  BY TicketsStep DEF Tickets
<1> QED
  BY <1>1 DEF Tickets, Atomic!dvars

LEMMA TicketsLost ==
    ASSUME TypeOK, NEW S \in SUBSET Op, UNCHANGED doc,
           \A o \in S : Stage(op[o]) \in {"asked", "answered"} /\ Ans(op'[o]) = Atomic!Blank("lost"),
           \A o \in Op \ S : Ans(op'[o]) = Ans(op[o])
    PROVE  Atomic!Lose(S)
<1>1. \A o \in Op : Answer(o)' = IF o \in S THEN Atomic!Blank("lost") ELSE Answer(o)
  BY AnsOf
<1>2. Tickets' = [o \in Op |-> IF o \in S THEN Atomic!Blank("lost") ELSE Tickets[o]]
  BY <1>1 DEF Tickets
<1>3. \A o \in S : Tickets[o].st \in {"asked", "answered"}
  BY AnsOf DEF Tickets, Ans
<1>4. Atomic!Op = Op
  BY DEF Atomic!Op, Op
<1> QED
  BY <1>2, <1>3, <1>4 DEF Tickets, Atomic!Lose

(* A call that moves is still asked for.                                    *)
LEMMA AtomicMove ==
    ASSUME Inv, Answers, NEW o \in Op,
           \/ Queue(o) \/ Lock(o) \/ StartWorker(o) \/ CancelWorking(o)
           \/ ReadAndApply(o) /\ Changes(o)
    PROVE  UNCHANGED Atomic!dvars
<1>t. op[o] \in CallState /\ Sound(op[o]) /\ Placed(o) /\ TypeOK
  BY DEF Inv, TypeOK, Answers
<1>1. CASE Queue(o)
  <2> DEFINE x == [op[o] EXCEPT !.pc = "locking"]
  <2>1. /\ x \in CallState /\ x.pc = "locking" /\ x.work = op[o].work
        /\ x.claim = op[o].claim /\ x.seen = op[o].seen
    BY <1>t DEF CallState
  <2>2. op' = [op EXCEPT ![o] = x] /\ op[o].pc = "queued" /\ UNCHANGED doc
    BY <1>1 DEF Queue
  <2> HIDE DEF x
  <2>3. Ans(x) = Ans(op[o])
    BY <2>1, <2>2 DEF Ans, Stage
  <2> QED
    BY <1>t, <2>1, <2>2, <2>3, TicketsSame
<1>2. CASE Lock(o)
  <2> DEFINE x == [op[o] EXCEPT !.pc = "held"]
  <2>1. /\ x \in CallState /\ x.pc = "held" /\ x.work = op[o].work
        /\ x.claim = op[o].claim /\ x.seen = op[o].seen
    BY <1>t DEF CallState, Held
  <2>2. op' = [op EXCEPT ![o] = x] /\ op[o].pc = "locking" /\ UNCHANGED doc
    BY <1>2 DEF Lock
  <2> HIDE DEF x
  <2>3. Ans(x) = Ans(op[o])
    BY <2>1, <2>2 DEF Ans, Stage
  <2> QED
    BY <1>t, <2>1, <2>2, <2>3, TicketsSame
<1>3. CASE StartWorker(o)
  <2> DEFINE x == [op[o] EXCEPT !.pc = "working", !.work = "reading"]
  <2>1. /\ x \in CallState /\ x.pc = "working" /\ x.work = "reading"
        /\ x.claim = op[o].claim /\ x.seen = op[o].seen
    BY <1>t DEF CallState, Held
  <2>2. op' = [op EXCEPT ![o] = x] /\ op[o].pc = "held" /\ UNCHANGED doc
    BY <1>3 DEF StartWorker
  <2>3. op[o].work = "none"
    BY <1>t, <2>2 DEF Placed, Op, Updates
  <2> HIDE DEF x
  <2>4. Ans(x) = Ans(op[o])
    BY <2>1, <2>2, <2>3 DEF Ans, Stage
  <2> QED
    BY <1>t, <2>1, <2>2, <2>4, TicketsSame
<1>4. CASE CancelWorking(o)
  <2> DEFINE x == [op[o] EXCEPT !.cancelled = TRUE]
  <2>1. /\ x \in CallState /\ x.pc = op[o].pc /\ x.work = op[o].work
        /\ x.claim = op[o].claim /\ x.seen = op[o].seen
    BY <1>t DEF CallState
  <2>2. op' = [op EXCEPT ![o] = x] /\ UNCHANGED doc
    BY <1>4 DEF CancelWorking
  <2> HIDE DEF x
  <2>3. Ans(x) = Ans(op[o])
    BY <2>1 DEF Ans, Stage
  <2> QED
    BY <1>t, <2>1, <2>2, <2>3, TicketsSame
<1>5. CASE ReadAndApply(o) /\ Changes(o)
  <2> DEFINE x == [op[o] EXCEPT !.work = "replacing", !.view = Applied(o)]
  <2>1. o \in Updates /\ op[o].work = "reading" /\ op[o].pc = "working" /\ UNCHANGED doc
    BY <1>t, <1>5 DEF ReadAndApply, Placed
  <2>2. /\ x \in CallState /\ x.pc = "working" /\ x.work = "replacing"
        /\ x.claim = op[o].claim /\ x.seen = op[o].seen
    BY <1>t, <2>1, AppliedType DEF CallState
  <2>3. op' = [op EXCEPT ![o] = x]
    BY <1>5 DEF ReadAndApply
  <2> HIDE DEF x
  <2>4. Ans(x) = Ans(op[o])
    BY <2>1, <2>2 DEF Ans, Stage
  <2> QED
    BY <1>t, <2>1, <2>2, <2>3, <2>4, TicketsSame
<1> QED
  BY <1>1, <1>2, <1>3, <1>4, <1>5

LEMMA AtomicAsk ==
    ASSUME Inv, Answers, NEW o \in Op, NEW c \in Client, Begin(o, c) PROVE Atomic!Ask(o)
<1> DEFINE x == IF o \in Reads
                THEN [Idle EXCEPT !.pc = "fetching", !.work = "reading", !.client = c]
                ELSE [Idle EXCEPT !.pc = "queued", !.client = c]
<1>t. TypeOK /\ op[o] \in CallState /\ Sound(op[o])
  BY DEF Inv, TypeOK, Answers
<1>1. op' = [op EXCEPT ![o] = x] /\ op[o].pc = "idle" /\ phase[c] = "open" /\ UNCHANGED doc
  BY DEF Begin
<1>2. x \in CallState
  BY StoreAssumption DEF CallState, Idle, Missing, Document
<1>3. /\ (x.pc = "fetching" /\ x.work = "reading") \/ (x.pc = "queued" /\ x.work = "none")
      /\ x.claim = None /\ x.seen = {}
  BY DEF Idle
<1> HIDE DEF x
<1>4. Ans(x) = Atomic!Blank("asked")
  BY <1>3 DEF Ans, Stage, Atomic!Blank
<1>5. Tickets' = [Tickets EXCEPT ![o] = Atomic!Blank("asked")]
  BY <1>t, <1>1, <1>2, <1>4, TicketsStep
<1>6. Tickets[o].st = "none"
  BY <1>t, <1>1, AnsOf, AnsIs DEF Tickets, Ans
<1>7. doc.stamp # None
  BY <1>1, StoreAssumption DEF Inv, OwnFormat, Stamped
<1> QED
  BY <1>1, <1>5, <1>6, <1>7 DEF Tickets, Atomic!Ask

(* A claim of a domain that has a version takes effect when it is read.     *)
LEMMA AtomicClaimRead ==
    ASSUME Inv, Answers, NEW o \in Op, ReadAndApply(o), ~Changes(o)
    PROVE  o \in Claims /\ Atomic!Claim(o)
<1> DEFINE x == [op[o] EXCEPT !.work = "ended", !.claim = doc.winner]
<1>t. TypeOK /\ op[o] \in CallState /\ Sound(op[o]) /\ Placed(o)
  BY DEF Inv, TypeOK, Answers
<1>1. /\ op' = [op EXCEPT ![o] = x] /\ op[o].work = "reading" /\ op[o].pc = "working"
      /\ o \in Claims /\ doc.winner # None /\ UNCHANGED doc
  BY <1>t DEF ReadAndApply, Placed, Changes, Updates
<1>2. /\ x \in CallState /\ x.pc = "working" /\ x.work = "ended" /\ x.claim = doc.winner
      /\ x.seen = op[o].seen
  BY <1>t, <1>1 DEF CallState, TypeOK, Document
<1> HIDE DEF x
<1>3. op[o].seen = {}
  BY <1>t, <1>1 DEF Sound
<1>4. Ans(x) = [Atomic!Blank("answered") EXCEPT !.claim = doc.winner]
  BY <1>2, <1>3 DEF Ans, Stage, Atomic!Blank
<1>5. Tickets' = [Tickets EXCEPT ![o] = [Atomic!Blank("answered") EXCEPT !.claim = doc.winner]]
  BY <1>t, <1>1, <1>2, <1>4, TicketsStep
<1>6. Tickets[o].st = "asked"
  BY <1>t, <1>1, AnsOf, AnsIs DEF Tickets, Ans
<1> QED
  BY <1>1, <1>5, <1>6 DEF Tickets, Atomic!Claim

(* Every other update takes effect when the document is replaced.           *)
LEMMA AtomicReplace ==
    ASSUME Inv, Answers, NEW o \in Op, Replace(o)
    PROVE  \/ o \in Commits /\ Atomic!Commit(o)
           \/ o \in Claims /\ Atomic!Claim(o)
<1> DEFINE x == [op[o] EXCEPT !.work = "ended", !.view = Missing,
                              !.claim = IF o \in Claims THEN o ELSE None]
<1>t. TypeOK /\ op[o] \in CallState /\ Sound(op[o]) /\ Placed(o) /\ Current(o)
  BY DEF Inv, TypeOK, Answers
<1>1. /\ op' = [op EXCEPT ![o] = x] /\ op[o].work = "replacing" /\ op[o].pc = "working"
      /\ o \in Updates /\ doc' = Applied(o) /\ Changes(o)
  BY <1>t DEF Replace, Placed, Current, Op, Updates
<1>2. /\ x \in CallState /\ x.pc = "working" /\ x.work = "ended"
      /\ x.claim = (IF o \in Claims THEN o ELSE None)
      /\ x.seen = op[o].seen
  BY <1>t, <1>1 DEF CallState, Missing, Document
<1> HIDE DEF x
<1>3. op[o].seen = {}
  BY <1>t, <1>1 DEF Sound
<1>4. Tickets' = [Tickets EXCEPT ![o] = Ans(x)]
  BY <1>t, <1>1, <1>2, TicketsStep
<1>5. Tickets[o].st = "asked"
  BY <1>t, <1>1, AnsOf, AnsIs DEF Tickets, Ans
<1>6. CASE o \in Commits
  <2>1. doc' = [doc EXCEPT !.kept = @ \cup {o}]
    BY <1>1, <1>6 DEF Applied
  <2>2. doc'.kept = doc.kept \cup {o} /\ doc'.stamp = doc.stamp /\ doc'.winner = doc.winner
    BY <1>t, <2>1 DEF TypeOK, Document
  <2>3. Ans(x) = Atomic!Blank("answered")
    BY <1>2, <1>3, <1>6, StoreAssumption DEF Ans, Stage, Atomic!Blank
  <2>4. Tickets' = [Tickets EXCEPT ![o] = Atomic!Blank("answered")]
    BY <1>4, <2>3
  <2> QED
    BY <1>5, <1>6, <2>2, <2>4 DEF Tickets, Atomic!Commit
<1>7. CASE o \in Claims
  <2>1. doc' = [doc EXCEPT !.winner = o]
    BY <1>1, <1>7, StoreAssumption DEF Applied
  <2>2. doc'.kept = doc.kept /\ doc'.stamp = doc.stamp /\ doc'.winner = o
    BY <1>t, <2>1 DEF TypeOK, Document
  <2>3. doc.winner = None
    BY <1>1, <1>7, StoreAssumption DEF Changes
  <2>4. Ans(x) = [Atomic!Blank("answered") EXCEPT !.claim = o]
    BY <1>2, <1>3, <1>7 DEF Ans, Stage, Atomic!Blank
  <2>5. Tickets' = [Tickets EXCEPT ![o] = [Atomic!Blank("answered") EXCEPT !.claim = doc'.winner]]
    BY <1>4, <2>2, <2>4
  <2> QED
    BY <1>5, <1>7, <2>2, <2>3, <2>5 DEF Tickets, Atomic!Claim
<1> QED
  BY <1>1, <1>6, <1>7 DEF Updates

LEMMA AtomicRead ==
    ASSUME Inv, Answers, NEW o \in Op, Fetch(o) PROVE o \in Reads /\ Atomic!Read(o)
<1> DEFINE x == [op[o] EXCEPT !.work = "ended", !.seen = doc.kept]
<1>t. TypeOK /\ op[o] \in CallState /\ Sound(op[o]) /\ Placed(o)
  BY DEF Inv, TypeOK, Answers
<1>1. /\ op' = [op EXCEPT ![o] = x] /\ op[o].work = "reading" /\ op[o].pc = "fetching"
      /\ UNCHANGED doc
  BY DEF Fetch
<1>2. o \in Reads
  BY <1>t, <1>1 DEF Placed, Op, Updates
<1>3. /\ x \in CallState /\ x.pc = "fetching" /\ x.work = "ended" /\ x.claim = op[o].claim
      /\ x.seen = doc.kept
  BY <1>t, <1>1 DEF CallState, TypeOK, Document
<1> HIDE DEF x
<1>4. op[o].claim = None
  BY <1>t, <1>1 DEF Sound
<1>5. Ans(x) = [Atomic!Blank("answered") EXCEPT !.seen = doc.kept]
  BY <1>3, <1>4 DEF Ans, Stage, Atomic!Blank
<1>6. Tickets' = [Tickets EXCEPT ![o] = [Atomic!Blank("answered") EXCEPT !.seen = doc.kept]]
  BY <1>t, <1>1, <1>3, <1>5, TicketsStep
<1>7. Tickets[o].st = "asked"
  BY <1>t, <1>1, AnsOf, AnsIs DEF Tickets, Ans
<1> QED
  BY <1>1, <1>2, <1>6, <1>7 DEF Tickets, Atomic!Read

(* A call returns: its answer is given, or lost to a cancellation.          *)
LEMMA AtomicReturn ==
    ASSUME ~Teardown, Inv, Answers, NEW o \in Op, Return(o) \/ FetchReturn(o)
    PROVE  Atomic!Give(o) \/ Atomic!Lose({o}) \/ UNCHANGED Atomic!dvars
<1>t. TypeOK /\ op[o] \in CallState /\ Sound(op[o]) /\ Placed(o)
  BY DEF Inv, TypeOK, Answers
<1>1. PICK s \in {"cancelled", "failed", "done"} :
        /\ op' = [op EXCEPT ![o] = Over(o, s)]
        /\ s = "done" => op[o].work # "failed"
        /\ UNCHANGED doc
  BY DEF Return, FetchReturn
<1>2. Settled(o) /\ op[o].pc \in {"working", "fetching"}
  BY DEF Return, FetchReturn, Leaves, Settled
<1>3. Over(o, s) \in CallState /\ Over(o, s).pc = s /\ Over(o, s).work = "none"
  BY <1>t, <1>2, OverType DEF Ended
<1>4. Tickets' = [Tickets EXCEPT ![o] = Ans(Over(o, s))] /\ Tickets[o] = Ans(op[o])
  BY <1>t, <1>1, <1>3, TicketsStep
<1>5. CASE s = "done"
  <2>1. op[o].work = "ended"
    BY <1>1, <1>2, <1>5 DEF Settled
  <2>2. Stage(op[o]) = "answered"
    BY <1>t, <1>2, <2>1, AnsIs
  <2>3. Over(o, s).claim = op[o].claim /\ Over(o, s).seen = op[o].seen
    BY <1>5 DEF Over
  <2>4. Ans(Over(o, s)) = [Ans(op[o]) EXCEPT !.st = "done"]
    BY <1>3, <1>5, <2>3 DEF Ans, Stage
  <2>5. Tickets' = [Tickets EXCEPT ![o].st = "done"]
    BY <1>4, <2>4
  <2>6. Tickets[o].st = "answered"
    BY <1>4, <2>2 DEF Ans
  <2> QED
    BY <1>1, <2>5, <2>6 DEF Tickets, Atomic!Give
<1>6. CASE s # "done"
  <2>1. Over(o, s).claim = None /\ Over(o, s).seen = {}
    BY <1>6 DEF Over
  <2>2. Ans(Over(o, s)) = Atomic!Blank("lost")
    BY <1>3, <1>6, <2>1 DEF Ans, Stage, Atomic!Blank
  <2>3. CASE op[o].work = "ended"
    <3>1. Stage(op[o]) = "answered"
      BY <1>t, <1>2, <2>3, AnsIs
    <3>2. op'[o] = Over(o, s) /\ \A u \in Op : u # o => op'[u] = op[u]
      BY <1>t, <1>1, <1>3, CallStep
    <3>3. Atomic!Lose({o})
      BY <1>t, <1>1, <2>2, <3>1, <3>2, TicketsLost
    <3> QED
      BY <3>3
  <2>4. CASE op[o].work = "failed"
    <3>1. op[o].claim = None /\ op[o].seen = {} /\ Stage(op[o]) = "lost"
      BY <1>t, <1>2, <2>4, AnsIs DEF Sound
    <3>2. Ans(op[o]) = Ans(Over(o, s))
      BY <2>2, <3>1 DEF Ans, Atomic!Blank
    <3> QED
      BY <1>t, <1>1, <1>3, <3>2, TicketsSame
  <2> QED
    BY <1>2, <2>3, <2>4 DEF Settled
<1> QED
  BY <1>5, <1>6

(* A call that fails or is cancelled before its answer is lost.             *)
LEMMA AtomicLose ==
    ASSUME Inv, Answers, NEW o \in Op,
           FetchFails(o) \/ CancelQueued(o) \/ CancelLocking(o) \/ WorkFails(o)
    PROVE  Atomic!Lose({o})
<1>t. TypeOK /\ op[o] \in CallState /\ Sound(op[o]) /\ Placed(o)
  BY DEF Inv, TypeOK, Answers
<1>1. UNCHANGED doc
  BY DEF FetchFails, CancelQueued, CancelLocking, WorkFails
<1>2. CASE FetchFails(o) \/ CancelQueued(o) \/ CancelLocking(o)
  <2>1. PICK s \in {"cancelled", "failed"} : op' = [op EXCEPT ![o] = Over(o, s)]
    BY <1>2 DEF FetchFails, CancelQueued, CancelLocking
  <2>2. op[o].pc \in {"queued", "locking", "held", "fetching"}
    BY <1>2 DEF FetchFails, CancelQueued, CancelLocking
  <2>3. Over(o, s) \in CallState /\ Over(o, s).pc = s
    BY <1>t, OverType DEF Ended
  <2>4. Over(o, s).claim = None /\ Over(o, s).seen = {} /\ Over(o, s).work # "failed"
    BY DEF Over, Settled
  <2>5. Ans(Over(o, s)) = Atomic!Blank("lost")
    BY <2>3, <2>4 DEF Ans, Stage, Atomic!Blank
  <2>6. op[o].work # "failed" /\ (op[o].pc = "fetching" => op[o].work \in {"none", "reading", "ended"})
    BY <1>t, <2>2 DEF Sound, CallState, Placed, Op, Updates
  <2>7. Stage(op[o]) \in {"asked", "answered"}
    BY <1>t, <2>2, <2>6, AnsIs
  <2>8. op'[o] = Over(o, s) /\ \A u \in Op : u # o => op'[u] = op[u]
    BY <1>t, <2>1, <2>3, CallStep
  <2> QED
    BY <1>t, <1>1, <2>5, <2>7, <2>8, TicketsLost
<1>3. CASE WorkFails(o)
  <2> DEFINE x == [op[o] EXCEPT !.work = "failed", !.view = Missing]
  <2>1. op' = [op EXCEPT ![o] = x] /\ op[o].work \in {"reading", "replacing"} /\ op[o].pc = "working"
    BY <1>t, <1>3 DEF WorkFails, Placed
  <2>2. /\ x \in CallState /\ x.claim = op[o].claim /\ x.seen = op[o].seen
        /\ x.work = "failed" /\ x.pc = "working"
    BY <1>t, <2>1 DEF CallState, Missing, Document
  <2> HIDE DEF x
  <2>3. op[o].claim = None /\ op[o].seen = {}
    BY <1>t, <2>1 DEF Sound
  <2>4. Ans(x) = Atomic!Blank("lost")
    BY <2>2, <2>3 DEF Ans, Stage, Atomic!Blank
  <2>5. Stage(op[o]) = "asked"
    BY <1>t, <2>1, AnsIs
  <2>6. op'[o] = x /\ \A u \in Op : u # o => op'[u] = op[u]
    BY <1>t, <2>1, <2>2, CallStep
  <2> QED
    BY <1>t, <1>1, <2>4, <2>5, <2>6, TicketsLost
<1> QED
  BY <1>2, <1>3

(* A crash loses every call of the process that had no answer.              *)
LEMMA AtomicCrash ==
    ASSUME Inv, Answers, NEW p \in Process, Crash(p)
    PROVE  \E S \in SUBSET Op : Atomic!Lose(S)
<1> DEFINE S == {o \in Op : Ans(op'[o]) # Ans(op[o])}
<1>t. TypeOK /\ UNCHANGED doc
  BY DEF Inv, Crash
<1>1. ASSUME NEW o \in S
      PROVE  /\ Stage(op[o]) \in {"asked", "answered"}
             /\ Ans(op'[o]) = Atomic!Blank("lost")
  <2>1. /\ op'[o].pc = "crashed" /\ op'[o].work = "none"
        /\ op'[o].claim = None /\ op'[o].seen = {}
        /\ op[o].client \in Client /\ o \in Op
    BY <1>1, Crashed
  <2>2. Ans(op'[o]) = Atomic!Blank("lost")
    BY <2>1 DEF Ans, Stage, Atomic!Blank
  <2>3. op[o] \in CallState /\ Sound(op[o]) /\ Ans(op[o]) # Atomic!Blank("lost")
    BY <1>1, <1>t, <2>1, <2>2 DEF TypeOK, Answers
  <2>4. op[o].pc \notin {"idle"} \cup Ended
    BY <2>1, <2>3, StoreAssumption DEF Sound
  <2>5. op[o].work # "failed"
    BY <2>3 DEF Sound, Ans, Stage, Atomic!Blank
  <2> QED
    BY <2>2, <2>3, <2>4, <2>5 DEF Stage, Ended
<1>2. \A o \in Op \ S : Ans(op'[o]) = Ans(op[o])
  OBVIOUS
<1> HIDE DEF S
<1>3. S \in SUBSET Op
  BY DEF S
<1> QED
  BY <1>t, <1>1, <1>2, <1>3, TicketsLost

LEMMA AtomicStamp ==
    ASSUME Inv, NEW c \in Client, Stamp(c)
    PROVE  format[c] \in Format /\ Atomic!Stamp(format[c])
<1>1. /\ phase[c] = "stamping" /\ doc' = [Missing EXCEPT !.stamp = format[c]] /\ UNCHANGED op
  BY DEF Stamp
<1>2. format[c] \in Format /\ doc = Missing /\ doc.stamp = None
  BY <1>1 DEF Inv, Stamped
<1>3. doc'.stamp = format[c] /\ doc'.kept = doc.kept /\ doc'.winner = doc.winner
  BY <1>1, <1>2 DEF Missing
<1>4. Tickets' = Tickets
  BY <1>1 DEF Tickets, Answer, Progress
<1> QED
  BY <1>2, <1>3, <1>4 DEF Tickets, Atomic!Stamp

LEMMA AtomicStep ==
    ASSUME ~Teardown, Inv, Answers, [Next]_fvars PROVE [Atomic!DNext]_(Atomic!dvars)
<1>o. Atomic!Op = Op
  BY DEF Atomic!Op, Op
<1>l. ASSUME NEW S \in SUBSET Op, Atomic!Lose(S) PROVE Atomic!DNext
  BY <1>l, <1>o DEF Atomic!DNext
<1>1. ASSUME UNCHANGED <<doc, op>> PROVE UNCHANGED Atomic!dvars
  BY <1>1 DEF Atomic!dvars, Answer, Progress
<1>2. ASSUME NEW c \in Client, OpenLock(c) \/ Sweep(c) \/ OpenFails(c) \/ \E v \in Format : Open(c, v)
      PROVE  UNCHANGED <<doc, op>>
  BY <1>2 DEF OpenLock, Sweep, OpenFails, Open
<1>3. ASSUME NEW c \in Client, Stamp(c) PROVE Atomic!DNext
  BY <1>3, AtomicStamp DEF Atomic!DNext
<1>4. ASSUME NEW o \in Op, Step(o) PROVE [Atomic!DNext]_(Atomic!dvars)
  <2>1. CASE Queue(o) \/ Lock(o) \/ StartWorker(o)
    BY <2>1, AtomicMove
  <2>2. CASE ReadAndApply(o)
    <3>1. CASE Changes(o)
      BY <2>2, <3>1, AtomicMove
    <3>2. CASE ~Changes(o)
      BY <2>2, <3>2, AtomicClaimRead DEF Atomic!DNext
    <3> QED
      BY <3>1, <3>2
  <2>3. CASE Replace(o)
    BY <2>3, AtomicReplace DEF Atomic!DNext
  <2>4. CASE Return(o) \/ FetchReturn(o)
    <3>1. Atomic!Give(o) => Atomic!DNext
      BY <1>o DEF Atomic!DNext
    <3>2. Atomic!Lose({o}) => Atomic!DNext
      BY <1>l
    <3> QED
      BY <2>4, <3>1, <3>2, AtomicReturn
  <2>5. CASE Fetch(o)
    BY <2>5, AtomicRead DEF Atomic!DNext
  <2> QED
    BY <1>4, <2>1, <2>2, <2>3, <2>4, <2>5 DEF Step
<1>5. ASSUME NEW o \in Op, WorkFails(o) \/ FetchFails(o) \/ CancelQueued(o) \/ CancelLocking(o)
      PROVE  Atomic!DNext
  <2>1. Atomic!Lose({o})
    BY <1>5, AtomicLose
  <2> QED
    BY <1>l, <2>1
<1>6. ASSUME NEW o \in Op, CancelWorking(o) PROVE UNCHANGED Atomic!dvars
  BY <1>6, AtomicMove
<1>7. ASSUME NEW o \in Op, NEW c \in Client, Begin(o, c) PROVE Atomic!DNext
  BY <1>7, <1>o, AtomicAsk DEF Atomic!DNext
<1>8. ASSUME NEW p \in Process, Crash(p) PROVE Atomic!DNext
  BY <1>8, <1>l, AtomicCrash
<1>9. CASE UNCHANGED fvars
  BY <1>1, <1>9 DEF fvars
<1> QED
  BY <1>1, <1>2, <1>3, <1>4, <1>5, <1>6, <1>7, <1>8, <1>9 DEF Next, OpenStep

LEMMA AtomicInit == Init => Atomic!DInit
<1> SUFFICES ASSUME Init PROVE Atomic!DInit
  OBVIOUS
<1>1. \A o \in Op : Answer(o) = Atomic!Blank("none")
  BY DEF Init, Idle, Answer, Progress, Atomic!Blank
<1>2. Atomic!Op = Op
  BY DEF Atomic!Op, Op
<1>3. doc.stamp = None /\ doc.kept = {} /\ doc.winner = None
  BY DEF Init, Missing
<1> QED
  BY <1>1, <1>2, <1>3 DEF Atomic!DInit

(* For every number of processes, clients and calls, and whatever fails, is *)
(* cancelled or crashes, the clients together are one atomic document that  *)
(* is stamped once (README, "Commit atomicity" and "Concurrency").          *)
THEOREM StoreImplementsDocument ==
    ASSUME ~Teardown PROVE Spec => ActsAsDocument
<1>1. Inv /\ Answers /\ [Next]_fvars => [Atomic!DNext]_(Atomic!dvars)
  BY AtomicStep
<1>2. Spec => [](Inv /\ Answers)
  BY AnswersAlways
<1> QED
  BY <1>1, <1>2, AtomicInit, PTL DEF Spec, ActsAsDocument, Atomic!DSpec

=============================================================================
