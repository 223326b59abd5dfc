--------------------------- MODULE AtomicDocument ---------------------------
(***************************************************************************)
(* What the stores on disk promise (packages/glyff-file-store/README.md,   *)
(* "Commit atomicity" and "Concurrency"; the SQLite store's transactions): *)
(* one document that every process shares, stamped once with a format.     *)
(* Each operation takes effect on it once, whole, between the moment it is *)
(* asked and the moment it is answered; one that ends without an answer    *)
(* has taken effect or not.                                                *)
(***************************************************************************)
CONSTANTS
    Commits,   \* operations that save records
    Claims,    \* operations that claim a domain's version, each its own
    Reads,     \* operations that read the records
    Format,
    None

Op == Commits \cup Claims \cup Reads

VARIABLES
    stamp,     \* the format of the store
    kept,      \* the commits whose records the document holds
    winner,    \* the claim it holds
    ticket     \* how far each operation is, and its answer

dvars == <<stamp, kept, winner, ticket>>

Ticket == [st : {"none", "asked", "answered", "done", "lost"},
           claim : Claims \cup {None}, seen : SUBSET Commits]

Blank(s) == [st |-> s, claim |-> None, seen |-> {}]

DTypeOK ==
    /\ stamp \in Format \cup {None}
    /\ kept \in SUBSET Commits
    /\ winner \in Claims \cup {None}
    /\ ticket \in [Op -> Ticket]

DInit ==
    /\ stamp = None
    /\ kept = {}
    /\ winner = None
    /\ ticket = [o \in Op |-> Blank("none")]

(* The first process to open the store decides its format.                 *)
Stamp(v) ==
    /\ stamp = None
    /\ stamp' = v
    /\ UNCHANGED <<kept, winner, ticket>>

Ask(o) ==
    /\ stamp # None
    /\ ticket[o].st = "none"
    /\ ticket' = [ticket EXCEPT ![o] = Blank("asked")]
    /\ UNCHANGED <<stamp, kept, winner>>

Commit(o) ==
    /\ ticket[o].st = "asked"
    /\ kept' = kept \cup {o}
    /\ ticket' = [ticket EXCEPT ![o] = Blank("answered")]
    /\ UNCHANGED <<stamp, winner>>

Claim(o) ==
    /\ ticket[o].st = "asked"
    /\ winner' = IF winner = None THEN o ELSE winner
    /\ ticket' = [ticket EXCEPT ![o] = [Blank("answered") EXCEPT !.claim = winner']]
    /\ UNCHANGED <<stamp, kept>>

Read(o) ==
    /\ ticket[o].st = "asked"
    /\ ticket' = [ticket EXCEPT ![o] = [Blank("answered") EXCEPT !.seen = kept]]
    /\ UNCHANGED <<stamp, kept, winner>>

Give(o) ==
    /\ ticket[o].st = "answered"
    /\ ticket' = [ticket EXCEPT ![o].st = "done"]
    /\ UNCHANGED <<stamp, kept, winner>>

(* Failures and cancellations end an operation; a crash ends several.      *)
Lose(S) ==
    /\ \A o \in S : ticket[o].st \in {"asked", "answered"}
    /\ ticket' = [o \in Op |-> IF o \in S THEN Blank("lost") ELSE ticket[o]]
    /\ UNCHANGED <<stamp, kept, winner>>

DNext ==
    \/ \E v \in Format : Stamp(v)
    \/ \E o \in Op : Ask(o) \/ Give(o)
    \/ \E o \in Commits : Commit(o)
    \/ \E o \in Claims : Claim(o)
    \/ \E o \in Reads : Read(o)
    \/ \E S \in SUBSET Op : Lose(S)

DSpec == DInit /\ [][DNext]_dvars

=============================================================================
