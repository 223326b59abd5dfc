----------------------------- MODULE Identities -----------------------------
(***************************************************************************)
(* The identities of calls, when the bytes of an argument are those that   *)
(* Arguments makes of it.                                                  *)
(***************************************************************************)
EXTENDS Records, Arguments

CONSTANT Values   \* arguments of calls

(* What the constants of Records are for a set of arguments.                *)
ArgumentBytes(values) == [v \in {w \in values : Accepts(w)} |-> Bytes(v)]
RecordedBytes(bytes) == {b \in bytes : Recorded(b)}

(* Calls at the same place whose arguments differ are kept apart: no two    *)
(* share a row, but for what canonicalization is there to forget            *)
(* (_canonical_mapping, _require_unreserved_mapping).                       *)
Forms == [v \in DOMAIN Digest |-> Unordered(Canonical(v))]

KeptApart ==
    \A c \in calls : \A v \in DOMAIN Digest :
        Digest[v] = c.id[Len(c.id)].digest => Forms[v] = Forms[c.value]

(* The same call has the same identity, in whatever order a process walks   *)
(* its sets and mappings: it finds its record again (_canonicalize_set).    *)
Meaning == [v \in Values |-> Unordered(v)]

SameKey ==
    \A c \in calls : \A v \in Values :
        Meaning[v] = Meaning[c.value]
        => v \in DOMAIN Digest /\ Digest[v] = c.id[Len(c.id)].digest
=============================================================================
