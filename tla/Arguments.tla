----------------------------- MODULE Arguments ------------------------------
(***************************************************************************)
(* From an argument to the bytes that stand for it in a call's identity    *)
(* (serialization/_canonicalization.py, _canonical_arguments.py), and back *)
(* from a record.  Values are pairs of a kind and a content.  JSON text is *)
(* taken by what it says: keys sorted and separators fixed, a JSON value   *)
(* has one text.                                                           *)
(***************************************************************************)
EXTENDS Integers, Sequences, FiniteSets, SequencesExt

CONSTANTS
    Words,           \* the strings, in order
    Representation   \* what the fallback representer makes of the types it takes

(* 1, 1.0 and True are one number to Python, and have a text each.          *)
Atom(type, value, text) == <<"atom", [type |-> type, value |-> value, text |-> text]>>
Str(text) == Atom("str", CHOOSE i \in DOMAIN Words : Words[i] = text, text)
Marker == "__glyff_fallback__"

-----------------------------------------------------------------------------
(* list.sort: stable, by the < of Python on canonical members.              *)

RECURSIVE PyEqual(_, _)
PyEqual(x, y) ==
    CASE x[1] # y[1] -> FALSE
      [] x[1] = "atom" -> x[2].type = y[2].type /\ x[2].value = y[2].value
      [] x[1] = "list" -> /\ Len(x[2]) = Len(y[2])
                          /\ \A i \in DOMAIN x[2] : PyEqual(x[2][i], y[2][i])
      [] x[1] = "object" ->
            /\ Len(x[2]) = Len(y[2])
            /\ \A i \in DOMAIN x[2] : \E j \in DOMAIN y[2] :
                  x[2][i][1] = y[2][j][1] /\ PyEqual(x[2][i][2], y[2][j][2])
      [] OTHER -> PyEqual(x[2], y[2])

(* Where two lists first differ; 0 when one starts with the other.          *)
Differ(x, y) ==
    LET at == {i \in DOMAIN x \cap DOMAIN y : ~PyEqual(x[i], y[i])} IN
    IF at = {} THEN 0 ELSE CHOOSE i \in at : \A j \in at : i <= j

RECURSIVE Comparable(_, _)
Comparable(x, y) ==
    \/ x[1] = "atom" /\ y[1] = "atom" /\ x[2].type = y[2].type /\ x[2].type # "null"
    \/ /\ x[1] = "list" /\ y[1] = "list"
       /\ LET i == Differ(x[2], y[2]) IN i = 0 \/ Comparable(x[2][i], y[2][i])

RECURSIVE PyLess(_, _)
PyLess(x, y) ==
    IF x[1] = "atom" THEN x[2].value < y[2].value
    ELSE LET i == Differ(x[2], y[2]) IN
         IF i = 0 THEN Len(x[2]) < Len(y[2]) ELSE PyLess(x[2][i], y[2][i])

Stable(s) ==
    LET Before(i, j) == PyLess(s[i], s[j]) \/ (~PyLess(s[j], s[i]) /\ i < j)
        order == SetToSortSeq(DOMAIN s, Before)
    IN  [i \in DOMAIN s |-> s[order[i]]]

(* Members that cannot be compared are sorted by their bytes: in an order   *)
(* that is theirs, equal ones together.                                     *)
ByBytes(s) ==
    LET q == SetToSeq({s[i] : i \in DOMAIN s}) IN
    FlattenSeq([i \in DOMAIN q |-> SelectSeq(s, LAMBDA m : m = q[i])])

SortedNot(s) == s   \* mutant: in the order of the set's iteration
Sorted(s) ==
    IF \A i, j \in DOMAIN s : i # j => Comparable(s[i], s[j]) THEN Stable(s) ELSE ByBytes(s)

-----------------------------------------------------------------------------
(* to_canonical *)

KeyText(k) == k[2].text

RECURSIVE Canonical(_)
Canonical(v) ==
    LET All(s) == [i \in DOMAIN s |-> Canonical(s[i])]
        Mapping(s) == <<"object", [i \in DOMAIN s |-> <<KeyText(s[i][1]), Canonical(s[i][2])>>]>>
    IN
    CASE v[1] = "atom" -> v
      [] v[1] \in {"bytes", "named"} -> Str(v[2])      \* hex digits, a qualified name
      [] v[1] = "list" -> <<"list", All(v[2])>>        \* and tuples
      [] v[1] = "set" -> <<"list", Sorted(All(v[2]))>> \* in the order of iteration
      [] v[1] = "dict" -> Mapping(v[2])
      [] v[1] = "dataclass" -> Mapping(SelectSeq(v[2], LAMBDA field : field[3]))
      [] v[1] = "partial" ->
            <<"object", << <<"__partial__", Canonical(v[2][1])>>,
                           <<"args", <<"list", All(v[2][2])>> >>,
                           <<"keywords", Mapping(v[2][3])>> >> >>
      [] v[1] = "fallback" -> <<"fallback", Canonical(v[2])>>
      [] OTHER -> <<"fallback", Representation[v[2]]>>

(* Refusals on the way: a type without representation, keys that collide.   *)
Collides(s) == \E i, j \in DOMAIN s : i # j /\ KeyText(s[i][1]) = KeyText(s[j][1])

RECURSIVE Refused(_)
Refused(v) ==
    LET AnyOf(s) == \E i \in DOMAIN s : Refused(s[i])
        Inside(s) == \E i \in DOMAIN s : Refused(s[i][2]) IN
    CASE v[1] \in {"atom", "bytes", "named"} -> FALSE
      [] v[1] \in {"list", "set"} -> AnyOf(v[2])
      [] v[1] = "dict" -> Inside(v[2]) \/ Collides(v[2])
      [] v[1] = "dataclass" -> Inside(SelectSeq(v[2], LAMBDA field : field[3]))
      [] v[1] = "partial" -> \/ Refused(v[2][1]) \/ AnyOf(v[2][2])
                             \/ Inside(v[2][3]) \/ Collides(v[2][3])
      [] v[1] = "fallback" -> Refused(v[2])
      [] OTHER -> v[2] \notin DOMAIN Representation

-----------------------------------------------------------------------------
(* CanonicalArguments: the canonical value of the mapping of an argument.   *)

UnmarkedNot(s) == TRUE   \* mutant: the marker is not reserved
Unmarked(s) == \A i \in DOMAIN s : s[i][1] # Marker

RECURSIVE Encodable(_)
Encodable(c) ==
    CASE c[1] = "atom" -> TRUE
      [] c[1] = "list" -> \A i \in DOMAIN c[2] : Encodable(c[2][i])
      [] c[1] = "object" -> Unmarked(c[2]) /\ \A i \in DOMAIN c[2] : Encodable(c[2][i][2])
      [] OTHER -> Encodable(c[2])

(* A later entry of a mapping takes the place of an earlier one.            *)
RECURSIVE Json(_)
Json(c) ==
    CASE c[1] = "atom" -> c
      [] c[1] = "list" -> <<"list", [i \in DOMAIN c[2] |-> Json(c[2][i])]>>
      [] c[1] = "object" ->
            LET last == {i \in DOMAIN c[2] :
                            \A j \in DOMAIN c[2] : j > i => c[2][j][1] # c[2][i][1]}
            IN  <<"object", {<<c[2][i][1], Json(c[2][i][2])>> : i \in last}>>
      [] OTHER -> <<"object", {<<Marker, Json(c[2])>>}>>

Argument(v) == <<"dict", << <<Str("x"), v>> >> >>
Accepts(v) == ~Refused(Argument(v)) /\ Encodable(Canonical(Argument(v)))
Bytes(v) == Json(Canonical(Argument(v)))

-----------------------------------------------------------------------------
(* from_recorded_bytes: what recorded bytes say, and whether they are those *)
(* it would be written with.                                                *)

RECURSIVE Restored(_)
Restored(j) ==
    LET Marked == \E e \in j[2] : e[1] = Marker
        entries == SetToSeq(j[2]) IN
    CASE j[1] = "atom" -> j
      [] j[1] = "list" -> <<"list", [i \in DOMAIN j[2] |-> Restored(j[2][i])]>>
      [] j[1] = "object" /\ Marked -> <<"fallback", Restored(entries[1][2])>>
      [] OTHER -> <<"dict", [i \in DOMAIN entries |->
                                <<Str(entries[i][1]), Restored(entries[i][2])>>]>>

Recorded(j) ==
    ~Refused(Restored(j)) /\ Encodable(Canonical(Restored(j))) /\ Json(Canonical(Restored(j))) = j

-----------------------------------------------------------------------------
(* What a value is, whatever the order its sets and mappings are walked in. *)
RECURSIVE Unordered(_)
Unordered(v) ==
    LET All(s) == [i \in DOMAIN s |-> Unordered(s[i])]
        Pairs(s) == {<<s[i][1], Unordered(s[i][2])>> : i \in DOMAIN s} IN
    CASE v[1] = "list" -> <<"list", All(v[2])>>
      [] v[1] = "set" -> <<"set", {Unordered(v[2][i]) : i \in DOMAIN v[2]}>>
      [] v[1] \in {"dict", "object"} -> <<v[1], Pairs(v[2])>>
      [] v[1] = "dataclass" -> <<v[1], Pairs(SelectSeq(v[2], LAMBDA field : field[3]))>>
      [] v[1] = "partial" ->
            <<v[1], <<Unordered(v[2][1]), All(v[2][2]), Pairs(v[2][3])>> >>
      [] v[1] = "fallback" -> <<v[1], Unordered(v[2])>>
      [] OTHER -> v
=============================================================================
