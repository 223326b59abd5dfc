------------------------------- MODULE Paths --------------------------------
(***************************************************************************)
(* The path of an execution (store/utils.py): the text a store keys its    *)
(* record by, and how it is read back.  A text is a sequence of code       *)
(* points; the two hex digits of an escape count as one.                   *)
(***************************************************************************)
EXTENDS Integers, Sequences, SequencesExt

Text == Seq(Nat)

Hash == 35
Percent == 37
Plus == 43
Slash == 47
Colon == 58
Digits == 48..57
Letters == 97..122

(* The hex digits of c; %2f and %2F stand for one character.                *)
Upper(c) == 1000 + c
Lower(c) == 2000 + c
Plain(c) == c \in Digits \cup Letters \/ c >= 1000

Escaped(c) == IF Plain(c) THEN <<c>> ELSE <<Percent, Upper(c)>>
Encode[t \in Text] == IF t = <<>> THEN <<>> ELSE Encode[Front(t)] \o Escaped(Last(t))

(* unquote takes every escape, and leaves alone what is none.               *)
Ends(t, c) == t # <<>> /\ Last(t) = c
Decoded(u, t, c) ==
    IF c >= 1000 /\ Ends(t, Percent) THEN Append(Front(u), c % 1000) ELSE Append(u, c)
Unquoted[t \in Text] ==
    IF t = <<>> THEN <<>> ELSE Decoded(Unquoted[Front(t)], Front(t), Last(t))

Decodes(t) == Encode[Unquoted[t]] = t

Decimal[n \in Nat] ==
    IF n < 10 THEN <<48 + n>> ELSE Append(Decimal[n \div 10], 48 + (n % 10))

(* int takes a sign and leading zeroes.                                     *)
Value[t \in Seq(Digits)] == IF t = <<>> THEN 0 ELSE 10 * Value[Front(t)] + Last(t) - 48
Unsigned(t) == IF t # <<>> /\ t[1] = Plus THEN Tail(t) ELSE t
IsInt(t) == Unsigned(t) # <<>> /\ Unsigned(t) \in Seq(Digits)
AsInt(t) == Value[Unsigned(t)]

IsOrdinalInt(t) == IsInt(t)   \* mutant: whatever int takes
IsOrdinal(t) == IsInt(t) /\ Decimal[AsInt(t)] = t

(* str.partition at the first c, if there is one.                           *)
Partition(t, c) ==
    LET at == {i \in DOMAIN t : t[i] = c}
        first == CHOOSE i \in at : \A j \in at : i <= j IN
    IF at = {} THEN [head |-> t, tail |-> <<>>, found |-> FALSE]
    ELSE [head |-> SubSeq(t, 1, first - 1), tail |-> SubSeq(t, first + 1, Len(t)),
          found |-> TRUE]

-----------------------------------------------------------------------------
(* An identity is the sequence of the frames of its ancestors and its own.  *)

Frames == [domain : Text, name : Text, sequence : Nat, digest : Text]

FormatFrame(f) ==
    Encode[f.domain] \o <<Colon>> \o Encode[f.name] \o <<Hash>> \o Decimal[f.sequence]
    \o <<Colon>> \o Encode[f.digest]

Parts(t) ==
    LET ordinal == Partition(Partition(t, Hash).tail, Colon)
        identity == Partition(Partition(t, Hash).head, Colon) IN
    [domain |-> identity.head, name |-> identity.tail,
     sequence |-> ordinal.head, digest |-> ordinal.tail,
     whole |-> identity.found /\ ordinal.found]

(* The last two lines: DomainId, ExecutionName and ArgumentsDigest.         *)
IsFrame(t) ==
    LET p == Parts(t) IN
    /\ p.whole
    /\ Decodes(p.domain) /\ Decodes(p.name) /\ Decodes(p.digest) /\ IsOrdinal(p.sequence)
    /\ p.name # <<>> /\ p.digest # <<>> /\ p.domain # <<>>
    /\ Unquoted[p.domain] \in Seq(Digits \cup Letters)

ParseFrame(t) ==
    LET p == Parts(t) IN
    [domain |-> Unquoted[p.domain], name |-> Unquoted[p.name],
     sequence |-> AsInt(p.sequence), digest |-> Unquoted[p.digest]]

Below(t) == Append(t, Slash)

(* str.join and str.split, on a slash.                                      *)
Join[s \in Seq(Text)] ==
    IF s = <<>> THEN <<>> ELSE IF Len(s) = 1 THEN s[1] ELSE Below(Join[Front(s)]) \o Last(s)

Grown(p, c) ==
    IF c = Slash THEN Append(p, <<>>) ELSE Append(Front(p), Append(Last(p), c))
Split[t \in Text] == IF t = <<>> THEN << <<>> >> ELSE Grown(Split[Front(t)], Last(t))

(* execution_id_to_path *)
PathOf(id) == Join[[i \in DOMAIN id |-> FormatFrame(id[i])]]

(* path_to_execution_id: which texts it takes, and what it makes of them.   *)
IsPath(t) == t # <<>> /\ \A i \in DOMAIN Split[t] : IsFrame(Split[t][i])
IdOf(t) == [i \in DOMAIN Split[t] |-> ParseFrame(Split[t][i])]

-----------------------------------------------------------------------------
(* The order of texts, in Python and in SQLite.                             *)
TextLess(a, b) ==
    \E i \in DOMAIN b :
        /\ i <= Len(a) + 1
        /\ \A j \in 1..(i - 1) : a[j] = b[j]
        /\ i <= Len(a) => a[i] < b[i]

Least(S) == CHOOSE p \in S : \A q \in S \ {p} : TextLess(p, q)

(* Texts that differ from t in one character.                               *)
Near(t, alphabet) ==
    {ReplaceAt(t, i, c) : i \in DOMAIN t, c \in alphabet}
    \cup {RemoveAt(t, i) : i \in DOMAIN t}
    \cup {InsertAt(t, i, c) : i \in 1..(Len(t) + 1), c \in alphabet}
=============================================================================
