--------------------------- MODULE RecordsProofs ----------------------------
(***************************************************************************)
(* Records, for all arguments, digests, sites, contents and batches.       *)
(***************************************************************************)
EXTENDS Records, SequenceTheorems, FiniteSetTheorems, TLAPS

-----------------------------------------------------------------------------
(* Induction over numbers and over sequences, for sets of them.             *)

LEMMA LeastNumber ==
    ASSUME NEW T \in SUBSET Nat, T # {}
    PROVE  \E m \in T : \A n \in T : m <= n
<1>1. IsWellFoundedOn(OpToRel(<, Nat), Nat)
  BY NatLessThanWellFounded
<1>2. PICK m \in T : \A n \in T : ~(<<n, m>> \in OpToRel(<, Nat))
  BY <1>1, WFMin
<1>3. \A n \in T : <<n, m>> \in OpToRel(<, Nat) <=> n < m
  BY DEF OpToRel
<1>4. \A n \in T : ~(n < m)
  BY <1>2, <1>3
<1> QED
  BY <1>4

LEMMA Induct ==
    ASSUME NEW T \in SUBSET Nat, 0 \in T, \A n \in T : n + 1 \in T
    PROVE  T = Nat
<1> SUFFICES ASSUME T # Nat PROVE FALSE
  OBVIOUS
<1>1. PICK m \in Nat \ T : \A n \in Nat \ T : m <= n
  <2>1. Nat \ T # {}
    OBVIOUS
  <2> QED
    BY <2>1, LeastNumber
<1>2. m - 1 \in T /\ (m - 1) + 1 = m
  BY <1>1
<1> QED
  BY <1>1, <1>2

LEMMA Appended ==
    ASSUME NEW S, NEW s \in Seq(S), NEW c \in S
    PROVE  /\ Append(s, c) \in Seq(S) /\ Append(s, c) # <<>>
           /\ Front(Append(s, c)) = s /\ Last(Append(s, c)) = c
<1>1. /\ Append(s, c) \in Seq(S) /\ Append(s, c) # <<>>
      /\ Len(Append(s, c)) = Len(s) + 1 /\ Append(s, c)[Len(s) + 1] = c
      /\ \A i \in 1..Len(s) : Append(s, c)[i] = s[i]
      /\ Len(s) \in Nat
  BY AppendProperties, LenProperties
<1>2. \A i \in 1..Len(s) : s[i] \in S
  BY ElementOfSeq
<1> DEFINE a == Append(s, c)
<1>3. /\ SubSeq(a, 1, Len(s)) \in Seq(S)
      /\ Len(SubSeq(a, 1, Len(s))) = Len(s)
      /\ \A i \in 1..Len(s) : SubSeq(a, 1, Len(s))[i] = s[i]
  <2>1. 1 \in Int /\ Len(s) \in Int /\ \A i \in 1..Len(s) : a[i] \in S
    BY <1>1, <1>2
  <2> HIDE DEF a
  <2>2. /\ SubSeq(a, 1, Len(s)) \in Seq(S)
        /\ Len(SubSeq(a, 1, Len(s))) = IF 1 <= Len(s) THEN Len(s) - 1 + 1 ELSE 0
        /\ \A i \in 1..(Len(s) - 1 + 1) : SubSeq(a, 1, Len(s))[i] = a[1 + i - 1]
    BY <2>1, SubSeqProperties
  <2>3. \A i \in 1..Len(s) : a[i] = s[i]
    BY <1>1 DEF a
  <2> QED
    BY <1>1, <2>2, <2>3
<1>4. SubSeq(a, 1, Len(s)) = s
  BY <1>1, <1>3, SeqEqual
<1> QED
  BY <1>1, <1>4 DEF Front, Last

LEMMA Unappended ==
    ASSUME NEW S, NEW s \in Seq(S), s # <<>>
    PROVE  /\ Front(s) \in Seq(S) /\ Last(s) \in S /\ Append(Front(s), Last(s)) = s
           /\ Len(s) \in Nat \ {0} /\ Len(Front(s)) = Len(s) - 1
<1>1. PICK r \in Seq(S), c \in S : s = Append(r, c)
  BY SequenceEmptyOrAppend
<1>2. Front(s) = r /\ Last(s) = c
  BY <1>1, Appended
<1>3. Len(s) = Len(r) + 1 /\ Len(r) \in Nat
  BY <1>1, AppendProperties, LenProperties
<1> QED
  BY <1>1, <1>2, <1>3

LEMMA SeqInduct ==
    ASSUME NEW S, NEW T \in SUBSET Seq(S), <<>> \in T,
           \A s \in T, c \in S : Append(s, c) \in T
    PROVE  T = Seq(S)
<1> DEFINE N == {n \in Nat : \A s \in Seq(S) : Len(s) = n => s \in T}
<1>1. 0 \in N
  <2>1. \A s \in Seq(S) : Len(s) = 0 => s = <<>>
    BY EmptySeq
  <2> QED
    BY <2>1
<1>2. ASSUME NEW n \in N PROVE n + 1 \in N
  <2>1. ASSUME NEW s \in Seq(S), Len(s) = n + 1 PROVE s \in T
    <3>1. s # <<>>
      <4>1. Len(<<>>) = 0 /\ n \in Nat
        BY EmptySeq
      <4> QED
        BY <2>1, <4>1
    <3>2. /\ Front(s) \in Seq(S) /\ Last(s) \in S
          /\ Append(Front(s), Last(s)) = s /\ Len(Front(s)) = n
      <4>1. n \in Nat
        OBVIOUS
      <4>2. /\ Front(s) \in Seq(S) /\ Last(s) \in S
            /\ Append(Front(s), Last(s)) = s /\ Len(Front(s)) = Len(s) - 1
        BY <3>1, Unappended
      <4> HIDE DEF N
      <4> QED
        BY <2>1, <4>1, <4>2
    <3>3. Front(s) \in T
      BY <3>2
    <3>4. Append(Front(s), Last(s)) \in T
      BY <3>2, <3>3
    <3> QED
      BY <3>2, <3>4
  <2> QED
    BY <2>1
<1>3. N = Nat
  <2>1. N \in SUBSET Nat
    OBVIOUS
  <2> HIDE DEF N
  <2> QED
    BY <1>1, <1>2, <2>1, Induct
<1> QED
  BY <1>3, LenProperties

-----------------------------------------------------------------------------
(* A function by recursion over a rank: the equation of its definition has  *)
(* a solution.                                                              *)

Solves(D, rank, B, pre, base, step, f, n) ==
    \A d \in D : rank[d] < n => f[d] = IF d \in B THEN base[d] ELSE step[<<f[pre[d]], d>>]

Solution(D, R, B, pre, base, step, f) ==
    /\ f \in [D -> R]
    /\ \A d \in D : f[d] = IF d \in B THEN base[d] ELSE step[<<f[pre[d]], d>>]

LEMMA SolutionsAgree ==
    ASSUME NEW D, NEW rank \in [D -> Nat], NEW B, NEW pre \in [D -> D], NEW base, NEW step,
           \A d \in D \ B : rank[pre[d]] < rank[d],
           NEW f, NEW g, NEW m \in Nat, NEW n \in Nat, m <= n,
           Solves(D, rank, B, pre, base, step, f, m), Solves(D, rank, B, pre, base, step, g, n)
    PROVE  \A d \in D : rank[d] < m => f[d] = g[d]
<1> SUFFICES ASSUME NEW e \in D, rank[e] < m, f[e] # g[e] PROVE FALSE
  OBVIOUS
<1> DEFINE T == {rank[d] : d \in {c \in D : rank[c] < m /\ f[c] # g[c]}}
<1>1. T \in SUBSET Nat /\ T # {}
  OBVIOUS
<1>2. PICK t \in T : \A u \in T : t <= u
  <2> HIDE DEF T
  <2> QED
    BY <1>1, LeastNumber
<1>3. PICK d \in D : t = rank[d] /\ rank[d] < m /\ f[d] # g[d]
  BY <1>2
<1>4. d \notin B
  <2>1. rank[d] < n
    BY <1>3
  <2>2. d \in B => f[d] = base[d] /\ g[d] = base[d]
    BY <1>3, <2>1 DEF Solves
  <2> QED
    BY <1>3, <2>2
<1>5. pre[d] \in D /\ rank[pre[d]] < rank[d] /\ rank[d] \in Nat /\ rank[pre[d]] \in Nat
  BY <1>4
<1>6. f[pre[d]] = g[pre[d]]
  <2>1. ASSUME f[pre[d]] # g[pre[d]] PROVE FALSE
    <3>1. rank[pre[d]] \in T
      BY <1>3, <1>5, <2>1
    <3>2. t <= rank[pre[d]]
      BY <1>2, <3>1
    <3> QED
      BY <1>3, <1>5, <3>2
  <2> QED
    BY <2>1
<1>7. f[d] = step[<<f[pre[d]], d>>] /\ g[d] = step[<<g[pre[d]], d>>]
  BY <1>3, <1>4, <1>5 DEF Solves
<1> QED
  BY <1>3, <1>6, <1>7

LEMMA Recursion ==
    ASSUME NEW D, NEW R, NEW rank \in [D -> Nat], NEW B, NEW pre \in [D -> D],
           NEW base \in [D -> R], NEW step \in [R \X D -> R],
           \A d \in D \ B : rank[pre[d]] < rank[d]
    PROVE  \E f : Solution(D, R, B, pre, base, step, f)
<1> DEFINE S(f, n) == f \in [D -> R] /\ Solves(D, rank, B, pre, base, step, f, n)
           T == {n \in Nat : \E f : S(f, n)}
<1>1. 0 \in T
  <2>1. S(base, 0)
    BY DEF Solves
  <2> QED
    BY <2>1
<1>2. ASSUME NEW n \in T PROVE n + 1 \in T
  <2>1. PICK f : S(f, n)
    OBVIOUS
  <2> DEFINE g == [d \in D |-> IF d \in B THEN base[d]
                               ELSE IF rank[d] < n THEN f[d] ELSE step[<<f[pre[d]], d>>]]
  <2>2. g \in [D -> R]
    BY <2>1
  <2>3. ASSUME NEW d \in D, rank[d] < n + 1
        PROVE  g[d] = IF d \in B THEN base[d] ELSE step[<<g[pre[d]], d>>]
    <3>1. CASE d \in B
      BY <3>1
    <3>2. CASE d \notin B
      <4>1. rank[pre[d]] < n /\ pre[d] \in D
        BY <2>3, <3>2
      <4>2. g[pre[d]] = f[pre[d]]
        BY <2>1, <4>1 DEF Solves
      <4>3. g[d] = step[<<f[pre[d]], d>>]
        BY <2>1, <3>2 DEF Solves
      <4> QED
        BY <3>2, <4>2, <4>3
    <3> QED
      BY <3>1, <3>2
  <2>4. S(g, n + 1)
    <3> HIDE DEF g
    <3> QED
      BY <2>2, <2>3 DEF Solves
  <2> HIDE DEF g, S
  <2> QED
    BY <2>4
<1>3. T = Nat
  <2>1. T \in SUBSET Nat
    OBVIOUS
  <2> HIDE DEF T
  <2> QED
    BY <1>1, <1>2, <2>1, Induct
<1> DEFINE of(n) == CHOOSE f : S(f, n)
<1>4. ASSUME NEW n \in Nat PROVE S(of(n), n)
  <2>1. \E f : S(f, n)
    BY <1>3
  <2> HIDE DEF S
  <2> QED
    BY <2>1
<1> DEFINE F == [d \in D |-> of(rank[d] + 1)[d]]
<1>5. ASSUME NEW d \in D, NEW n \in Nat, rank[d] < n PROVE F[d] = of(n)[d]
  <2>1. rank[d] + 1 \in Nat /\ rank[d] + 1 <= n /\ rank[d] < rank[d] + 1
    BY <1>5
  <2>2. S(of(rank[d] + 1), rank[d] + 1) /\ S(of(n), n)
    BY <1>4, <2>1
  <2>3. of(rank[d] + 1)[d] = of(n)[d]
    <3> HIDE DEF of
    <3> QED
      BY <2>1, <2>2, SolutionsAgree
  <2> HIDE DEF of
  <2> QED
    BY <2>3
<1>6. ASSUME NEW d \in D
      PROVE  /\ F[d] \in R
             /\ F[d] = IF d \in B THEN base[d] ELSE step[<<F[pre[d]], d>>]
  <2>1. rank[d] + 1 \in Nat /\ rank[d] < rank[d] + 1
    OBVIOUS
  <2>2. S(of(rank[d] + 1), rank[d] + 1)
    BY <1>4, <2>1
  <2>3. F[d] = of(rank[d] + 1)[d]
    BY <1>5, <2>1
  <2>4. d \notin B => F[pre[d]] = of(rank[d] + 1)[pre[d]]
    <3>1. d \notin B => rank[pre[d]] < rank[d] + 1 /\ pre[d] \in D
      OBVIOUS
    <3> QED
      BY <1>5, <2>1, <3>1
  <2> HIDE DEF F, of
  <2> QED
    BY <2>1, <2>2, <2>3, <2>4 DEF Solves
<1>7. F \in [D -> R]
  <2> HIDE DEF of
  <2>1. \A d \in D : of(rank[d] + 1)[d] \in R
    BY <1>6
  <2> QED
    BY <2>1
<1> HIDE DEF F
<1>8. Solution(D, R, B, pre, base, step, F)
  BY <1>6, <1>7 DEF Solution
<1> QED
  BY <1>8

SeqSolution(S, R, base, step, f) ==
    /\ f \in [Seq(S) -> R]
    /\ \A s \in Seq(S) : f[s] = IF s = <<>> THEN base ELSE step[<<f[Front(s)], s>>]

LEMMA SeqRecursion ==
    ASSUME NEW S, NEW R, NEW base \in R, NEW step \in [R \X Seq(S) -> R]
    PROVE  \E f : SeqSolution(S, R, base, step, f)
<1> DEFINE D == Seq(S)
           B == {<<>>}
           rank == [s \in D |-> Len(s)]
           pre == [s \in D |-> IF s = <<>> THEN <<>> ELSE Front(s)]
           first == [s \in D |-> base]
<1>1. /\ rank \in [D -> Nat] /\ pre \in [D -> D] /\ first \in [D -> R]
      /\ \A s \in D \ B : pre[s] = Front(s) /\ rank[pre[s]] < rank[s]
  <2>1. \A s \in D : Len(s) \in Nat
    BY LenProperties
  <2>2. <<>> \in D
    BY EmptySeq
  <2>3. \A s \in D \ B : Front(s) \in D /\ Len(Front(s)) = Len(s) - 1
    BY Unappended
  <2> HIDE DEF D
  <2> QED
    BY <2>1, <2>2, <2>3
<1>2. \E f : Solution(D, R, B, pre, first, step, f)
  <2>1. step \in [R \X D -> R]
    OBVIOUS
  <2> HIDE DEF D, B, rank, pre, first
  <2>2. \A d \in D \ B : rank[pre[d]] < rank[d]
    BY <1>1
  <2>3. rank \in [D -> Nat]
    BY <1>1
  <2>4. pre \in [D -> D]
    BY <1>1
  <2>5. first \in [D -> R]
    BY <1>1
  <2> QED
    BY <2>1, <2>2, <2>3, <2>4, <2>5, Recursion, Zenon
<1>3. PICK f \in [D -> R] :
        \A d \in D : f[d] = IF d \in B THEN first[d] ELSE step[<<f[pre[d]], d>>]
  BY <1>2 DEF Solution
<1>4. \A s \in D : f[s] = IF s = <<>> THEN base ELSE step[<<f[Front(s)], s>>]
  <2> HIDE DEF D, rank
  <2> QED
    BY <1>1, <1>3
<1>5. SeqSolution(S, R, base, step, f)
  BY <1>4 DEF SeqSolution
<1> QED
  BY <1>5

-----------------------------------------------------------------------------
(* Encoding and decoding, a character at a time. *)

LEMMA SeqMembers ==
    ASSUME NEW S, NEW s \in Seq(S)
    PROVE  /\ Len(s) \in Nat /\ DOMAIN s = 1..Len(s)
           /\ \A i \in 1..Len(s) : s[i] \in S
BY LenProperties, ElementOfSeq

LEMMA EscapedText ==
    ASSUME NEW c \in Nat
    PROVE  Escaped(c) \in Text /\ Escaped(c) # <<>>
BY DEF Escaped, Text, Upper, Percent

LEMMA EncodeEquation ==
    \A t \in Text : Encode[t] = IF t = <<>> THEN <<>> ELSE Encode[Front(t)] \o Escaped(Last(t))
<1> DEFINE step == [x \in Text \X Text |-> IF x[2] = <<>> THEN <<>>
                                           ELSE x[1] \o Escaped(Last(x[2]))]
<1>1. step \in [Text \X Text -> Text]
  <2>1. ASSUME NEW r \in Text, NEW s \in Text, s # <<>> PROVE r \o Escaped(Last(s)) \in Text
    <3>1. Last(s) \in Nat
      BY <2>1, Unappended DEF Text
    <3> QED
      BY <3>1, EscapedText, ConcatProperties DEF Text
  <2>2. <<>> \in Text
    BY EmptySeq DEF Text
  <2> QED
    BY <2>1, <2>2
<1>2. PICK f : SeqSolution(Nat, Text, <<>>, step, f)
  <2>1. <<>> \in Text /\ step \in [Text \X Seq(Nat) -> Text]
    BY <1>1, EmptySeq DEF Text
  <2> HIDE DEF step
  <2> QED
    BY <2>1, SeqRecursion, Zenon
<1>3. f = [t \in Text |-> IF t = <<>> THEN <<>> ELSE f[Front(t)] \o Escaped(Last(t))]
  <2>1. f \in [Text -> Text]
    BY <1>2 DEF SeqSolution, Text
  <2>2. ASSUME NEW t \in Text
        PROVE  f[t] = IF t = <<>> THEN <<>> ELSE f[Front(t)] \o Escaped(Last(t))
    <3>1. t # <<>> => Front(t) \in Text /\ f[Front(t)] \in Text
      BY <2>1, Unappended DEF Text
    <3>2. t # <<>> => step[<<f[Front(t)], t>>] = f[Front(t)] \o Escaped(Last(t))
      BY <3>1
    <3> QED
      BY <1>2, <3>2 DEF SeqSolution, Text
  <2> QED
    BY <2>1, <2>2
<1>4. Encode = [t \in Text |-> IF t = <<>> THEN <<>> ELSE Encode[Front(t)] \o Escaped(Last(t))]
  <2> HIDE DEF step
  <2> QED
    BY <1>3, Zenon DEF Encode
<1> QED
  BY <1>4

LEMMA EncodeSteps ==
    /\ Encode[<<>>] = <<>>
    /\ \A s \in Text, c \in Nat : Encode[Append(s, c)] = Encode[s] \o Escaped(c)
<1>1. <<>> \in Text
  BY EmptySeq DEF Text
<1>2. ASSUME NEW s \in Text, NEW c \in Nat
      PROVE  /\ Append(s, c) \in Text /\ Append(s, c) # <<>>
             /\ Front(Append(s, c)) = s /\ Last(Append(s, c)) = c
  BY Appended DEF Text
<1> QED
  BY <1>1, <1>2, EncodeEquation, Zenon

(* What an encoded text is made of, and how it ends.                        *)
Safe == Nat \ {Hash, Slash, Colon}

LEMMA EscapedSafe ==
    ASSUME NEW c \in Nat
    PROVE  Escaped(c) \in Seq(Safe)
<1>1. c \in Safe => <<c>> \in Seq(Safe)
  OBVIOUS
<1>2. Percent \in Safe /\ Upper(c) \in Safe
  BY DEF Safe, Percent, Upper, Hash, Slash, Colon
<1>3. <<Percent, Upper(c)>> \in Seq(Safe)
  BY <1>2
<1>4. Plain(c) => c \in Safe
  BY DEF Plain, Safe, Hash, Slash, Colon, Digits, Letters
<1> QED
  BY <1>1, <1>3, <1>4 DEF Escaped

LEMMA EncodedSafe ==
    ASSUME NEW t \in Text
    PROVE  Encode[t] \in Seq(Safe)
<1> DEFINE T == {s \in Seq(Nat) : Encode[s] \in Seq(Safe)}
<1>1. <<>> \in T
  BY EncodeSteps, EmptySeq
<1>2. ASSUME NEW s \in T, NEW c \in Nat PROVE Append(s, c) \in T
  <2>1. Append(s, c) \in Seq(Nat)
    BY Appended
  <2>2. Encode[s] \o Escaped(c) \in Seq(Safe)
    BY EscapedSafe, ConcatProperties
  <2> QED
    BY <2>1, <2>2, EncodeSteps DEF Text
<1>3. T = Seq(Nat)
  <2>1. T \in SUBSET Seq(Nat)
    OBVIOUS
  <2> HIDE DEF T
  <2> QED
    BY <1>1, <1>2, <2>1, SeqInduct
<1> QED
  BY <1>3 DEF Text

LEMMA SafeText ==
    ASSUME NEW t \in Seq(Safe)
    PROVE  t \in Text
BY SeqMonotonic DEF Safe, Text

LEMMA EncodedText ==
    ASSUME NEW t \in Text
    PROVE  Encode[t] \in Text
BY EncodedSafe, SafeText

LEMMA EndOfConcat ==
    ASSUME NEW s \in Text, NEW r \in Text, r # <<>>
    PROVE  s \o r # <<>> /\ Last(s \o r) = Last(r)
<1>1. /\ Len(s \o r) = Len(s) + Len(r)
      /\ \A i \in 1..(Len(s) + Len(r)) :
           (s \o r)[i] = IF i <= Len(s) THEN s[i] ELSE r[i - Len(s)]
  BY ConcatProperties DEF Text
<1>2. Len(s) \in Nat /\ Len(r) \in Nat \ {0}
  BY EmptySeq, LenProperties DEF Text
<1>3. (s \o r)[Len(s) + Len(r)] = r[Len(r)]
  BY <1>1, <1>2
<1> QED
  BY <1>1, <1>2, <1>3 DEF Last

LEMMA EncodedEnd ==
    ASSUME NEW t \in Text
    PROVE  ~Ends(Encode[t], Percent) /\ (t # <<>> => Encode[t] # <<>>)
<1>1. CASE t = <<>>
  BY <1>1, EncodeSteps DEF Ends
<1>2. CASE t # <<>>
  <2>1. /\ Front(t) \in Text /\ Last(t) \in Nat
        /\ Encode[t] = Encode[Front(t)] \o Escaped(Last(t))
    BY <1>2, Unappended, EncodeEquation DEF Text
  <2>2. Escaped(Last(t)) \in Text /\ Escaped(Last(t)) # <<>> /\ Encode[Front(t)] \in Text
    BY <2>1, EscapedText, EncodedText
  <2>3. Encode[t] # <<>> /\ Last(Encode[t]) = Last(Escaped(Last(t)))
    BY <2>1, <2>2, EndOfConcat
  <2>4. Last(Escaped(Last(t))) # Percent
    <3>1. PICK c \in Nat : c = Last(t)
      BY <2>1
    <3>2. Last(Escaped(c)) = IF Plain(c) THEN c ELSE Upper(c)
      BY DEF Escaped, Last
    <3> QED
      BY <3>1, <3>2 DEF Plain, Upper, Percent, Digits, Letters
  <2> QED
    BY <2>3, <2>4 DEF Ends
<1> QED
  BY <1>1, <1>2

LEMMA DecodedText ==
    ASSUME NEW u \in Text, NEW t, NEW c \in Nat
    PROVE  Decoded(u, t, c) \in Text
<1>1. Front(u) \in Text
  <2>1. CASE u = <<>>
    <3>1. Len(<<>>) - 1 \in Int /\ Len(<<>>) - 1 < 1 /\ 1 \in Int
      BY EmptySeq
    <3>2. SubSeq(<<>>, 1, Len(<<>>) - 1) = <<>>
      BY <3>1, SubSeqEmpty
    <3> QED
      BY <2>1, <3>2 DEF Front
  <2>2. CASE u # <<>>
    BY <2>2, Unappended DEF Text
  <2> QED
    BY <2>1, <2>2
<1>2. c % 1000 \in Nat
  OBVIOUS
<1>3. Append(u, c) \in Text /\ Append(Front(u), c % 1000) \in Text
  BY <1>1, <1>2, AppendProperties DEF Text
<1> QED
  BY <1>3 DEF Decoded

LEMMA UnquotedEquation ==
    \A t \in Text : Unquoted[t] = IF t = <<>> THEN <<>>
                                  ELSE Decoded(Unquoted[Front(t)], Front(t), Last(t))
<1> DEFINE step == [x \in Text \X Text |-> IF x[2] = <<>> THEN <<>>
                                           ELSE Decoded(x[1], Front(x[2]), Last(x[2]))]
<1>1. step \in [Text \X Text -> Text]
  <2>1. ASSUME NEW r \in Text, NEW s \in Text, s # <<>>
        PROVE  Decoded(r, Front(s), Last(s)) \in Text
    <3>1. Last(s) \in Nat
      BY <2>1, Unappended DEF Text
    <3> QED
      BY <3>1, DecodedText
  <2>2. <<>> \in Text
    BY EmptySeq DEF Text
  <2> QED
    BY <2>1, <2>2
<1>2. PICK f : SeqSolution(Nat, Text, <<>>, step, f)
  <2>1. <<>> \in Text /\ step \in [Text \X Seq(Nat) -> Text]
    BY <1>1, EmptySeq DEF Text
  <2> HIDE DEF step
  <2> QED
    BY <2>1, SeqRecursion, Zenon
<1>3. f = [t \in Text |-> IF t = <<>> THEN <<>> ELSE Decoded(f[Front(t)], Front(t), Last(t))]
  <2>1. f \in [Text -> Text]
    BY <1>2 DEF SeqSolution, Text
  <2>2. ASSUME NEW t \in Text
        PROVE  f[t] = IF t = <<>> THEN <<>> ELSE Decoded(f[Front(t)], Front(t), Last(t))
    <3>1. t # <<>> => Front(t) \in Text /\ f[Front(t)] \in Text
      BY <2>1, Unappended DEF Text
    <3>2. t # <<>> => step[<<f[Front(t)], t>>] = Decoded(f[Front(t)], Front(t), Last(t))
      BY <3>1
    <3> QED
      BY <1>2, <3>2 DEF SeqSolution, Text
  <2> QED
    BY <2>1, <2>2
<1>4. Unquoted = [t \in Text |-> IF t = <<>> THEN <<>>
                                 ELSE Decoded(Unquoted[Front(t)], Front(t), Last(t))]
  <2> HIDE DEF step
  <2> QED
    BY <1>3, Zenon DEF Unquoted
<1> QED
  BY <1>4

LEMMA UnquotedSteps ==
    /\ Unquoted[<<>>] = <<>>
    /\ \A s \in Text, c \in Nat : Unquoted[Append(s, c)] = Decoded(Unquoted[s], s, c)
<1>1. <<>> \in Text
  BY EmptySeq DEF Text
<1>2. ASSUME NEW s \in Text, NEW c \in Nat
      PROVE  /\ Append(s, c) \in Text /\ Append(s, c) # <<>>
             /\ Front(Append(s, c)) = s /\ Last(Append(s, c)) = c
  BY Appended DEF Text
<1> QED
  BY <1>1, <1>2, UnquotedEquation, Zenon

LEMMA UnquotedText ==
    ASSUME NEW t \in Text
    PROVE  Unquoted[t] \in Text
<1> DEFINE T == {s \in Seq(Nat) : Unquoted[s] \in Text}
<1>1. <<>> \in T
  BY UnquotedSteps, EmptySeq DEF Text
<1>2. ASSUME NEW s \in T, NEW c \in Nat PROVE Append(s, c) \in T
  <2>1. Append(s, c) \in Seq(Nat)
    BY Appended
  <2>2. Decoded(Unquoted[s], s, c) \in Text
    BY DecodedText
  <2> QED
    BY <2>1, <2>2, UnquotedSteps DEF Text
<1>3. T = Seq(Nat)
  <2>1. T \in SUBSET Seq(Nat)
    OBVIOUS
  <2> HIDE DEF T
  <2> QED
    BY <1>1, <1>2, <2>1, SeqInduct
<1> QED
  BY <1>3 DEF Text

(* An encoded text reads as itself.                                         *)
LEMMA UnquotedEncoded ==
    ASSUME NEW t \in Text
    PROVE  Unquoted[Encode[t]] = t
<1> DEFINE T == {s \in Seq(Nat) : Unquoted[Encode[s]] = s}
<1>1. <<>> \in T
  BY EncodeSteps, UnquotedSteps, EmptySeq
<1>2. ASSUME NEW s \in T, NEW c \in Nat PROVE Append(s, c) \in T
  <2>1. Append(s, c) \in Seq(Nat) /\ s \in Text
    BY Appended DEF Text
  <2>2. Encode[Append(s, c)] = Encode[s] \o Escaped(c) /\ Encode[s] \in Text
    BY <2>1, EncodeSteps, EncodedText
  <2>3. ~Ends(Encode[s], Percent)
    BY <2>1, EncodedEnd
  <2>4. Unquoted[Encode[s]] = s
    OBVIOUS
  <2>5. CASE Plain(c)
    <3>1. Encode[Append(s, c)] = Append(Encode[s], c)
      <4>1. Append(Encode[s], c) = Encode[s] \o <<c>>
        BY <2>2, AppendIsConcat DEF Text
      <4> QED
        BY <2>2, <2>5, <4>1 DEF Escaped
    <3>2. Unquoted[Append(Encode[s], c)] = Decoded(s, Encode[s], c)
      BY <2>2, <2>4, UnquotedSteps
    <3>3. Decoded(s, Encode[s], c) = Append(s, c)
      BY <2>3 DEF Decoded
    <3> QED
      BY <2>1, <3>1, <3>2, <3>3
  <2>6. CASE ~Plain(c)
    <3> DEFINE e == Append(Encode[s], Percent)
    <3>1. e \in Text /\ Ends(e, Percent) /\ Percent \in Nat /\ Upper(c) \in Nat
      <4>1. Percent \in Nat /\ Upper(c) \in Nat
        BY DEF Percent, Upper
      <4>2. e \in Text /\ e # <<>> /\ Last(e) = Percent
        BY <2>2, <4>1, Appended DEF Text
      <4> QED
        BY <4>1, <4>2 DEF Ends
    <3>2. Encode[Append(s, c)] = Append(e, Upper(c))
      <4>1. Escaped(c) = <<Percent>> \o <<Upper(c)>>
        BY <2>6 DEF Escaped
      <4>2. <<Percent>> \in Text /\ <<Upper(c)>> \in Text
        BY <3>1 DEF Text
      <4>3. Encode[s] \o Escaped(c) = (Encode[s] \o <<Percent>>) \o <<Upper(c)>>
        <5>1. PICK x \in Seq(Nat), y \in Seq(Nat), z \in Seq(Nat) :
                x = Encode[s] /\ y = <<Percent>> /\ z = <<Upper(c)>>
          BY <2>2, <4>2 DEF Text
        <5>2. (x \o y) \o z = x \o (y \o z)
          BY ConcatAssociative, SMTT(30)
        <5> QED
          BY <4>1, <5>1, <5>2, Zenon
      <4>4. e = Encode[s] \o <<Percent>> /\ Append(e, Upper(c)) = e \o <<Upper(c)>>
        BY <2>2, <3>1, AppendIsConcat DEF Text
      <4> QED
        BY <2>2, <4>3, <4>4
    <3>3. Unquoted[e] = Append(s, Percent)
      <4>1. Unquoted[e] = Decoded(s, Encode[s], Percent)
        BY <2>2, <2>4, <3>1, UnquotedSteps
      <4> QED
        BY <4>1 DEF Decoded, Percent
    <3>4. Unquoted[Append(e, Upper(c))] = Decoded(Append(s, Percent), e, Upper(c))
      BY <3>1, <3>3, UnquotedSteps
    <3>5. Upper(c) >= 1000 /\ Upper(c) % 1000 = c
      BY <2>6 DEF Plain, Upper
    <3>6. Front(Append(s, Percent)) = s
      BY <3>1, Appended
    <3>7. Decoded(Append(s, Percent), e, Upper(c)) = Append(s, c)
      BY <3>1, <3>5, <3>6 DEF Decoded
    <3> QED
      BY <2>1, <3>2, <3>4, <3>7
  <2> QED
    BY <2>5, <2>6
<1>3. T = Seq(Nat)
  <2>1. T \in SUBSET Seq(Nat)
    OBVIOUS
  <2> HIDE DEF T
  <2> QED
    BY <1>1, <1>2, <2>1, SeqInduct
<1> QED
  BY <1>3 DEF Text

-----------------------------------------------------------------------------
(* Numbers and their spelling. *)

LEMMA DecimalEquation ==
    \A n \in Nat : Decimal[n] = IF n < 10 THEN <<48 + n>>
                                ELSE Append(Decimal[n \div 10], 48 + (n % 10))
<1> DEFINE rank == [n \in Nat |-> n]
           small == {n \in Nat : n < 10}
           pre == [n \in Nat |-> n \div 10]
           first == [n \in Nat |-> <<48 + n>>]
           step == [x \in Text \X Nat |-> Append(x[1], 48 + (x[2] % 10))]
<1>1. rank \in [Nat -> Nat] /\ first \in [Nat -> Text]
  BY DEF Text
<1>2. pre \in [Nat -> Nat] /\ \A n \in Nat \ small : rank[pre[n]] < rank[n]
  <2>1. \A n \in Nat : n \div 10 \in Nat /\ (n >= 10 => n \div 10 < n)
    OBVIOUS
  <2> QED
    BY <2>1
<1>3. step \in [Text \X Nat -> Text]
  <2>1. ASSUME NEW r \in Text, NEW n \in Nat PROVE Append(r, 48 + (n % 10)) \in Text
    <3>1. 48 + (n % 10) \in Nat
      OBVIOUS
    <3> QED
      BY <3>1, AppendProperties DEF Text
  <2> QED
    BY <2>1
<1>4. PICK f : Solution(Nat, Text, small, pre, first, step, f)
  <2> HIDE DEF rank, small, pre, first, step
  <2>1. rank \in [Nat -> Nat]
    BY <1>1
  <2>2. first \in [Nat -> Text]
    BY <1>1
  <2>3. pre \in [Nat -> Nat]
    BY <1>2
  <2>4. \A n \in Nat \ small : rank[pre[n]] < rank[n]
    BY <1>2
  <2> QED
    BY <1>3, <2>1, <2>2, <2>3, <2>4, Recursion, Zenon
<1>5. f = [n \in Nat |-> IF n < 10 THEN <<48 + n>> ELSE Append(f[n \div 10], 48 + (n % 10))]
  <2>1. f \in [Nat -> Text]
    BY <1>4 DEF Solution
  <2>2. ASSUME NEW n \in Nat
        PROVE  f[n] = IF n < 10 THEN <<48 + n>> ELSE Append(f[n \div 10], 48 + (n % 10))
    <3>1. n \div 10 \in Nat
      OBVIOUS
    <3>2. f[n \div 10] \in Text
      BY <2>1, <3>1
    <3>3. step[<<f[n \div 10], n>>] = Append(f[n \div 10], 48 + (n % 10))
      BY <3>2
    <3>4. f[n] = IF n \in small THEN first[n] ELSE step[<<f[pre[n]], n>>]
      <4> HIDE DEF small, first, step, pre
      <4> QED
        BY <1>4 DEF Solution
    <3>5. first[n] = <<48 + n>> /\ pre[n] = n \div 10 /\ (n \in small <=> n < 10)
      OBVIOUS
    <3> HIDE DEF small, first, step, pre
    <3> QED
      BY <3>3, <3>4, <3>5
  <2> QED
    BY <2>1, <2>2
<1>6. Decimal = [n \in Nat |-> IF n < 10 THEN <<48 + n>>
                               ELSE Append(Decimal[n \div 10], 48 + (n % 10))]
  <2> HIDE DEF rank, small, pre, first, step
  <2> QED
    BY <1>5, Zenon DEF Decimal
<1> QED
  BY <1>6

LEMMA DecimalSteps ==
    ASSUME NEW n \in Nat
    PROVE  /\ n < 10 => Decimal[n] = Append(<<>>, 48 + n)
           /\ n >= 10 => Decimal[n] = Append(Decimal[n \div 10], 48 + (n % 10))
<1>1. n < 10 => Decimal[n] = <<48 + n>>
  BY DecimalEquation
<1>2. n >= 10 => Decimal[n] = Append(Decimal[n \div 10], 48 + (n % 10))
  <2>1. n >= 10 => ~(n < 10)
    OBVIOUS
  <2> QED
    BY <2>1, DecimalEquation, Zenon
<1> QED
  BY <1>1, <1>2

LEMMA ValueEquation ==
    \A t \in Seq(Digits) :
        Value[t] = IF t = <<>> THEN 0 ELSE 10 * Value[Front(t)] + Last(t) - 48
<1> DEFINE step == [x \in Int \X Seq(Digits) |-> IF x[2] = <<>> THEN 0
                                                 ELSE 10 * x[1] + Last(x[2]) - 48]
<1>1. step \in [Int \X Seq(Digits) -> Int]
  <2>1. ASSUME NEW r \in Int, NEW s \in Seq(Digits), s # <<>>
        PROVE  10 * r + Last(s) - 48 \in Int
    <3>1. Last(s) \in Digits
      BY <2>1, Unappended
    <3> QED
      BY <3>1 DEF Digits
  <2> QED
    BY <2>1
<1>2. PICK f : SeqSolution(Digits, Int, 0, step, f)
  <2>1. 0 \in Int
    OBVIOUS
  <2> HIDE DEF step
  <2> QED
    BY <1>1, <2>1, SeqRecursion, Zenon
<1>3. f = [t \in Seq(Digits) |-> IF t = <<>> THEN 0 ELSE 10 * f[Front(t)] + Last(t) - 48]
  <2>1. f \in [Seq(Digits) -> Int]
    BY <1>2 DEF SeqSolution
  <2>2. ASSUME NEW t \in Seq(Digits)
        PROVE  f[t] = IF t = <<>> THEN 0 ELSE 10 * f[Front(t)] + Last(t) - 48
    <3>1. t # <<>> => Front(t) \in Seq(Digits) /\ f[Front(t)] \in Int
      BY <2>1, Unappended
    <3>2. t # <<>> => step[<<f[Front(t)], t>>] = 10 * f[Front(t)] + Last(t) - 48
      BY <3>1
    <3> QED
      BY <1>2, <3>2 DEF SeqSolution
  <2> QED
    BY <2>1, <2>2
<1>4. Value = [t \in Seq(Digits) |-> IF t = <<>> THEN 0
                                     ELSE 10 * Value[Front(t)] + Last(t) - 48]
  <2> HIDE DEF step
  <2> QED
    BY <1>3, Zenon DEF Value
<1> QED
  BY <1>4

LEMMA ValueSteps ==
    /\ Value[<<>>] = 0
    /\ \A t \in Seq(Digits), c \in Digits : Value[Append(t, c)] = 10 * Value[t] + c - 48
<1>1. <<>> \in Seq(Digits)
  BY EmptySeq
<1>2. ASSUME NEW s \in Seq(Digits), NEW c \in Digits
      PROVE  Value[Append(s, c)] = 10 * Value[s] + c - 48
  <2>1. /\ Append(s, c) \in Seq(Digits) /\ Append(s, c) # <<>>
        /\ Front(Append(s, c)) = s /\ Last(Append(s, c)) = c
    BY Appended
  <2>2. PICK a \in Seq(Digits) : a = Append(s, c)
    BY <2>1
  <2>3. Value[a] = 10 * Value[Front(a)] + Last(a) - 48
    BY <2>1, <2>2, ValueEquation
  <2> QED
    BY <2>1, <2>2, <2>3
<1>3. Value[<<>>] = 0
  BY <1>1, ValueEquation
<1> QED
  BY <1>2, <1>3

LEMMA DecimalRead ==
    ASSUME NEW n \in Nat
    PROVE  /\ Decimal[n] \in Seq(Digits) /\ Decimal[n] # <<>>
           /\ Value[Decimal[n]] = n
<1> DEFINE Good(m) == /\ Decimal[m] \in Seq(Digits) /\ Decimal[m] # <<>>
                      /\ Value[Decimal[m]] = m
           Bad == {m \in Nat : ~Good(m)}
<1> SUFFICES ASSUME Bad # {} PROVE FALSE
  OBVIOUS
<1>1. PICK m \in Bad : \A k \in Bad : m <= k
  <2>1. Bad \in SUBSET Nat
    OBVIOUS
  <2> HIDE DEF Bad
  <2> QED
    BY <2>1, LeastNumber
<1>2. m \in Nat /\ \A k \in Nat : k < m => Good(k)
  <2>1. m \in Nat /\ \A k \in Nat : k < m => k \notin Bad
    <3>1. Bad \in SUBSET Nat
      OBVIOUS
    <3> HIDE DEF Bad
    <3> QED
      BY <1>1, <3>1
  <2> QED
    BY <2>1
<1>3. CASE m < 10
  <2>1. 48 + m \in Digits
    BY <1>2, <1>3 DEF Digits
  <2>2. Decimal[m] = Append(<<>>, 48 + m)
    BY <1>2, <1>3, DecimalSteps
  <2>3. <<>> \in Seq(Digits)
    BY EmptySeq
  <2>4. Decimal[m] \in Seq(Digits) /\ Decimal[m] # <<>>
    BY <2>1, <2>2, <2>3, Appended
  <2>5. Value[Decimal[m]] = 10 * 0 + (48 + m) - 48
    BY <2>1, <2>2, <2>3, ValueSteps, Zenon
  <2>6. Good(m)
    BY <1>2, <2>4, <2>5
  <2> QED
    BY <1>1, <2>6
<1>4. CASE m >= 10
  <2>1. /\ m \div 10 \in Nat /\ m \div 10 < m /\ m % 10 \in 0..9
        /\ 10 * (m \div 10) + (m % 10) = m
    BY <1>2, <1>4
  <2>2. Good(m \div 10)
    BY <1>2, <2>1
  <2>3. 48 + (m % 10) \in Digits
    BY <2>1 DEF Digits
  <2>4. Decimal[m] = Append(Decimal[m \div 10], 48 + (m % 10))
    BY <1>2, <1>4, DecimalSteps
  <2>5. Decimal[m] \in Seq(Digits) /\ Decimal[m] # <<>>
    BY <2>2, <2>3, <2>4, Appended
  <2>6. Value[Decimal[m]] = 10 * (m \div 10) + (48 + (m % 10)) - 48
    BY <2>2, <2>3, <2>4, ValueSteps
  <2>7. Good(m)
    BY <1>2, <2>1, <2>5, <2>6
  <2> QED
    BY <1>1, <2>7
<1> QED
  BY <1>2, <1>3, <1>4

(* int and the spelling it is compared with agree on what str writes.       *)
LEMMA OrdinalRead ==
    ASSUME NEW n \in Nat
    PROVE  IsOrdinal(Decimal[n]) /\ AsInt(Decimal[n]) = n
<1>1. /\ Decimal[n] \in Seq(Digits) /\ Decimal[n] # <<>> /\ Value[Decimal[n]] = n
  BY DecimalRead
<1>2. Decimal[n][1] \in Digits
  BY <1>1, EmptySeq, ElementOfSeq
<1>3. Unsigned(Decimal[n]) = Decimal[n]
  BY <1>2 DEF Unsigned, Digits, Plus
<1> QED
  BY <1>1, <1>3 DEF IsOrdinal, IsInt, AsInt

-----------------------------------------------------------------------------
(* Frames. *)

LEMMA PartitionTypes ==
    ASSUME NEW t \in Text, NEW c \in Nat
    PROVE  LET p == Partition(t, c) IN
           /\ p.head \in Text /\ p.tail \in Text /\ p.found \in BOOLEAN
           /\ p.found => t = (p.head \o <<c>>) \o p.tail
<1> DEFINE at == {i \in DOMAIN t : t[i] = c}
           first == CHOOSE i \in at : \A j \in at : i <= j
<1>1. Len(t) \in Nat /\ DOMAIN t = 1..Len(t) /\ \A i \in 1..Len(t) : t[i] \in Nat
  BY SeqMembers DEF Text
<1>2. CASE at = {}
  <2>1. Partition(t, c) = [head |-> t, tail |-> <<>>, found |-> FALSE]
    BY <1>2 DEF Partition
  <2> QED
    BY <2>1, EmptySeq DEF Text
<1>3. CASE at # {}
  <2>1. first \in at
    <3>1. at \in SUBSET Nat
      BY <1>1
    <3>2. \E m \in at : \A n \in at : m <= n
      <4> HIDE DEF at
      <4> QED
        BY <1>3, <3>1, LeastNumber
    <3> HIDE DEF at
    <3> QED
      BY <3>2
  <2>2. PICK k \in 1..Len(t) : k = first /\ t[k] = c
    BY <1>1, <2>1
  <2>3. Partition(t, c) = [head |-> SubSeq(t, 1, k - 1), tail |-> SubSeq(t, k + 1, Len(t)),
                           found |-> TRUE]
    BY <1>3, <2>2 DEF Partition
  <2>4. SubSeq(t, 1, k - 1) \in Text
    <3>1. 1 \in Int /\ k - 1 \in Int /\ \A i \in 1..(k - 1) : t[i] \in Nat
      BY <1>1
    <3> QED
      BY <3>1, SubSeqProperties DEF Text
  <2>5. SubSeq(t, k + 1, Len(t)) \in Text
    <3>1. k + 1 \in Int /\ Len(t) \in Int /\ \A i \in (k + 1)..Len(t) : t[i] \in Nat
      BY <1>1
    <3> QED
      BY <3>1, SubSeqProperties DEF Text
  <2>6. t = (SubSeq(t, 1, k - 1) \o <<c>>) \o SubSeq(t, k + 1, Len(t))
    <3>1. SubSeq(t, 1, k) = SubSeq(t, 1, k - 1) \o <<c>>
      <4>1. 1 \in 1..Len(t) /\ k \in 1..Len(t) /\ t \in Seq(Nat)
        BY <1>1 DEF Text
      <4> QED
        BY <2>2, <4>1, SubSeqRecursiveSecond
    <3>2. SubSeq(t, 1, k) \o SubSeq(t, k + 1, Len(t)) = SubSeq(t, 1, Len(t))
      <4>1. /\ t \in Seq(Nat) /\ 1 \in 1..(Len(t) + 1) /\ k \in (1 - 1)..Len(t)
            /\ Len(t) \in k..Len(t)
        BY <1>1 DEF Text
      <4> QED
        BY <4>1, ConcatAdjacentSubSeq
    <3>3. SubSeq(t, 1, Len(t)) = t
      BY SubSeqFull DEF Text
    <3> QED
      BY <3>1, <3>2, <3>3, Zenon
  <2>7. PICK h \in Text, r \in Text :
          /\ Partition(t, c) = [head |-> h, tail |-> r, found |-> TRUE]
          /\ t = (h \o <<c>>) \o r
    BY <2>3, <2>4, <2>5, <2>6, Zenon
  <2> HIDE DEF first, at
  <2> QED
    BY <2>7
<1> QED
  BY <1>2, <1>3

LEMMA PartitionAt ==
    ASSUME NEW c \in Nat, NEW a \in Seq(Nat \ {c}), NEW b \in Text
    PROVE  Partition((a \o <<c>>) \o b, c) = [head |-> a, tail |-> b, found |-> TRUE]
<1> DEFINE s == a \o <<c>>
           t == s \o b
           at == {i \in DOMAIN t : t[i] = c}
           first == CHOOSE i \in at : \A j \in at : i <= j
           k == Len(a) + 1
<1>1. /\ a \in Seq(Nat) /\ b \in Seq(Nat) /\ <<c>> \in Seq(Nat)
      /\ \A i \in 1..Len(a) : a[i] # c
  <2>1. a \in Seq(Nat)
    BY SeqMonotonic
  <2>2. \A i \in 1..Len(a) : a[i] \in Nat \ {c}
    BY ElementOfSeq
  <2> QED
    BY <2>1, <2>2 DEF Text
<1>2. /\ s \in Seq(Nat) /\ Len(s) = k /\ s[k] = c
      /\ \A i \in 1..Len(a) : s[i] = a[i]
  <2>1. s = Append(a, c)
    BY <1>1, AppendIsConcat
  <2> HIDE DEF s
  <2> QED
    BY <1>1, <2>1, AppendProperties
<1>3. /\ t \in Seq(Nat) /\ Len(t) = k + Len(b) /\ Len(a) \in Nat /\ Len(b) \in Nat
      /\ \A i \in 1..k : t[i] = s[i]
      /\ \A i \in (k + 1)..Len(t) : t[i] = b[i - k]
  <2>1. Len(a) \in Nat /\ Len(b) \in Nat
    BY <1>1, LenProperties
  <2>2. /\ t \in Seq(Nat) /\ Len(t) = Len(s) + Len(b)
        /\ \A i \in 1..(Len(s) + Len(b)) : t[i] = IF i <= Len(s) THEN s[i] ELSE b[i - Len(s)]
    <3> HIDE DEF s
    <3> QED
      BY <1>1, <1>2, ConcatProperties, Zenon
  <2>3. PICK m \in Nat, n \in Nat : m = Len(a) /\ n = Len(b)
    BY <2>1
  <2> HIDE DEF s, t
  <2>4. Len(t) = k + n /\ Len(s) = k /\ k = m + 1
    BY <1>2, <2>2, <2>3
  <2>5. \A i \in 1..(k + n) : t[i] = IF i <= k THEN s[i] ELSE b[i - k]
    BY <2>2, <2>3, <2>4
  <2> HIDE DEF k
  <2>6. \A i \in 1..k : t[i] = s[i]
    BY <2>4, <2>5
  <2>7. \A i \in (k + 1)..Len(t) : t[i] = b[i - k]
    BY <2>4, <2>5
  <2> QED
    BY <2>1, <2>2, <2>3, <2>4, <2>6, <2>7
<1>4. DOMAIN t = 1..Len(t) /\ k \in 1..Len(t)
  <2> HIDE DEF s, t
  <2> QED
    BY <1>3, LenProperties
<1>5. k \in at /\ \A j \in at : k <= j
  <2>1. \A i \in 1..Len(a) : t[i] # c
    <3> HIDE DEF s, t
    <3> QED
      BY <1>1, <1>2, <1>3
  <2>2. t[k] = c
    <3> HIDE DEF s, t
    <3> QED
      BY <1>2, <1>3
  <2> HIDE DEF s, t
  <2> QED
    BY <1>3, <1>4, <2>1, <2>2
<1>6. first = k /\ at # {}
  <2>1. k \in Nat /\ \A i \in at : i \in Nat
    <3> HIDE DEF s, t, k
    <3> QED
      BY <1>4
  <2>2. \A i \in at : (\A j \in at : i <= j) => i = k
    <3> HIDE DEF at, k
    <3> QED
      BY <1>5, <2>1
  <2> HIDE DEF at, k
  <2> QED
    BY <1>5, <2>2
<1>7. Partition(t, c) = [head |-> SubSeq(t, 1, k - 1), tail |-> SubSeq(t, k + 1, Len(t)),
                         found |-> TRUE]
  <2> HIDE DEF s, t, k
  <2> QED
    BY <1>6 DEF Partition
<1>8. SubSeq(t, 1, k - 1) = a
  <2>1. \A i \in 1..(k - 1) : t[i] = a[i] /\ t[i] \in Nat
    <3>1. \A i \in 1..Len(a) : a[i] \in Nat
      BY <1>1, ElementOfSeq
    <3>2. k - 1 = Len(a) /\ \A i \in 1..Len(a) : i \in 1..k
      BY <1>3
    <3> HIDE DEF s, t, k
    <3> QED
      BY <1>2, <1>3, <3>1, <3>2
  <2>2. /\ SubSeq(t, 1, k - 1) \in Seq(Nat)
        /\ Len(SubSeq(t, 1, k - 1)) = IF 1 <= k - 1 THEN k - 1 - 1 + 1 ELSE 0
        /\ \A i \in 1..(k - 1 - 1 + 1) : SubSeq(t, 1, k - 1)[i] = t[1 + i - 1]
    <3>1. 1 \in Int /\ k - 1 \in Int
      BY <1>3
    <3> HIDE DEF s, t, k
    <3> QED
      BY <2>1, <3>1, SubSeqProperties
  <2>3. /\ Len(SubSeq(t, 1, k - 1)) = Len(a)
        /\ \A i \in 1..Len(a) : SubSeq(t, 1, k - 1)[i] = a[i]
    <3> HIDE DEF s, t
    <3> QED
      BY <1>3, <2>1, <2>2
  <2> HIDE DEF s, t, k
  <2> QED
    BY <1>1, <2>2, <2>3, SeqEqual
<1>9. SubSeq(t, k + 1, Len(t)) = b
  <2>1. \A i \in (k + 1)..Len(t) : t[i] \in Nat
    <3>1. \A i \in 1..Len(t) : t[i] \in Nat
      <4> HIDE DEF s, t
      <4> QED
        BY <1>3, ElementOfSeq
    <3> HIDE DEF s, t
    <3> QED
      BY <1>3, <3>1
  <2>2. /\ SubSeq(t, k + 1, Len(t)) \in Seq(Nat)
        /\ Len(SubSeq(t, k + 1, Len(t))) = IF k + 1 <= Len(t) THEN Len(t) - (k + 1) + 1 ELSE 0
        /\ \A i \in 1..(Len(t) - (k + 1) + 1) : SubSeq(t, k + 1, Len(t))[i] = t[k + 1 + i - 1]
    <3>1. Len(t) \in Int /\ k + 1 \in Int
      <4> HIDE DEF s, t
      <4> QED
        BY <1>3
    <3> HIDE DEF s, t, k
    <3> QED
      BY <2>1, <3>1, SubSeqProperties
  <2>3. /\ Len(SubSeq(t, k + 1, Len(t))) = Len(b)
        /\ \A i \in 1..Len(b) : SubSeq(t, k + 1, Len(t))[i] = b[i]
    <3>1. k \in Nat
      BY <1>3
    <3>2. PICK u : u = SubSeq(t, k + 1, Len(t))
      OBVIOUS
    <3>3. PICK n : n = Len(t)
      OBVIOUS
    <3> HIDE DEF s, t, k
    <3>4. n = k + Len(b) /\ n - (k + 1) + 1 = Len(b) /\ (k + 1 <= n <=> Len(b) > 0)
      BY <1>3, <3>1, <3>3
    <3>5. Len(u) = Len(b)
      BY <1>3, <2>2, <3>1, <3>2, <3>3, <3>4
    <3>6. ASSUME NEW i \in 1..Len(b) PROVE u[i] = b[i]
      <4>1. u[i] = t[k + 1 + i - 1]
        BY <2>2, <3>2, <3>3, <3>4
      <4>2. PICK m : m = k + 1 + i - 1
        OBVIOUS
      <4>3. m \in (k + 1)..Len(t) /\ m - k = i
        BY <1>3, <3>1, <3>3, <3>4, <4>2
      <4>4. t[m] = b[m - k]
        BY <1>3, <4>3
      <4> QED
        BY <4>1, <4>2, <4>3, <4>4
    <3> QED
      BY <3>2, <3>5, <3>6
  <2> HIDE DEF s, t, k
  <2> QED
    BY <1>1, <2>2, <2>3, SeqEqual
<1> HIDE DEF first, at, k
<1> QED
  BY <1>7, <1>8, <1>9

LEMMA Concat ==
    ASSUME NEW S, NEW a \in Seq(S), NEW b \in Seq(S)
    PROVE  /\ a \o b \in Seq(S)
           /\ (a # <<>> \/ b # <<>>) => a \o b # <<>>
<1>1. a \o b \in Seq(S) /\ Len(a \o b) = Len(a) + Len(b)
  BY ConcatProperties
<1>2. Len(a) \in Nat /\ Len(b) \in Nat /\ (a = <<>> <=> Len(a) = 0) /\ (b = <<>> <=> Len(b) = 0)
  BY EmptySeq, LenProperties
<1>3. a \o b = <<>> <=> Len(a \o b) = 0
  BY <1>1, EmptySeq
<1> QED
  BY <1>1, <1>2, <1>3

(* Concatenation, for steps that need not see what it is.                   *)
Cat(a, b) == a \o b

LEMMA CatAssociative ==
    ASSUME NEW S, NEW a \in Seq(S), NEW b \in Seq(S), NEW c \in Seq(S)
    PROVE  Cat(Cat(a, b), c) = Cat(a, Cat(b, c)) /\ Cat(a, b) \in Seq(S)
<1>1. Cat(Cat(a, b), c) = Cat(a, Cat(b, c))
  BY ConcatAssociative, SMT DEF Cat
<1>2. Cat(a, b) \in Seq(S)
  BY Concat DEF Cat
<1> QED
  BY <1>1, <1>2

(* The seven pieces of a frame, and where the hash parts them.              *)
LEMMA CatRegroups ==
    ASSUME NEW S, NEW l \in Seq(S), NEW h \in Seq(S), NEW s \in Seq(S), NEW c \in Seq(S),
           NEW g \in Seq(S)
    PROVE  Cat(Cat(Cat(Cat(l, h), s), c), g) = Cat(Cat(l, h), Cat(Cat(s, c), g))
BY CatAssociative

LEMMA NoPartition == \A c \in Nat : ~Partition(<<>>, c).found
<1>1. \A c \in Nat : {i \in DOMAIN <<>> : <<>>[i] = c} = {}
  OBVIOUS
<1>2. \A c \in Nat : Partition(<<>>, c) = [head |-> <<>>, tail |-> <<>>, found |-> FALSE]
  BY <1>1 DEF Partition
<1> QED
  BY <1>2

(* What DomainId, ExecutionName and ArgumentsDigest let a frame be.         *)
WellFormed ==
    {f \in Frames : /\ f.domain \in Seq(Digits \cup Letters) /\ f.domain # <<>>
                    /\ f.name # <<>> /\ f.digest # <<>>}

LEMMA FrameText ==
    ASSUME NEW f \in Frames
    PROVE  /\ FormatFrame(f) \in Seq(Nat \ {Slash}) /\ FormatFrame(f) # <<>>
           /\ FormatFrame(f) \in Text
<1> DEFINE S == Nat \ {Slash}
<1>1. f.domain \in Text /\ f.name \in Text /\ f.sequence \in Nat /\ f.digest \in Text
  BY DEF Frames
<1>2. PICK D, N, G : /\ D = Encode[f.domain] /\ N = Encode[f.name] /\ G = Encode[f.digest]
                     /\ D \in Seq(S) /\ N \in Seq(S) /\ G \in Seq(S)
  <2>1. Safe \subseteq S
    BY DEF Safe
  <2>2. Seq(Safe) \subseteq Seq(S)
    BY <2>1, SeqMonotonic
  <2> QED
    BY <1>1, <2>2, EncodedSafe
<1>3. PICK I : I = Decimal[f.sequence] /\ I \in Seq(S)
  <2>1. Digits \subseteq S
    BY DEF Digits, Slash
  <2>2. Seq(Digits) \subseteq Seq(S)
    BY <2>1, SeqMonotonic
  <2> QED
    BY <1>1, <2>2, DecimalRead
<1>4. PICK C, H : C = <<Colon>> /\ H = <<Hash>> /\ C \in Seq(S) /\ H \in Seq(S) /\ C # <<>>
  <2>1. Colon \in S /\ Hash \in S
    BY DEF Colon, Hash, Slash
  <2>2. \A c : <<c>> # <<>>
    OBVIOUS
  <2>3. <<Colon>> \in Seq(S) /\ <<Hash>> \in Seq(S)
    <3> HIDE DEF S
    <3> QED
      BY <2>1
  <2> QED
    BY <2>2, <2>3, Zenon
<1>5. FormatFrame(f) = D \o C \o N \o H \o I \o C \o G
  BY <1>2, <1>3, <1>4 DEF FormatFrame
<1> HIDE DEF S
<1>6. PICK a \in Seq(S) : a = D \o C /\ a # <<>>
  BY <1>2, <1>4, Concat
<1>7. PICK b \in Seq(S) : b = a \o N /\ b # <<>>
  BY <1>2, <1>6, Concat
<1>8. PICK d \in Seq(S) : d = b \o H /\ d # <<>>
  BY <1>4, <1>7, Concat
<1>9. PICK e \in Seq(S) : e = d \o I /\ e # <<>>
  BY <1>3, <1>8, Concat
<1>10. PICK u \in Seq(S) : u = e \o C /\ u # <<>>
  BY <1>4, <1>9, Concat
<1>11. u \o G \in Seq(S) /\ u \o G # <<>>
  BY <1>2, <1>10, Concat
<1>12. FormatFrame(f) \in Seq(S) /\ FormatFrame(f) # <<>>
  BY <1>5, <1>6, <1>7, <1>8, <1>9, <1>10, <1>11
<1>13. Seq(S) \subseteq Text
  <2>1. S \subseteq Nat
    BY DEF S
  <2> QED
    BY <2>1, SeqMonotonic DEF Text
<1> QED
  BY <1>12, <1>13 DEF S

(* _format_frame and _parse_frame.                                          *)
LEMMA FrameRead ==
    ASSUME NEW f \in WellFormed
    PROVE  IsFrame(FormatFrame(f)) /\ ParseFrame(FormatFrame(f)) = f
<1>1. /\ f.domain \in Text /\ f.name \in Text /\ f.sequence \in Nat /\ f.digest \in Text
      /\ f.domain \in Seq(Digits \cup Letters) /\ f.domain # <<>> /\ f.name # <<>>
      /\ f.digest # <<>>
      /\ f = [domain |-> f.domain, name |-> f.name, sequence |-> f.sequence,
              digest |-> f.digest]
  BY DEF WellFormed, Frames
<1>2. PICK D \in Seq(Safe), N \in Seq(Safe), G \in Seq(Safe) :
        D = Encode[f.domain] /\ N = Encode[f.name] /\ G = Encode[f.digest]
  BY <1>1, EncodedSafe
<1>3. PICK I \in Seq(Digits) : I = Decimal[f.sequence]
  BY <1>1, DecimalRead
<1>4. /\ D # <<>> /\ N # <<>> /\ G # <<>>
      /\ Unquoted[D] = f.domain /\ Unquoted[N] = f.name /\ Unquoted[G] = f.digest
  BY <1>1, <1>2, EncodedEnd, UnquotedEncoded
<1>5. IsOrdinal(I) /\ AsInt(I) = f.sequence
  BY <1>1, <1>3, OrdinalRead
<1>6. /\ Hash \in Nat /\ Colon \in Nat
      /\ Digits \subseteq Nat \ {Colon} /\ Digits \subseteq Nat
      /\ Safe \subseteq Nat \ {Colon} /\ Safe \subseteq Nat \ {Hash} /\ Safe \subseteq Nat
      /\ Colon \in Nat \ {Hash}
  BY DEF Hash, Colon, Digits, Safe
<1>7. /\ D \in Seq(Nat \ {Colon}) /\ D \in Seq(Nat \ {Hash}) /\ D \in Seq(Nat)
      /\ N \in Seq(Nat \ {Hash}) /\ N \in Text /\ N \in Seq(Nat)
      /\ I \in Seq(Nat \ {Colon}) /\ I \in Seq(Nat)
      /\ G \in Text /\ G \in Seq(Nat)
  <2>1. /\ Seq(Safe) \subseteq Seq(Nat \ {Colon}) /\ Seq(Safe) \subseteq Seq(Nat \ {Hash})
        /\ Seq(Safe) \subseteq Seq(Nat)
    BY <1>6, SeqMonotonic, Zenon
  <2>2. Seq(Digits) \subseteq Seq(Nat \ {Colon}) /\ Seq(Digits) \subseteq Seq(Nat)
    BY <1>6, SeqMonotonic, Zenon
  <2> QED
    BY <2>1, <2>2 DEF Text
<1>8. PICK L \in Seq(Nat \ {Hash}) : L = (D \o <<Colon>>) \o N /\ L \in Seq(Nat)
  <2>1. <<Colon>> \in Seq(Nat \ {Hash}) /\ <<Colon>> \in Seq(Nat)
    BY <1>6
  <2>2. D \o <<Colon>> \in Seq(Nat \ {Hash}) /\ D \o <<Colon>> \in Seq(Nat)
    BY <1>7, <2>1, Concat, Zenon
  <2>3. (D \o <<Colon>>) \o N \in Seq(Nat \ {Hash}) /\ (D \o <<Colon>>) \o N \in Seq(Nat)
    BY <1>7, <2>2, Concat, Zenon
  <2> QED
    BY <2>3
<1>9. PICK R \in Text : R = (I \o <<Colon>>) \o G
  <2>1. <<Colon>> \in Seq(Nat)
    BY <1>6
  <2>2. I \o <<Colon>> \in Seq(Nat)
    BY <1>7, <2>1, Concat, Zenon
  <2>3. (I \o <<Colon>>) \o G \in Seq(Nat)
    BY <1>7, <2>2, Concat, Zenon
  <2> QED
    BY <2>3 DEF Text
<1>10. FormatFrame(f) = (L \o <<Hash>>) \o R
  <2>1. <<Hash>> \in Seq(Nat) /\ <<Colon>> \in Seq(Nat)
    BY <1>6
  <2>2. L \o <<Hash>> \o I \o <<Colon>> \o G = (L \o <<Hash>>) \o ((I \o <<Colon>>) \o G)
    <3>1. PICK h \in Seq(Nat), c \in Seq(Nat) : h = <<Hash>> /\ c = <<Colon>>
      BY <2>1, Zenon
    <3>2. Cat(Cat(Cat(Cat(L, h), I), c), G) = Cat(Cat(L, h), Cat(Cat(I, c), G))
      <4>1. L \in Seq(Nat) /\ I \in Seq(Nat) /\ G \in Seq(Nat)
        BY <1>7, <1>8, Zenon
      <4> QED
        BY <4>1, CatRegroups
    <3>3. L \o h \o I \o c \o G = (L \o h) \o ((I \o c) \o G)
      BY <3>2, Zenon DEF Cat
    <3> QED
      BY <3>1, <3>3, Zenon
  <2>3. FormatFrame(f) = D \o <<Colon>> \o N \o <<Hash>> \o I \o <<Colon>> \o G
    BY <1>2, <1>3 DEF FormatFrame
  <2> QED
    BY <1>8, <1>9, <2>2, <2>3
<1>11. Partition(FormatFrame(f), Hash) = [head |-> L, tail |-> R, found |-> TRUE]
  BY <1>6, <1>8, <1>10, PartitionAt, Zenon
<1>12. Partition(L, Colon) = [head |-> D, tail |-> N, found |-> TRUE]
  BY <1>6, <1>7, <1>8, PartitionAt, Zenon
<1>13. Partition(R, Colon) = [head |-> I, tail |-> G, found |-> TRUE]
  BY <1>6, <1>7, <1>9, PartitionAt, Zenon
<1>14. PICK t : t = FormatFrame(f)
  OBVIOUS
<1>15. Parts(t) = [domain |-> D, name |-> N, sequence |-> I, digest |-> G, whole |-> TRUE]
  <2>1. PICK u, v, w : u = Partition(t, Hash) /\ v = Partition(u.head, Colon) /\ w = Partition(u.tail, Colon)
    OBVIOUS
  <2>2. u.head = L /\ u.tail = R
    BY <1>11, <1>14, <2>1
  <2>3. v = [head |-> D, tail |-> N, found |-> TRUE] /\ w = [head |-> I, tail |-> G, found |-> TRUE]
    BY <1>12, <1>13, <2>1, <2>2
  <2>4. Parts(t) = [domain |-> v.head, name |-> v.tail, sequence |-> w.head, digest |-> w.tail,
                    whole |-> v.found /\ w.found]
    BY <2>1, Zenon DEF Parts
  <2> QED
    BY <2>3, <2>4
<1>16. Decodes(D) /\ Decodes(N) /\ Decodes(G)
  BY <1>2, <1>4 DEF Decodes
<1>17. IsFrame(t)
  BY <1>1, <1>4, <1>5, <1>15, <1>16 DEF IsFrame
<1>18. ParseFrame(t) = f
  BY <1>1, <1>4, <1>5, <1>15 DEF ParseFrame
<1> QED
  BY <1>14, <1>17, <1>18

LEMMA ValueNat ==
    ASSUME NEW t \in Seq(Digits)
    PROVE  Value[t] \in Nat
<1> DEFINE T == {u \in Seq(Digits) : Value[u] \in Nat}
<1>1. <<>> \in T
  BY ValueSteps, EmptySeq
<1>2. ASSUME NEW u \in T, NEW c \in Digits PROVE Append(u, c) \in T
  <2>1. u \in Seq(Digits) /\ Value[u] \in Nat
    OBVIOUS
  <2>2. c \in 48..57
    BY DEF Digits
  <2>3. Value[Append(u, c)] = 10 * Value[u] + c - 48
    BY <2>1, ValueSteps
  <2>4. Append(u, c) \in Seq(Digits)
    BY <2>1, Appended
  <2> QED
    BY <2>1, <2>2, <2>3, <2>4
<1>3. T \in SUBSET Seq(Digits)
  OBVIOUS
<1> HIDE DEF T
<1>4. T = Seq(Digits)
  BY <1>1, <1>2, <1>3, SeqInduct
<1> QED
  BY <1>4 DEF T

LEMMA FrameWritten ==
    ASSUME NEW t \in Text, IsFrame(t)
    PROVE  ParseFrame(t) \in WellFormed /\ FormatFrame(ParseFrame(t)) = t
<1>1. PICK u, v, w : /\ u = Partition(t, Hash) /\ v = Partition(u.head, Colon)
                     /\ w = Partition(u.tail, Colon)
  OBVIOUS
<1>2. /\ Hash \in Nat /\ Colon \in Nat
      /\ <<Hash>> \in Seq(Nat) /\ <<Colon>> \in Seq(Nat)
  BY DEF Hash, Colon
<1>3. /\ u.head \in Text /\ u.tail \in Text
      /\ u.found => t = (u.head \o <<Hash>>) \o u.tail
      /\ ~u.found => u.tail = <<>>
  <2>1. /\ u.head \in Text /\ u.tail \in Text
        /\ u.found => t = (u.head \o <<Hash>>) \o u.tail
    BY <1>1, <1>2, PartitionTypes
  <2>2. ~u.found => u.tail = <<>>
    <3>1. u = [head |-> t, tail |-> <<>>, found |-> FALSE] \/ u.found
      BY <1>1 DEF Partition
    <3> QED
      BY <3>1
  <2> QED
    BY <2>1, <2>2
<1>4. /\ v.head \in Text /\ v.tail \in Text
      /\ v.found => u.head = (v.head \o <<Colon>>) \o v.tail
  BY <1>1, <1>2, <1>3, PartitionTypes
<1>5. /\ w.head \in Text /\ w.tail \in Text
      /\ w.found => u.tail = (w.head \o <<Colon>>) \o w.tail
  BY <1>1, <1>2, <1>3, PartitionTypes
<1>6. Parts(t) = [domain |-> v.head, name |-> v.tail, sequence |-> w.head,
                  digest |-> w.tail, whole |-> v.found /\ w.found]
  BY <1>1, Zenon DEF Parts
<1>7. /\ v.found /\ w.found
      /\ Decodes(v.head) /\ Decodes(v.tail) /\ Decodes(w.tail) /\ IsOrdinal(w.head)
      /\ v.tail # <<>> /\ w.tail # <<>> /\ v.head # <<>>
      /\ Unquoted[v.head] \in Seq(Digits \cup Letters)
  <2>1. PICK p : p = Parts(t)
    OBVIOUS
  <2>2. /\ p.domain = v.head /\ p.name = v.tail /\ p.sequence = w.head /\ p.digest = w.tail
        /\ p.whole = (v.found /\ w.found)
    BY <1>6, <2>1
  <2>3. /\ p.whole
        /\ Decodes(p.domain) /\ Decodes(p.name) /\ Decodes(p.digest) /\ IsOrdinal(p.sequence)
        /\ p.name # <<>> /\ p.digest # <<>> /\ p.domain # <<>>
        /\ Unquoted[p.domain] \in Seq(Digits \cup Letters)
    BY <2>1, Zenon DEF IsFrame
  <2> QED
    BY <2>2, <2>3, Zenon
<1>8. u.found
  BY <1>1, <1>2, <1>3, <1>7, NoPartition
<1>9. ParseFrame(t) = [domain |-> Unquoted[v.head], name |-> Unquoted[v.tail],
                       sequence |-> AsInt(w.head), digest |-> Unquoted[w.tail]]
  BY <1>6 DEF ParseFrame
<1>10. /\ Encode[Unquoted[v.head]] = v.head /\ Encode[Unquoted[v.tail]] = v.tail
       /\ Encode[Unquoted[w.tail]] = w.tail /\ Decimal[AsInt(w.head)] = w.head
  BY <1>7 DEF Decodes, IsOrdinal
<1>11. ParseFrame(t) \in WellFormed
  <2>1. AsInt(w.head) \in Nat
    BY <1>7, ValueNat DEF AsInt, IsOrdinal, IsInt
  <2>2. Unquoted[v.head] \in Text /\ Unquoted[v.tail] \in Text /\ Unquoted[w.tail] \in Text
    BY <1>4, <1>5, UnquotedText
  <2>3. Unquoted[v.head] # <<>> /\ Unquoted[v.tail] # <<>> /\ Unquoted[w.tail] # <<>>
    BY <1>7, <1>10, EncodeSteps
  <2> QED
    BY <1>7, <1>9, <2>1, <2>2, <2>3 DEF WellFormed, Frames
<1>12. FormatFrame(ParseFrame(t)) = t
  <2>1. PICK D \in Seq(Nat), N \in Seq(Nat), I \in Seq(Nat), G \in Seq(Nat) :
          D = v.head /\ N = v.tail /\ I = w.head /\ G = w.tail
    BY <1>4, <1>5 DEF Text
  <2>2. PICK C \in Seq(Nat), H \in Seq(Nat) : C = <<Colon>> /\ H = <<Hash>>
    BY <1>2, Zenon
  <2>3. FormatFrame(ParseFrame(t)) = D \o C \o N \o H \o I \o C \o G
    <3>1. PICK f : f = ParseFrame(t)
      OBVIOUS
    <3>2. /\ f.domain = Unquoted[v.head] /\ f.name = Unquoted[v.tail]
          /\ f.sequence = AsInt(w.head) /\ f.digest = Unquoted[w.tail]
      BY <1>9, <3>1
    <3>3. /\ Encode[f.domain] = D /\ Encode[f.name] = N /\ Decimal[f.sequence] = I
          /\ Encode[f.digest] = G
      BY <1>10, <2>1, <3>2, Zenon
    <3> QED
      BY <2>2, <3>1, <3>3, Zenon DEF FormatFrame
  <2>4. t = ((D \o C \o N) \o H) \o ((I \o C) \o G)
    BY <1>3, <1>4, <1>5, <1>7, <1>8, <2>1, <2>2
  <2>5. FormatFrame(ParseFrame(t)) = Cat(Cat(Cat(Cat(Cat(Cat(D, C), N), H), I), C), G)
    BY <2>3, Zenon DEF Cat
  <2>6. t = Cat(Cat(Cat(Cat(D, C), N), H), Cat(Cat(I, C), G))
    BY <2>4, Zenon DEF Cat
  <2>7. PICK L \in Seq(Nat) : L = Cat(Cat(D, C), N)
    BY CatAssociative
  <2>8. Cat(Cat(Cat(Cat(L, H), I), C), G) = Cat(Cat(L, H), Cat(Cat(I, C), G))
    BY CatRegroups
  <2> QED
    BY <2>5, <2>6, <2>7, <2>8, Zenon
<1> QED
  BY <1>11, <1>12

-----------------------------------------------------------------------------
(* Split and join. *)

Pieces == Seq(Text) \ {<<>>}

LEMMA GrownPieces ==
    ASSUME NEW p \in Pieces, NEW c \in Nat
    PROVE  Grown(p, c) \in Pieces
<1>1. p \in Seq(Text) /\ p # <<>>
  BY DEF Pieces
<1>2. Front(p) \in Seq(Text) /\ Last(p) \in Text
  BY <1>1, Unappended
<1>3. Append(Last(p), c) \in Text /\ <<>> \in Text
  BY <1>2, AppendProperties, EmptySeq DEF Text
<1>4. Append(p, <<>>) \in Pieces
  BY <1>1, <1>3, Appended DEF Pieces
<1>5. Append(Front(p), Append(Last(p), c)) \in Pieces
  BY <1>2, <1>3, Appended DEF Pieces
<1> QED
  BY <1>4, <1>5, Zenon DEF Grown

LEMMA OnePiece ==
    ASSUME NEW x \in Text
    PROVE  /\ <<x>> \in Pieces /\ <<x>> = Append(<<>>, x) /\ Front(<<x>>) = <<>>
           /\ Last(<<x>>) = x /\ Len(<<x>>) = 1
<1>1. <<x>> = Append(<<>>, x)
  OBVIOUS
<1>2. <<>> \in Seq(Text)
  BY EmptySeq
<1>3. /\ Append(<<>>, x) \in Seq(Text) /\ Append(<<>>, x) # <<>>
      /\ Front(Append(<<>>, x)) = <<>> /\ Last(Append(<<>>, x)) = x
  BY <1>2, Appended
<1>4. Len(<<x>>) = 1
  OBVIOUS
<1> QED
  BY <1>1, <1>3, <1>4, Zenon DEF Pieces

LEMMA SplitEquation ==
    \A t \in Text : Split[t] = IF t = <<>> THEN << <<>> >> ELSE Grown(Split[Front(t)], Last(t))
<1> DEFINE step == [x \in Pieces \X Text |-> IF x[2] = <<>> THEN << <<>> >>
                                             ELSE Grown(x[1], Last(x[2]))]
<1>1. << <<>> >> \in Pieces
  <2>1. <<>> \in Text
    BY EmptySeq DEF Text
  <2> QED
    BY <2>1, OnePiece
<1>2. step \in [Pieces \X Text -> Pieces]
  <2>1. ASSUME NEW r \in Pieces, NEW s \in Text, s # <<>>
        PROVE  Grown(r, Last(s)) \in Pieces
    <3>1. Last(s) \in Nat
      BY <2>1, Unappended DEF Text
    <3> QED
      BY <3>1, GrownPieces
  <2> QED
    BY <1>1, <2>1
<1>3. PICK f : SeqSolution(Nat, Pieces, << <<>> >>, step, f)
  <2>1. step \in [Pieces \X Seq(Nat) -> Pieces]
    BY <1>2 DEF Text
  <2> HIDE DEF step
  <2> QED
    BY <1>1, <2>1, SeqRecursion, Zenon
<1>4. f = [t \in Text |-> IF t = <<>> THEN << <<>> >> ELSE Grown(f[Front(t)], Last(t))]
  <2>1. f \in [Text -> Pieces]
    BY <1>3 DEF SeqSolution, Text
  <2>2. ASSUME NEW t \in Text
        PROVE  f[t] = IF t = <<>> THEN << <<>> >> ELSE Grown(f[Front(t)], Last(t))
    <3>1. t # <<>> => Front(t) \in Text /\ f[Front(t)] \in Pieces
      BY <2>1, Unappended DEF Text
    <3>2. t # <<>> => step[<<f[Front(t)], t>>] = Grown(f[Front(t)], Last(t))
      BY <3>1
    <3>3. f[t] = IF t = <<>> THEN << <<>> >> ELSE step[<<f[Front(t)], t>>]
      BY <1>3, Zenon DEF SeqSolution, Text
    <3> HIDE DEF step
    <3> QED
      BY <3>2, <3>3, Zenon
  <2> QED
    BY <2>1, <2>2
<1>5. Split = [t \in Text |-> IF t = <<>> THEN << <<>> >> ELSE Grown(Split[Front(t)], Last(t))]
  <2> HIDE DEF step
  <2> QED
    BY <1>4, Zenon DEF Split
<1> QED
  BY <1>5, Zenon

LEMMA SplitSteps ==
    /\ Split[<<>>] = << <<>> >>
    /\ \A s \in Text, c \in Nat : Split[Append(s, c)] = Grown(Split[s], c)
<1>1. <<>> \in Text
  BY EmptySeq DEF Text
<1>2. ASSUME NEW s \in Text, NEW c \in Nat
      PROVE  Split[Append(s, c)] = Grown(Split[s], c)
  <2>1. /\ Append(s, c) \in Text /\ Append(s, c) # <<>>
        /\ Front(Append(s, c)) = s /\ Last(Append(s, c)) = c
    BY Appended DEF Text
  <2> QED
    BY <2>1, SplitEquation, Zenon
<1>3. Split[<<>>] = << <<>> >>
  BY <1>1, SplitEquation, Zenon
<1> QED
  BY <1>2, <1>3

LEMMA SplitPieces ==
    ASSUME NEW t \in Text
    PROVE  Split[t] \in Pieces
<1> DEFINE T == {u \in Seq(Nat) : Split[u] \in Pieces}
<1>1. <<>> \in T
  BY SplitSteps, OnePiece, EmptySeq DEF Text
<1>2. ASSUME NEW u \in T, NEW c \in Nat PROVE Append(u, c) \in T
  <2>1. u \in Seq(Nat) /\ u \in Text /\ Split[u] \in Pieces
    BY DEF Text
  <2>2. Split[Append(u, c)] = Grown(Split[u], c) /\ Append(u, c) \in Seq(Nat)
    BY <2>1, SplitSteps, Appended
  <2>3. Grown(Split[u], c) \in Pieces
    BY <2>1, GrownPieces
  <2> QED
    BY <2>2, <2>3
<1>3. T \in SUBSET Seq(Nat)
  OBVIOUS
<1> HIDE DEF T
<1>4. T = Seq(Nat)
  BY <1>1, <1>2, <1>3, SeqInduct
<1> QED
  BY <1>4 DEF T, Text

LEMMA JoinEquation ==
    \A s \in Seq(Text) :
        Join[s] = IF s = <<>> THEN <<>>
                  ELSE IF Len(s) = 1 THEN s[1] ELSE Below(Join[Front(s)]) \o Last(s)
<1> DEFINE step == [x \in Text \X Seq(Text) |->
                        IF x[2] = <<>> THEN <<>>
                        ELSE IF Len(x[2]) = 1 THEN x[2][1] ELSE Below(x[1]) \o Last(x[2])]
<1>1. <<>> \in Text
  BY EmptySeq DEF Text
<1>2. step \in [Text \X Seq(Text) -> Text]
  <2>1. ASSUME NEW r \in Text, NEW s \in Seq(Text), s # <<>>
        PROVE  s[1] \in Text /\ Below(r) \o Last(s) \in Text
    <3>1. Last(s) \in Text /\ Len(s) \in Nat \ {0}
      BY <2>1, Unappended
    <3>2. Below(r) \in Text
      BY AppendProperties DEF Below, Text, Slash
    <3>3. s[1] \in Text
      BY <3>1, ElementOfSeq
    <3> QED
      BY <3>1, <3>2, <3>3, Concat DEF Text
  <2> QED
    BY <1>1, <2>1
<1>3. PICK f : SeqSolution(Text, Text, <<>>, step, f)
  <2> HIDE DEF step
  <2> QED
    BY <1>1, <1>2, SeqRecursion, Zenon
<1>4. f = [s \in Seq(Text) |-> IF s = <<>> THEN <<>>
                               ELSE IF Len(s) = 1 THEN s[1] ELSE Below(f[Front(s)]) \o Last(s)]
  <2>1. f \in [Seq(Text) -> Text]
    BY <1>3, Zenon DEF SeqSolution
  <2>2. ASSUME NEW s \in Seq(Text)
        PROVE  f[s] = IF s = <<>> THEN <<>>
                      ELSE IF Len(s) = 1 THEN s[1] ELSE Below(f[Front(s)]) \o Last(s)
    <3>1. s # <<>> => Front(s) \in Seq(Text) /\ f[Front(s)] \in Text
      BY <2>1, Unappended
    <3>2. s # <<>> => step[<<f[Front(s)], s>>] = IF Len(s) = 1 THEN s[1]
                                                 ELSE Below(f[Front(s)]) \o Last(s)
      BY <3>1
    <3>3. f[s] = IF s = <<>> THEN <<>> ELSE step[<<f[Front(s)], s>>]
      BY <1>3, Zenon DEF SeqSolution
    <3> HIDE DEF step
    <3> QED
      BY <3>2, <3>3, Zenon
  <2> QED
    BY <2>1, <2>2
<1>5. Join = [s \in Seq(Text) |-> IF s = <<>> THEN <<>>
                                  ELSE IF Len(s) = 1 THEN s[1]
                                  ELSE Below(Join[Front(s)]) \o Last(s)]
  <2> HIDE DEF step
  <2> QED
    BY <1>4, Zenon DEF Join
<1> QED
  BY <1>5, Zenon

Bar == <<Slash>>

LEMMA BarText == Bar \in Text /\ Slash \in Nat
<1>1. Slash \in Nat
  BY DEF Slash
<1> QED
  BY <1>1 DEF Bar, Text

LEMMA CatText ==
    ASSUME NEW a \in Text, NEW b \in Text, NEW x \in Text
    PROVE  Cat(a, b) \in Text /\ Cat(Cat(a, b), x) = Cat(a, Cat(b, x))
<1>1. a \in Seq(Nat) /\ b \in Seq(Nat) /\ x \in Seq(Nat)
  BY DEF Text
<1> QED
  BY <1>1, CatAssociative DEF Text

LEMMA CatAppend ==
    ASSUME NEW a \in Text, NEW x \in Text, NEW c \in Nat
    PROVE  /\ Cat(a, Append(x, c)) = Append(Cat(a, x), c)
           /\ Append(x, c) = Cat(x, <<c>>) /\ Append(x, c) \in Text
<1>1. <<c>> \in Text
  BY DEF Text
<1>2. \A y \in Text : Append(y, c) = Cat(y, <<c>>)
  BY AppendIsConcat DEF Cat, Text
<1>3. Append(x, c) \in Text
  BY AppendProperties DEF Text
<1>4. Cat(a, x) \in Text /\ Cat(Cat(a, x), <<c>>) = Cat(a, Cat(x, <<c>>))
  BY <1>1, CatText
<1> QED
  BY <1>2, <1>3, <1>4, Zenon

LEMMA BelowText ==
    ASSUME NEW t \in Text
    PROVE  Cat(t, Bar) \in Text /\ Cat(t, Bar) = Append(t, Slash)
<1>1. Append(t, Slash) \in Text /\ Append(t, Slash) = Cat(t, <<Slash>>)
  BY BarText, CatAppend
<1> QED
  BY <1>1, Zenon DEF Bar

LEMMA CatEmpty ==
    ASSUME NEW a \in Text
    PROVE  Cat(a, <<>>) = a /\ Cat(<<>>, a) = a
BY ConcatEmptySeq DEF Cat, Text

LEMMA JoinSteps ==
    /\ \A x \in Text : Join[<<x>>] = x
    /\ \A s \in Pieces : Join[s] \in Text
    /\ \A s \in Pieces, x \in Text : Join[Append(s, x)] = Cat(Cat(Join[s], Bar), x)
<1>1. ASSUME NEW x \in Text PROVE Join[<<x>>] = x
  <2>1. <<x>> \in Seq(Text) /\ <<x>> # <<>> /\ Len(<<x>>) = 1
    BY OnePiece DEF Pieces
  <2>2. <<x>>[1] = x
    OBVIOUS
  <2> QED
    BY <2>1, <2>2, JoinEquation, Zenon
<1>2. ASSUME NEW s \in Pieces, NEW x \in Text
      PROVE  Join[Append(s, x)] = Below(Join[s]) \o x
  <2>1. s \in Seq(Text) /\ s # <<>>
    BY DEF Pieces
  <2>2. PICK a \in Seq(Text) : /\ a = Append(s, x) /\ a # <<>> /\ Front(a) = s /\ Last(a) = x
    BY <2>1, Appended
  <2>3. Len(a) # 1
    <3>1. Len(s) \in Nat \ {0} /\ Len(a) = Len(s) + 1
      BY <2>1, <2>2, Unappended, AppendProperties
    <3> QED
      BY <3>1
  <2> QED
    BY <2>2, <2>3, JoinEquation, Zenon
<1> DEFINE T == {s \in Seq(Text) : s # <<>> => Join[s] \in Text}
<1>3. <<>> \in T
  BY EmptySeq
<1>4. ASSUME NEW s \in T, NEW x \in Text PROVE Append(s, x) \in T
  <2>1. s \in Seq(Text) /\ (s # <<>> => s \in Pieces /\ Join[s] \in Text)
    BY DEF Pieces
  <2>2. Append(s, x) \in Seq(Text)
    BY <2>1, Appended
  <2>3. CASE s = <<>>
    <3>1. Append(s, x) = <<x>>
      BY <2>3
    <3> QED
      BY <1>1, <2>2, <3>1
  <2>4. CASE s # <<>>
    <3>1. Join[Append(s, x)] = Below(Join[s]) \o x
      BY <1>2, <2>1, <2>4
    <3>2. Below(Join[s]) \in Seq(Nat)
      BY <2>1, <2>4, BarText, AppendProperties DEF Below, Text
    <3>3. Below(Join[s]) \o x \in Text
      BY <3>2, Concat DEF Text
    <3> QED
      BY <2>2, <3>1, <3>3
  <2> QED
    BY <2>3, <2>4
<1>5. T \in SUBSET Seq(Text)
  OBVIOUS
<1>6. T = Seq(Text)
  <2> HIDE DEF T
  <2> QED
    BY <1>3, <1>4, <1>5, SeqInduct
<1>7. \A s \in Pieces : Join[s] \in Text
  BY <1>6 DEF Pieces
<1>8. ASSUME NEW s \in Pieces, NEW x \in Text
      PROVE  Join[Append(s, x)] = Cat(Cat(Join[s], Bar), x)
  <2>1. Below(Join[s]) = Cat(Join[s], Bar)
    BY <1>7, BarText, CatAppend DEF Below, Bar
  <2> QED
    BY <1>2, <2>1, Zenon DEF Cat
<1> QED
  BY <1>1, <1>7, <1>8

(* A text with no slash is one piece.                                       *)
Unslashed == Nat \ {Slash}

LEMMA SplitUnslashed ==
    ASSUME NEW t \in Seq(Unslashed)
    PROVE  t \in Text /\ Split[t] = <<t>>
<1>1. Unslashed \subseteq Nat
  BY DEF Unslashed
<1>2. Seq(Unslashed) \subseteq Text
  BY <1>1, SeqMonotonic DEF Text
<1> DEFINE T == {u \in Seq(Unslashed) : Split[u] = <<u>>}
<1>3. <<>> \in T
  BY EmptySeq, SplitSteps
<1>4. ASSUME NEW u \in T, NEW c \in Unslashed PROVE Append(u, c) \in T
  <2>1. u \in Seq(Unslashed) /\ u \in Text /\ Split[u] = <<u>>
    BY <1>2
  <2>2. c \in Nat /\ c # Slash
    BY DEF Unslashed
  <2>3. Split[Append(u, c)] = Append(Front(<<u>>), Append(Last(<<u>>), c))
    BY <2>1, <2>2, SplitSteps DEF Grown
  <2>4. Front(<<u>>) = <<>> /\ Last(<<u>>) = u
    BY <2>1, OnePiece
  <2>5. Split[Append(u, c)] = Append(<<>>, Append(u, c))
    BY <2>3, <2>4, Zenon
  <2>6. PICK a : a = Append(u, c)
    OBVIOUS
  <2>7. Append(<<>>, a) = <<a>>
    OBVIOUS
  <2>8. Append(u, c) \in Seq(Unslashed)
    BY <2>1, Appended
  <2> QED
    BY <2>5, <2>6, <2>7, <2>8
<1>5. T \in SUBSET Seq(Unslashed)
  OBVIOUS
<1>6. T = Seq(Unslashed)
  <2> HIDE DEF T
  <2> QED
    BY <1>3, <1>4, <1>5, SeqInduct
<1> QED
  BY <1>2, <1>6

LEMMA GrownConcat ==
    ASSUME NEW p \in Pieces, NEW q \in Pieces, NEW c \in Nat
    PROVE  Grown(Cat(p, q), c) = Cat(p, Grown(q, c))
<1>1. p \in Seq(Text) /\ q \in Seq(Text) /\ q # <<>>
  BY DEF Pieces
<1>2. PICK r \in Seq(Text), x \in Text : /\ q = Append(r, x) /\ r = Front(q) /\ x = Last(q)
  BY <1>1, Unappended
<1>3. Append(x, c) \in Text /\ <<>> \in Text
  BY AppendProperties, EmptySeq DEF Text
<1>4. \A s \in Seq(Text), y \in Text : Cat(p, Append(s, y)) = Append(Cat(p, s), y)
  <2>1. ASSUME NEW s \in Seq(Text), NEW y \in Text
        PROVE  Cat(p, Append(s, y)) = Append(Cat(p, s), y)
    <3>1. <<y>> \in Seq(Text)
      OBVIOUS
    <3>2. \A z \in Seq(Text) : Append(z, y) = Cat(z, <<y>>)
      BY AppendIsConcat DEF Cat
    <3>3. PICK u \in Seq(Text) : u = <<y>>
      BY <3>1
    <3>4. p \in Seq(Text)
      BY <1>1
    <3>5. Cat(p, s) \in Seq(Text) /\ Cat(Cat(p, s), u) = Cat(p, Cat(s, u))
      BY <3>4, CatAssociative
    <3> QED
      BY <3>2, <3>3, <3>5, Zenon
  <2> QED
    BY <2>1
<1>5. Cat(p, q) = Append(Cat(p, r), x) /\ Cat(p, r) \in Seq(Text) /\ Cat(p, q) \in Seq(Text)
  BY <1>1, <1>2, <1>4, CatAssociative
<1>6. Front(Cat(p, q)) = Cat(p, r) /\ Last(Cat(p, q)) = x
  BY <1>5, Appended
<1>7. CASE c = Slash
  <2>1. Grown(Cat(p, q), c) = Append(Cat(p, q), <<>>) /\ Grown(q, c) = Append(q, <<>>)
    BY <1>7, Zenon DEF Grown
  <2> QED
    BY <1>1, <1>3, <1>4, <2>1, Zenon
<1>8. CASE c # Slash
  <2>1. /\ Grown(Cat(p, q), c) = Append(Cat(p, r), Append(x, c))
        /\ Grown(q, c) = Append(r, Append(x, c))
    BY <1>2, <1>6, <1>8, Zenon DEF Grown
  <2> QED
    BY <1>3, <1>4, <2>1, Zenon
<1> QED
  BY <1>7, <1>8

LEMMA CatPieces ==
    ASSUME NEW p \in Pieces, NEW q \in Pieces
    PROVE  Cat(p, q) \in Pieces
BY Concat DEF Cat, Pieces

LEMMA SplitConcat ==
    ASSUME NEW t \in Text, NEW x \in Text
    PROVE  Split[Cat(Cat(t, Bar), x)] = Cat(Split[t], Split[x])
<1> DEFINE b == Cat(t, Bar)
           T == {y \in Seq(Nat) : Split[Cat(b, y)] = Cat(Split[t], Split[y])}
<1>1. b \in Text /\ b = Append(t, Slash) /\ Split[t] \in Pieces
  BY BelowText, SplitPieces
<1>2. <<>> \in T
  <2>1. Cat(b, <<>>) = Append(t, Slash)
    <3> HIDE DEF b
    <3> QED
      BY <1>1, CatEmpty
  <2>2. Split[Append(t, Slash)] = Append(Split[t], <<>>)
    BY SplitSteps, BarText DEF Grown
  <2>3. Append(Split[t], <<>>) = Cat(Split[t], << <<>> >>)
    <3>1. PICK p \in Seq(Text) : p = Split[t]
      BY <1>1 DEF Pieces
    <3>2. <<>> \in Text
      BY EmptySeq DEF Text
    <3>3. Append(p, <<>>) = p \o << <<>> >>
      BY <3>2, AppendIsConcat
    <3> QED
      BY <3>1, <3>3, Zenon DEF Cat
  <2>4. Split[Cat(b, <<>>)] = Cat(Split[t], Split[<<>>])
    BY <2>1, <2>2, <2>3, SplitSteps, Zenon
  <2>5. <<>> \in Seq(Nat)
    BY EmptySeq
  <2> HIDE DEF b
  <2> QED
    BY <2>4, <2>5
<1>3. ASSUME NEW y \in T, NEW c \in Nat PROVE Append(y, c) \in T
  <2> HIDE DEF b
  <2>1. y \in Seq(Nat) /\ y \in Text /\ Split[Cat(b, y)] = Cat(Split[t], Split[y])
    BY DEF Text
  <2>2. Split[y] \in Pieces /\ Cat(b, y) \in Text
    BY <1>1, <2>1, CatText, SplitPieces
  <2>3. Cat(b, Append(y, c)) = Append(Cat(b, y), c)
    BY <1>1, <2>1, CatAppend
  <2>4. Split[Append(Cat(b, y), c)] = Grown(Split[Cat(b, y)], c)
    BY <2>2, SplitSteps
  <2>5. Split[Append(y, c)] = Grown(Split[y], c)
    BY <2>1, SplitSteps
  <2>6. Grown(Cat(Split[t], Split[y]), c) = Cat(Split[t], Grown(Split[y], c))
    BY <1>1, <2>2, GrownConcat
  <2>7. Split[Cat(b, Append(y, c))] = Cat(Split[t], Split[Append(y, c)])
    BY <2>1, <2>3, <2>4, <2>5, <2>6, Zenon
  <2>8. Append(y, c) \in Seq(Nat)
    BY <2>1, Appended
  <2> QED
    BY <2>7, <2>8
<1>4. T \in SUBSET Seq(Nat)
  OBVIOUS
<1>5. T = Seq(Nat)
  <2> HIDE DEF T
  <2> QED
    BY <1>2, <1>3, <1>4, SeqInduct
<1> HIDE DEF b
<1>6. x \in T
  BY <1>5 DEF Text
<1> QED
  BY <1>6 DEF b

LEMMA SplitJoin ==
    ASSUME NEW s \in Seq(Seq(Unslashed)), s # <<>>
    PROVE  s \in Pieces /\ Split[Join[s]] = s
<1> DEFINE R == Seq(Unslashed)
           T == {q \in Seq(R) : q # <<>> => Split[Join[q]] = q}
<1>1. R \subseteq Text
  BY SplitUnslashed
<1>2. \A q \in Seq(R) : q \in Seq(Text)
  <2> HIDE DEF R
  <2> QED
    BY <1>1, SeqMonotonic
<1>3. <<>> \in T
  BY EmptySeq
<1>4. ASSUME NEW q \in T, NEW x \in R PROVE Append(q, x) \in T
  <2>1. q \in Seq(R) /\ (q # <<>> => q \in Pieces /\ Split[Join[q]] = q)
    BY <1>2 DEF Pieces
  <2>2. x \in Text /\ Split[x] = <<x>>
    BY SplitUnslashed
  <2>3. Append(q, x) \in Seq(R)
    <3> HIDE DEF R
    <3> QED
      BY <2>1, Appended
  <2>4. CASE q = <<>>
    <3>1. Append(q, x) = <<x>>
      BY <2>4
    <3>2. Join[<<x>>] = x
      BY <2>2, JoinSteps
    <3> HIDE DEF R
    <3> QED
      BY <2>2, <2>3, <3>1, <3>2
  <2>5. CASE q # <<>>
    <3>1. q \in Pieces /\ Split[Join[q]] = q /\ q \in Seq(Text)
      BY <1>2, <2>1, <2>5
    <3>2. Join[q] \in Text /\ Join[Append(q, x)] = Cat(Cat(Join[q], Bar), x)
      BY <2>2, <3>1, JoinSteps
    <3>3. Split[Cat(Cat(Join[q], Bar), x)] = Cat(Split[Join[q]], Split[x])
      BY <2>2, <3>2, SplitConcat
    <3>4. Cat(q, <<x>>) = Append(q, x)
      BY <2>2, <3>1, AppendIsConcat DEF Cat
    <3>5. Split[Join[Append(q, x)]] = Append(q, x)
      BY <2>2, <3>1, <3>2, <3>3, <3>4, Zenon
    <3> HIDE DEF R
    <3> QED
      BY <2>3, <3>5
  <2> QED
    BY <2>4, <2>5
<1>5. T \in SUBSET Seq(R)
  OBVIOUS
<1>6. T = Seq(R)
  <2> HIDE DEF T, R
  <2> QED
    BY <1>3, <1>4, <1>5, SeqInduct
<1>7. s \in T /\ s \in Seq(Text)
  BY <1>2, <1>6
<1> QED
  BY <1>7 DEF Pieces

LEMMA JoinSplit ==
    ASSUME NEW t \in Text
    PROVE  Join[Split[t]] = t
<1> DEFINE T == {u \in Seq(Nat) : Join[Split[u]] = u}
<1>1. <<>> \in T
  <2>1. <<>> \in Text
    BY EmptySeq DEF Text
  <2>2. Join[<< <<>> >>] = <<>>
    BY <2>1, JoinSteps, Zenon
  <2>3. Join[Split[<<>>]] = <<>>
    BY <2>2, SplitSteps, Zenon
  <2> QED
    BY <2>1, <2>3 DEF Text
<1>2. ASSUME NEW u \in T, NEW c \in Nat PROVE Append(u, c) \in T
  <2>1. u \in Seq(Nat) /\ u \in Text /\ Join[Split[u]] = u
    BY DEF Text
  <2>2. PICK p \in Pieces : p = Split[u]
    BY <2>1, SplitPieces
  <2>3. Split[Append(u, c)] = Grown(p, c) /\ Append(u, c) \in Seq(Nat)
    BY <2>1, <2>2, SplitSteps, Appended
  <2>4. p \in Seq(Text) /\ p # <<>>
    BY DEF Pieces
  <2>5. PICK q \in Seq(Text), x \in Text :
          /\ p = Append(q, x) /\ q = Front(p) /\ x = Last(p)
    BY <2>4, Unappended
  <2>6. <<>> \in Text
    BY EmptySeq DEF Text
  <2>7. CASE c = Slash
    <3>1. Grown(p, c) = Append(p, <<>>)
      BY <2>7, Zenon DEF Grown
    <3>2. Join[Append(p, <<>>)] = Cat(Cat(Join[p], Bar), <<>>)
      BY <2>6, JoinSteps, Zenon
    <3>3. Cat(u, Bar) \in Text /\ Cat(u, Bar) = Append(u, c)
      BY <2>1, <2>7, BelowText
    <3>4. Cat(Cat(u, Bar), <<>>) = Cat(u, Bar)
      BY <3>3, CatEmpty
    <3>5. Join[Grown(p, c)] = Append(u, c)
      BY <2>1, <2>2, <3>1, <3>2, <3>3, <3>4, Zenon
    <3> QED
      BY <2>3, <3>5
  <2>8. CASE c # Slash
    <3>1. Grown(p, c) = Append(q, Append(x, c))
      BY <2>5, <2>8, Zenon DEF Grown
    <3>2. Append(x, c) \in Text
      BY CatAppend
    <3>3. CASE q = <<>>
      <4>1. p = <<x>>
        <5>1. p = Append(<<>>, x)
          BY <2>5, <3>3
        <5> QED
          BY <5>1, OnePiece
      <4>2. Join[p] = x
        BY <4>1, JoinSteps
      <4>3. PICK a \in Text : a = Append(x, c)
        BY <3>2
      <4>4. Grown(p, c) = <<a>>
        BY <3>1, <3>3, <4>3
      <4>5. Join[<<a>>] = a
        BY JoinSteps
      <4>6. Join[Grown(p, c)] = Append(u, c)
        BY <2>1, <2>2, <4>2, <4>3, <4>4, <4>5, Zenon
      <4> QED
        BY <2>3, <4>6
    <3>4. CASE q # <<>>
      <4>1. q \in Pieces
        BY <3>4 DEF Pieces
      <4>2. /\ Join[p] = Cat(Cat(Join[q], Bar), x)
            /\ Join[Append(q, Append(x, c))] = Cat(Cat(Join[q], Bar), Append(x, c))
        BY <2>5, <3>2, <4>1, JoinSteps
      <4>3. Cat(Join[q], Bar) \in Text
        BY <4>1, JoinSteps, BarText, CatText
      <4>4. Cat(Cat(Join[q], Bar), Append(x, c)) = Append(Cat(Cat(Join[q], Bar), x), c)
        BY <4>3, CatAppend
      <4>5. Join[Grown(p, c)] = Append(u, c)
        BY <2>1, <2>2, <3>1, <4>2, <4>4, Zenon
      <4> QED
        BY <2>3, <4>5
    <3> QED
      BY <3>3, <3>4
  <2> QED
    BY <2>7, <2>8
<1>3. T \in SUBSET Seq(Nat)
  OBVIOUS
<1>4. T = Seq(Nat)
  <2> HIDE DEF T
  <2> QED
    BY <1>1, <1>2, <1>3, SeqInduct
<1> QED
  BY <1>4 DEF Text

-----------------------------------------------------------------------------
(* Paths. *)

Identified == Seq(WellFormed) \ {<<>>}
Formatted(id) == [i \in DOMAIN id |-> FormatFrame(id[i])]

LEMMA PathSplit ==
    ASSUME NEW id \in Identified
    PROVE  /\ Formatted(id) \in Seq(Seq(Unslashed)) /\ Formatted(id) # <<>>
           /\ Formatted(id) \in Pieces
           /\ DOMAIN Formatted(id) = DOMAIN id
           /\ PathOf(id) \in Text /\ Split[PathOf(id)] = Formatted(id)
<1>1. id \in Seq(WellFormed) /\ id # <<>>
  BY DEF Identified
<1>2. Len(id) \in Nat \ {0} /\ DOMAIN id = 1..Len(id) /\ \A i \in 1..Len(id) : id[i] \in WellFormed
  BY <1>1, Unappended, SeqMembers
<1>3. \A i \in 1..Len(id) : FormatFrame(id[i]) \in Seq(Unslashed)
  <2>1. \A f \in WellFormed : f \in Frames
    BY DEF WellFormed
  <2> QED
    BY <1>2, <2>1, FrameText, Zenon DEF Unslashed
<1>4. Formatted(id) \in Seq(Seq(Unslashed)) /\ Len(Formatted(id)) = Len(id)
  <2>1. Formatted(id) = [i \in 1..Len(id) |-> FormatFrame(id[i])]
    BY <1>2, Zenon DEF Formatted
  <2>2. PICK R : R = Seq(Unslashed)
    OBVIOUS
  <2>3. Formatted(id) \in [1..Len(id) -> R]
    BY <1>3, <2>1, <2>2, Zenon
  <2>4. Formatted(id) \in Seq(R) /\ Len(Formatted(id)) = Len(id)
    BY <1>2, <2>3
  <2> QED
    BY <2>2, <2>4
<1>5. Formatted(id) # <<>>
  BY <1>2, <1>4, EmptySeq
<1>6. Formatted(id) \in Pieces /\ Split[Join[Formatted(id)]] = Formatted(id)
  BY <1>4, <1>5, SplitJoin
<1>7. PathOf(id) = Join[Formatted(id)]
  BY Zenon DEF PathOf, Formatted
<1>8. PathOf(id) \in Text
  BY <1>6, <1>7, JoinSteps
<1>9. DOMAIN Formatted(id) = DOMAIN id
  BY DEF Formatted
<1> QED
  BY <1>4, <1>5, <1>6, <1>7, <1>8, <1>9

(* A path is read back as the identity it was written from                  *)
(* (execution_id_to_path, path_to_execution_id).                            *)
THEOREM PathRead ==
    ASSUME NEW id \in Identified
    PROVE  IsPath(PathOf(id)) /\ IdOf(PathOf(id)) = id
<1>1. PICK t \in Text : t = PathOf(id) /\ Split[t] = Formatted(id)
  BY PathSplit
<1>2. DOMAIN id = 1..Len(id) /\ Len(id) \in Nat \ {0} /\ \A i \in DOMAIN id : id[i] \in WellFormed
  BY Unappended, SeqMembers DEF Identified
<1>3. \A i \in DOMAIN id : Split[t][i] = FormatFrame(id[i])
  BY <1>1 DEF Formatted
<1>4. DOMAIN Split[t] = DOMAIN id
  BY <1>1 DEF Formatted
<1>5. \A i \in DOMAIN id : IsFrame(Split[t][i]) /\ ParseFrame(Split[t][i]) = id[i]
  BY <1>2, <1>3, FrameRead, Zenon
<1>6. t # <<>>
  <2>1. SUFFICES ASSUME t = <<>> PROVE FALSE
    OBVIOUS
  <2>2. Split[t] = << <<>> >>
    BY <2>1, SplitSteps
  <2>3. Split[t][1] = <<>>
    BY <2>2
  <2>4. 1 \in DOMAIN id
    BY <1>2
  <2>5. id[1] \in Frames
    BY <1>2, <2>4 DEF WellFormed
  <2>6. FormatFrame(id[1]) # <<>>
    BY <2>5, FrameText, Zenon
  <2> QED
    BY <1>3, <2>3, <2>4, <2>6
<1>7. IsPath(t)
  BY <1>4, <1>5, <1>6, Zenon DEF IsPath
<1>8. IdOf(t) = [i \in DOMAIN id |-> id[i]]
  BY <1>4, <1>5, Zenon DEF IdOf
<1>9. id = [i \in DOMAIN id |-> id[i]]
  <2>1. id \in [1..Len(id) -> WellFormed]
    BY LenProperties DEF Identified
  <2> QED
    BY <2>1
<1> QED
  BY <1>1, <1>7, <1>8, <1>9

(* A text that is read as a path is the only path of the identity it is     *)
(* read as (_decode, _decode_sequence).                                     *)
THEOREM PathWritten ==
    ASSUME NEW t \in Text, IsPath(t)
    PROVE  IdOf(t) \in Identified /\ PathOf(IdOf(t)) = t
<1>1. Split[t] \in Pieces
  BY SplitPieces
<1>2. PICK s \in Seq(Text) : s = Split[t] /\ s # <<>>
  BY <1>1 DEF Pieces
<1>3. DOMAIN s = 1..Len(s) /\ Len(s) \in Nat \ {0} /\ \A i \in DOMAIN s : s[i] \in Text
  BY <1>2, Unappended, SeqMembers
<1>4. \A i \in DOMAIN s : IsFrame(s[i])
  BY <1>2, Zenon DEF IsPath
<1>5. \A i \in DOMAIN s : ParseFrame(s[i]) \in WellFormed /\ FormatFrame(ParseFrame(s[i])) = s[i]
  BY <1>3, <1>4, FrameWritten, Zenon
<1>6. IdOf(t) = [i \in DOMAIN s |-> ParseFrame(s[i])]
  BY <1>2, Zenon DEF IdOf
<1>7. IdOf(t) \in Identified
  <2>1. IdOf(t) \in [1..Len(s) -> WellFormed]
    BY <1>3, <1>5, <1>6, Zenon
  <2>2. IdOf(t) \in Seq(WellFormed) /\ Len(IdOf(t)) = Len(s)
    BY <1>3, <2>1
  <2>3. IdOf(t) # <<>>
    BY <1>3, <2>2, EmptySeq
  <2> QED
    BY <2>2, <2>3 DEF Identified
<1>8. [i \in DOMAIN IdOf(t) |-> FormatFrame(IdOf(t)[i])] = s
  <2>1. DOMAIN IdOf(t) = DOMAIN s /\ \A i \in DOMAIN s : IdOf(t)[i] = ParseFrame(s[i])
    BY <1>6
  <2>2. [i \in DOMAIN IdOf(t) |-> FormatFrame(IdOf(t)[i])] = [i \in DOMAIN s |-> s[i]]
    BY <1>5, <2>1, Zenon
  <2>3. s = [i \in DOMAIN s |-> s[i]]
    <3>1. s \in [1..Len(s) -> Text]
      BY LenProperties
    <3> QED
      BY <3>1
  <2> QED
    BY <2>2, <2>3, Zenon
<1>9. PathOf(IdOf(t)) = Join[s]
  BY <1>8, Zenon DEF PathOf
<1> QED
  BY <1>2, <1>7, <1>9, JoinSplit

-----------------------------------------------------------------------------
(* The identities of calls. *)

GoodFrames == {Frame(site, v) : site \in Sites, v \in DOMAIN Digest}
Ids == Seq(GoodFrames) \ {<<>>}

LEMMA GoodFramesAreWellFormed == GoodFrames \subseteq WellFormed
<1>1. ASSUME NEW site \in Sites, NEW v \in DOMAIN Digest PROVE Frame(site, v) \in WellFormed
  <2>1. v \in DOMAIN BytesOf
    BY DEF Digest
  <2>2. /\ Frame(site, v) \in Frames
        /\ site.domain \in Seq(Digits \cup Letters) /\ site.domain # <<>>
        /\ site.name # <<>> /\ Digest[v] # <<>>
    BY <2>1, RecordsAssumption DEF RecordsAssumption
  <2>3. /\ Frame(site, v).domain = site.domain /\ Frame(site, v).name = site.name
        /\ Frame(site, v).digest = Digest[v]
    BY DEF Frame
  <2> QED
    BY <2>2, <2>3 DEF WellFormed
<1> QED
  BY <1>1 DEF GoodFrames

LEMMA IdsAreIdentified == Ids \subseteq Identified
<1>1. ASSUME NEW id \in Ids PROVE id \in Identified
  <2>1. id \in Seq(GoodFrames) /\ id # <<>>
    BY DEF Ids
  <2>2. id \in Seq(WellFormed)
    BY <2>1, GoodFramesAreWellFormed, SeqMonotonic
  <2> QED
    BY <2>1, <2>2 DEF Identified
<1> QED
  BY <1>1

CallsHaveIds == \A c \in calls : c.id \in Ids

LEMMA CallsInvariant == Spec => []CallsHaveIds
<1>1. Init => CallsHaveIds
  BY DEF Init, CallsHaveIds
<1>2. CallsHaveIds /\ [Next]_rvars => CallsHaveIds'
  <2> SUFFICES ASSUME CallsHaveIds, [Next]_rvars PROVE CallsHaveIds'
    OBVIOUS
  <2>1. ASSUME NEW parent \in Known \cup {<<>>}, NEW site \in Sites, NEW v \in DOMAIN Digest,
               Call(parent, site, v)
        PROVE  CallsHaveIds'
    <3>1. parent \in Seq(GoodFrames)
      <4>1. \A id \in Known : id \in Seq(GoodFrames)
        BY DEF Known, CallsHaveIds, Ids
      <4>2. <<>> \in Seq(GoodFrames)
        BY EmptySeq
      <4> QED
        BY <4>1, <4>2
    <3>2. Frame(site, v) \in GoodFrames
      BY DEF GoodFrames
    <3>3. Append(parent, Frame(site, v)) \in Ids
      BY <3>1, <3>2, Appended DEF Ids
    <3>4. calls' = calls \cup {[id |-> Append(parent, Frame(site, v)), value |-> v]}
      BY <2>1, Zenon DEF Call
    <3>5. \A c \in calls' : c \in calls \/ c.id = Append(parent, Frame(site, v))
      BY <3>4
    <3> QED
      BY <3>3, <3>5, Zenon DEF CallsHaveIds
  <2>2. CASE calls' = calls
    BY <2>2 DEF CallsHaveIds
  <2>3. ASSUME NEW id \in Known, Delete(id) \/ \E content \in Contents : Save(id, content)
        PROVE  calls' = calls
    BY <2>3, Zenon DEF Delete, Save, Stage
  <2>4. ASSUME NEW under \in Known \cup {<<>>}, NEW status \in {None, "completed"},
               Enumerate(under, status)
        PROVE  calls' = calls
    BY <2>4 DEF Enumerate, store
  <2>5. ASSUME NEW paths \in SUBSET DOMAIN cursor, Fetch(paths) PROVE calls' = calls
    BY <2>5 DEF Fetch, store
  <2>6. Commit => calls' = calls
    BY Zenon DEF Commit
  <2>7. Select => calls' = calls
    BY Zenon DEF Select, store
  <2>8. Merge => calls' = calls
    BY Zenon DEF Merge, store
  <2>9. Finish => calls' = calls
    BY Zenon DEF Finish, store
  <2>10. Close => calls' = calls
    BY Zenon DEF Close, store
  <2>11. UNCHANGED rvars => calls' = calls
    BY DEF rvars, store
  <2> QED
    BY <2>1, <2>2, <2>3, <2>4, <2>5, <2>6, <2>7, <2>8, <2>9, <2>10, <2>11, Zenon DEF Next
<1> QED
  BY <1>1, <1>2, PTL DEF Spec

LEMMA NearText ==
    ASSUME NEW t \in Text
    PROVE  Near(t, Alphabet) \subseteq Text
<1>1. Alphabet \subseteq Nat
  BY DEF Alphabet, Hash, Percent, Plus, Slash, Colon, Upper, Lower
<1>2. Len(t) \in Nat /\ DOMAIN t = 1..Len(t) /\ \A i \in 1..Len(t) : t[i] \in Nat
  BY SeqMembers DEF Text
<1>3. \A m, n \in Int : 1 <= m /\ n <= Len(t) => SubSeq(t, m, n) \in Seq(Nat)
  <2>1. ASSUME NEW m \in Int, NEW n \in Int, 1 <= m, n <= Len(t)
        PROVE  SubSeq(t, m, n) \in Seq(Nat)
    <3>1. \A i \in m..n : t[i] \in Nat
      BY <1>2, <2>1
    <3> QED
      BY <3>1, SubSeqProperties
  <2> QED
    BY <2>1
<1>4. ASSUME NEW i \in DOMAIN t, NEW c \in Alphabet PROVE ReplaceAt(t, i, c) \in Text
  <2>1. t \in Seq(Nat) /\ i \in 1..Len(t) /\ c \in Nat
    BY <1>1, <1>2 DEF Text
  <2> QED
    BY <2>1, ExceptSeq DEF ReplaceAt, Text
<1>5. ASSUME NEW i \in DOMAIN t PROVE RemoveAt(t, i) \in Text
  <2>1. i \in 1..Len(t)
    BY <1>2
  <2>2. /\ 1 \in Int /\ i - 1 \in Int /\ i + 1 \in Int /\ Len(t) \in Int
        /\ 1 <= 1 /\ i - 1 <= Len(t) /\ 1 <= i + 1 /\ Len(t) <= Len(t)
    BY <1>2, <2>1
  <2>3. SubSeq(t, 1, i - 1) \in Seq(Nat) /\ SubSeq(t, i + 1, Len(t)) \in Seq(Nat)
    BY <1>3, <2>2
  <2> QED
    BY <2>3, Concat DEF RemoveAt, Text
<1>6. ASSUME NEW i \in 1..(Len(t) + 1), NEW c \in Alphabet PROVE InsertAt(t, i, c) \in Text
  <2>1. /\ 1 \in Int /\ i - 1 \in Int /\ i \in Int /\ Len(t) \in Int
        /\ 1 <= 1 /\ i - 1 <= Len(t) /\ 1 <= i /\ Len(t) <= Len(t)
    BY <1>2
  <2>2. SubSeq(t, 1, i - 1) \in Seq(Nat) /\ SubSeq(t, i, Len(t)) \in Seq(Nat)
    BY <1>3, <2>1
  <2>3. <<c>> \in Seq(Nat)
    BY <1>1
  <2>4. SubSeq(t, 1, i - 1) \o <<c>> \in Seq(Nat)
    BY <2>2, <2>3, Concat
  <2> QED
    BY <2>2, <2>4, Concat DEF InsertAt, Text
<1>7. {ReplaceAt(t, i, c) : i \in DOMAIN t, c \in Alphabet} \subseteq Text
  BY <1>4
<1>8. {RemoveAt(t, i) : i \in DOMAIN t} \subseteq Text
  BY <1>5, Zenon
<1>9. {InsertAt(t, i, c) : i \in 1..(Len(t) + 1), c \in Alphabet} \subseteq Text
  BY <1>6
<1>10. ASSUME NEW u \in Near(t, Alphabet) PROVE u \in Text
  <2>1. \/ u \in {ReplaceAt(t, i, c) : i \in DOMAIN t, c \in Alphabet}
        \/ u \in {RemoveAt(t, i) : i \in DOMAIN t}
        \/ u \in {InsertAt(t, i, c) : i \in 1..(Len(t) + 1), c \in Alphabet}
    BY DEF Near
  <2> QED
    BY <1>7, <1>8, <1>9, <2>1
<1> QED
  BY <1>10

(* No text that differs from the path of a call's frame in one character is *)
(* taken for a path it is not (_decode, _decode_sequence).                  *)
THEOREM PathsHaveOneSpelling == Spec => []OneSpelling
<1>1. Aliases = [f \in GoodFrames |->
                   {t \in Near(FormatFrame(f), Alphabet) : IsPath(t) /\ PathOf(IdOf(t)) # t}]
  BY DEF Aliases, GoodFrames
<1>2. CallsHaveIds => OneSpelling
  <2> SUFFICES ASSUME CallsHaveIds, NEW c \in calls, NEW i \in DOMAIN c.id
               PROVE  Aliases[c.id[i]] = {}
    BY DEF OneSpelling
  <2>1. c.id[i] \in GoodFrames
    <3>1. c.id \in Seq(GoodFrames)
      BY DEF CallsHaveIds, Ids
    <3> QED
      BY <3>1, SeqMembers
  <2>2. PICK f \in GoodFrames : f = c.id[i]
    BY <2>1
  <2>3. FormatFrame(f) \in Text
    <3>1. f \in Frames
      BY GoodFramesAreWellFormed DEF WellFormed
    <3> QED
      BY <3>1, FrameText
  <2>4. \A t \in Near(FormatFrame(f), Alphabet) : IsPath(t) => PathOf(IdOf(t)) = t
    BY <2>3, NearText, PathWritten, Zenon
  <2>5. Aliases[f] = {t \in Near(FormatFrame(f), Alphabet) : IsPath(t) /\ PathOf(IdOf(t)) # t}
    BY <1>1, Zenon
  <2> QED
    BY <2>2, <2>4, <2>5, Zenon
<1> QED
  BY <1>2, CallsInvariant, PTL

-----------------------------------------------------------------------------
(* The order of texts. *)

LEMMA TextAt ==
    ASSUME NEW t \in Text
    PROVE  /\ Len(t) \in Nat /\ DOMAIN t = 1..Len(t)
           /\ \A i \in 1..Len(t) : t[i] \in Nat
BY SeqMembers DEF Text

LEMMA LessIrreflexive ==
    ASSUME NEW a \in Text
    PROVE  ~TextLess(a, a)
BY TextAt DEF TextLess

LEMMA LessTransitive ==
    ASSUME NEW a \in Text, NEW b \in Text, NEW c \in Text, TextLess(a, b), TextLess(b, c)
    PROVE  TextLess(a, c)
<1>1. /\ Len(a) \in Nat /\ Len(b) \in Nat /\ Len(c) \in Nat
      /\ DOMAIN b = 1..Len(b) /\ DOMAIN c = 1..Len(c)
  BY TextAt
<1>2. PICK i \in 1..Len(b) :
        i <= Len(a) + 1 /\ (\A j \in 1..(i - 1) : a[j] = b[j]) /\ (i <= Len(a) => a[i] < b[i])
  BY <1>1 DEF TextLess
<1>3. PICK k \in 1..Len(c) :
        k <= Len(b) + 1 /\ (\A j \in 1..(k - 1) : b[j] = c[j]) /\ (k <= Len(b) => b[k] < c[k])
  BY <1>1 DEF TextLess
<1>4. PICK m \in {i, k} : m <= i /\ m <= k
  BY <1>1, <1>2, <1>3
<1>5. m \in 1..Len(c) /\ m <= Len(a) + 1 /\ \A j \in 1..(m - 1) : a[j] = c[j]
  BY <1>1, <1>2, <1>3, <1>4
<1>6. m <= Len(a) => a[m] < c[m]
  <2>1. /\ \A j \in 1..Len(a) : a[j] \in Nat
        /\ \A j \in 1..Len(b) : b[j] \in Nat
        /\ \A j \in 1..Len(c) : c[j] \in Nat
    BY TextAt
  <2>2. m \in 1..Len(b)
    BY <1>1, <1>2, <1>3, <1>4
  <2>3. CASE i < k
    BY <1>1, <1>2, <1>3, <1>4, <2>1, <2>2, <2>3
  <2>4. CASE k < i
    BY <1>1, <1>2, <1>3, <1>4, <2>1, <2>2, <2>4
  <2>5. CASE i = k
    BY <1>1, <1>2, <1>3, <1>4, <1>5, <2>1, <2>2, <2>5
  <2> QED
    BY <1>1, <1>2, <1>3, <2>3, <2>4, <2>5
<1> QED
  BY <1>1, <1>5, <1>6 DEF TextLess

LEMMA LessTotal ==
    ASSUME NEW a \in Text, NEW b \in Text, a # b
    PROVE  TextLess(a, b) \/ TextLess(b, a)
<1> DEFINE D == {i \in 1..Len(a) \cup 1..Len(b) :
                    ~(i <= Len(a) /\ i <= Len(b) /\ a[i] = b[i])}
<1>1. /\ Len(a) \in Nat /\ DOMAIN a = 1..Len(a) /\ \A i \in 1..Len(a) : a[i] \in Nat
      /\ Len(b) \in Nat /\ DOMAIN b = 1..Len(b) /\ \A i \in 1..Len(b) : b[i] \in Nat
  BY TextAt
<1>2. D # {}
  <2>1. SUFFICES ASSUME D = {} PROVE FALSE
    OBVIOUS
  <2>2. \A i \in 1..Len(a) \cup 1..Len(b) : i <= Len(a) /\ i <= Len(b) /\ a[i] = b[i]
    BY <2>1
  <2>3. Len(a) = Len(b)
    <3>1. Len(a) > 0 => Len(a) <= Len(b)
      BY <1>1, <2>2
    <3>2. Len(b) > 0 => Len(b) <= Len(a)
      BY <1>1, <2>2
    <3>3. PICK m \in Nat, n \in Nat : m = Len(a) /\ n = Len(b)
      BY <1>1, Zenon
    <3>4. (m > 0 => m <= n) /\ (n > 0 => n <= m)
      BY <3>1, <3>2, <3>3
    <3> QED
      BY <3>3, <3>4
  <2>4. a = b
    BY <2>2, <2>3, SeqEqual DEF Text
  <2> QED
    BY <2>4
<1>3. PICK i \in D : \A j \in D : i <= j
  <2>1. D \in SUBSET Nat
    BY <1>1
  <2> HIDE DEF D
  <2> QED
    BY <1>2, <2>1, LeastNumber
<1>4. /\ i \in Nat \ {0} /\ (i <= Len(a) \/ i <= Len(b))
      /\ i <= Len(a) /\ i <= Len(b) => a[i] # b[i]
  BY <1>1, <1>3
<1>5. \A j \in 1..(i - 1) : j <= Len(a) /\ j <= Len(b) /\ a[j] = b[j]
  <2>1. ASSUME NEW j \in 1..(i - 1) PROVE j <= Len(a) /\ j <= Len(b) /\ a[j] = b[j]
    <3>1. j \in 1..Len(a) \cup 1..Len(b) /\ ~(i <= j)
      BY <1>1, <1>4
    <3>2. j \notin D
      <4> HIDE DEF D
      <4> QED
        BY <1>3, <3>1
    <3> QED
      BY <3>1, <3>2
  <2> QED
    BY <2>1
<1>6. i <= Len(a) + 1 /\ i <= Len(b) + 1
  BY <1>1, <1>4, <1>5
<1> HIDE DEF D
<1>7. CASE i <= Len(a) /\ i <= Len(b)
  <2>1. a[i] \in Nat /\ b[i] \in Nat /\ a[i] # b[i]
    BY <1>1, <1>4, <1>7
  <2>2. a[i] < b[i] => TextLess(a, b)
    BY <1>1, <1>4, <1>5, <1>6, <1>7 DEF TextLess
  <2>3. b[i] < a[i] => TextLess(b, a)
    BY <1>1, <1>4, <1>5, <1>6, <1>7 DEF TextLess
  <2> QED
    BY <2>1, <2>2, <2>3
<1>8. CASE ~(i <= Len(a))
  <2>1. TextLess(a, b)
    BY <1>1, <1>4, <1>5, <1>6, <1>8 DEF TextLess
  <2> QED
    BY <2>1
<1>9. CASE ~(i <= Len(b))
  <2>1. TextLess(b, a)
    BY <1>1, <1>4, <1>5, <1>6, <1>9 DEF TextLess
  <2> QED
    BY <2>1
<1> QED
  BY <1>7, <1>8, <1>9

(* min, of texts.                                                           *)
HasLeast(S) == \E p \in S : \A q \in S \ {p} : TextLess(p, q)

LEMMA LeastIsFirst ==
    ASSUME NEW S \in SUBSET Text, IsFiniteSet(S), S # {}
    PROVE  Least(S) \in S /\ \A q \in S \ {Least(S)} : TextLess(Least(S), q)
<1> DEFINE Bad == {R \in SUBSET S : R # {} /\ ~HasLeast(R)}
           Sizes == {Cardinality(R) : R \in Bad}
<1>1. \A R \in SUBSET S : IsFiniteSet(R) /\ Cardinality(R) \in Nat
  BY FS_Subset, FS_CardinalityType
<1>2. Bad = {}
  <2>1. SUFFICES ASSUME Bad # {} PROVE FALSE
    OBVIOUS
  <2>2. PICK R \in Bad : \A Q \in Bad : Cardinality(R) <= Cardinality(Q)
    <3>1. Sizes \in SUBSET Nat /\ Sizes # {}
      BY <1>1, <2>1
    <3>2. PICK n \in Sizes : \A m \in Sizes : n <= m
      <4> HIDE DEF Sizes
      <4> QED
        BY <3>1, LeastNumber
    <3> QED
      BY <3>2
  <2>3. R \in SUBSET S /\ R # {} /\ ~HasLeast(R)
    BY <2>2
  <2>4. PICK q \in R : TRUE
    BY <2>3
  <2>5. Cardinality(R \ {q}) < Cardinality(R) /\ R \ {q} \in SUBSET S
    <3>1. Cardinality(R \ {q}) = Cardinality(R) - 1
      BY <1>1, <2>3, FS_RemoveElement
    <3> QED
      BY <1>1, <2>3, <3>1
  <2>6. R \ {q} \notin Bad
    <3> HIDE DEF Bad
    <3> QED
      BY <1>1, <2>2, <2>3, <2>5
  <2>7. R \ {q} # {}
    <3>1. R \ {q} = {} => HasLeast(R)
      BY <2>3, <2>4 DEF HasLeast
    <3> QED
      BY <2>3, <3>1
  <2>8. PICK p \in R \ {q} : \A x \in (R \ {q}) \ {p} : TextLess(p, x)
    BY <2>5, <2>6, <2>7 DEF HasLeast
  <2>9. p \in Text /\ q \in Text /\ p # q /\ \A x \in R : x \in Text
    BY <2>3
  <2>10. CASE TextLess(p, q)
    <3>1. \A x \in R \ {p} : TextLess(p, x)
      BY <2>8, <2>10
    <3> QED
      BY <2>3, <3>1 DEF HasLeast
  <2>11. CASE TextLess(q, p)
    <3>1. \A x \in R \ {q} : TextLess(q, x)
      BY <2>8, <2>9, <2>11, LessTransitive
    <3> QED
      BY <2>3, <3>1 DEF HasLeast
  <2> QED
    BY <2>9, <2>10, <2>11, LessTotal
<1>3. HasLeast(S)
  <2>1. S \in SUBSET S
    OBVIOUS
  <2> QED
    BY <1>2, <2>1
<1>4. \E p \in S : \A q \in S \ {p} : TextLess(p, q)
  BY <1>3 DEF HasLeast
<1> QED
  BY <1>4, Zenon DEF Least

LEMMA LeastIsUnique ==
    ASSUME NEW S \in SUBSET Text, IsFiniteSet(S),
           NEW p \in S, \A q \in S \ {p} : TextLess(p, q)
    PROVE  Least(S) = p
<1>1. Least(S) \in S /\ \A q \in S \ {Least(S)} : TextLess(Least(S), q)
  BY LeastIsFirst
<1>2. Least(S) # p => TextLess(p, p)
  BY <1>1, LessTransitive
<1> QED
  BY <1>2, LessIrreflexive

-----------------------------------------------------------------------------
(* Prefixes, and the range of paths that stands for the descendants of one. *)

Starts(s, t) == Len(s) <= Len(t) /\ \A i \in 1..Len(s) : s[i] = t[i]

LEMMA PrefixIsStart ==
    ASSUME NEW S, NEW s \in Seq(S), NEW t \in Seq(S)
    PROVE  IsPrefix(s, t) <=> Starts(s, t)
<1>1. Len(s) \in Nat /\ Len(t) \in Nat /\ \A i \in 1..Len(t) : t[i] \in S
  BY SeqMembers
<1>2. ASSUME Len(s) <= Len(t)
      PROVE  SubSeq(s, 1, Len(s)) = SubSeq(t, 1, Len(s)) <=> \A i \in 1..Len(s) : s[i] = t[i]
  <2>1. SubSeq(s, 1, Len(s)) = s
    BY SubSeqFull
  <2>2. PICK u : u = SubSeq(t, 1, Len(s))
    OBVIOUS
  <2>3. /\ u \in Seq(S)
        /\ Len(u) = IF 1 <= Len(s) THEN Len(s) - 1 + 1 ELSE 0
        /\ \A i \in 1..(Len(s) - 1 + 1) : u[i] = t[1 + i - 1]
    <3>1. 1 \in Int /\ Len(s) \in Int /\ \A i \in 1..Len(s) : t[i] \in S
      BY <1>1, <1>2
    <3> QED
      BY <2>2, <3>1, SubSeqProperties
  <2>4. Len(u) = Len(s) /\ \A i \in 1..Len(s) : u[i] = t[i]
    BY <1>1, <2>3
  <2>5. s = u <=> \A i \in 1..Len(s) : s[i] = u[i]
    BY <2>3, <2>4, SeqEqual
  <2> QED
    BY <2>1, <2>2, <2>4, <2>5
<1> QED
  BY <1>2 DEF IsPrefix, Starts

LEMMA ConcatStarts ==
    ASSUME NEW S, NEW s \in Seq(S), NEW t \in Seq(S)
    PROVE  /\ Starts(s, Cat(s, t)) /\ Len(Cat(s, t)) = Len(s) + Len(t)
           /\ \A i \in 1..Len(t) : Cat(s, t)[Len(s) + i] = t[i]
<1>1. Len(s) \in Nat /\ Len(t) \in Nat
  BY LenProperties
<1>2. /\ Len(s \o t) = Len(s) + Len(t)
      /\ \A i \in 1..(Len(s) + Len(t)) : (s \o t)[i] = IF i <= Len(s) THEN s[i] ELSE t[i - Len(s)]
  BY ConcatProperties
<1>3. \A i \in 1..Len(s) : (s \o t)[i] = s[i]
  BY <1>1, <1>2
<1>4. ASSUME NEW i \in 1..Len(t) PROVE (s \o t)[Len(s) + i] = t[i]
  <2>1. PICK k : k = Len(s) + i
    OBVIOUS
  <2>2. k \in 1..(Len(s) + Len(t)) /\ ~(k <= Len(s)) /\ k - Len(s) = i
    BY <1>1, <2>1
  <2> QED
    BY <1>2, <2>1, <2>2
<1> QED
  BY <1>1, <1>2, <1>3, <1>4 DEF Starts, Cat

LEMMA StartsConcat ==
    ASSUME NEW S, NEW s \in Seq(S), NEW t \in Seq(S), Starts(s, t)
    PROVE  \E r \in Seq(S) : t = Cat(s, r) /\ Len(t) = Len(s) + Len(r)
<1>1. Len(s) \in Nat /\ Len(t) \in Nat /\ \A i \in 1..Len(t) : t[i] \in S
  BY SeqMembers
<1>2. SubSeq(s, 1, Len(s)) = SubSeq(t, 1, Len(s)) /\ Len(s) <= Len(t)
  BY PrefixIsStart DEF IsPrefix
<1>3. PICK r : r = SubSeq(t, Len(s) + 1, Len(t))
  OBVIOUS
<1>4. r \in Seq(S)
  <2>1. Len(s) + 1 \in Int /\ Len(t) \in Int /\ \A i \in (Len(s) + 1)..Len(t) : t[i] \in S
    BY <1>1
  <2> QED
    BY <1>3, <2>1, SubSeqProperties
<1>5. SubSeq(t, 1, Len(s)) \o r = SubSeq(t, 1, Len(t))
  <2>1. 1 \in 1..(Len(t) + 1) /\ Len(s) \in (1 - 1)..Len(t) /\ Len(t) \in Len(s)..Len(t)
    BY <1>1, <1>2
  <2> QED
    BY <1>3, <2>1, ConcatAdjacentSubSeq
<1>6. t = Cat(s, r)
  <2>1. SubSeq(s, 1, Len(s)) = s /\ SubSeq(t, 1, Len(t)) = t
    BY SubSeqFull
  <2> QED
    BY <1>2, <1>5, <2>1, Zenon DEF Cat
<1>7. Len(t) = Len(s) + Len(r)
  BY <1>4, <1>6, ConcatStarts
<1> QED
  BY <1>4, <1>6, <1>7

(* _upper_bound: the texts in the range are those that start so.            *)
LEMMA RangeIsPrefix ==
    ASSUME NEW p \in Text, NEW q \in Text, q # <<>>
    PROVE  (~TextLess(p, q) /\ TextLess(p, UpperBound(q))) <=> IsPrefix(q, p)
<1>1. /\ Len(p) \in Nat /\ DOMAIN p = 1..Len(p) /\ \A i \in 1..Len(p) : p[i] \in Nat
      /\ Len(q) \in Nat \ {0} /\ DOMAIN q = 1..Len(q) /\ \A i \in 1..Len(q) : q[i] \in Nat
  BY TextAt, EmptySeq DEF Text
<1>2. PICK u, n : u = UpperBound(q) /\ n = Len(q)
  OBVIOUS
<1>3. /\ DOMAIN u = 1..n /\ u[n] = q[n] + 1 /\ n \in 1..n
      /\ \A i \in 1..(n - 1) : u[i] = q[i]
  <2>1. PICK e \in Nat : e = q[n] + 1
    BY <1>1, <1>2
  <2>2. n \in 1..Len(q) /\ n \in Nat \ {0} /\ n = Len(q) /\ q \in Seq(Nat)
    BY <1>1, <1>2 DEF Text
  <2>3. u = [q EXCEPT ![n] = e]
    BY <1>2, <2>1, Zenon DEF UpperBound
  <2>4. /\ u \in Seq(Nat) /\ Len(u) = Len(q)
        /\ \A j \in 1..Len(q) : u[j] = IF j = n THEN e ELSE q[j]
    BY <2>2, <2>3, ExceptSeq
  <2>5. DOMAIN u = 1..Len(u)
    BY <2>4, LenProperties
  <2>6. \A i \in 1..(n - 1) : i \in 1..n /\ i # n
    BY <2>2
  <2> QED
    BY <2>1, <2>2, <2>4, <2>5, <2>6
<1>4. IsPrefix(q, p) <=> Starts(q, p)
  BY PrefixIsStart DEF Text
<1>5. ASSUME Starts(q, p) PROVE ~TextLess(p, q) /\ TextLess(p, u)
  <2>1. n <= Len(p) /\ \A i \in 1..n : q[i] = p[i]
    BY <1>2, <1>5 DEF Starts
  <2>2. ~TextLess(p, q)
    BY <1>1, <1>2, <2>1 DEF TextLess
  <2>3. n <= Len(p) + 1 /\ (\A j \in 1..(n - 1) : p[j] = u[j]) /\ p[n] < u[n]
    BY <1>1, <1>2, <1>3, <2>1
  <2> QED
    BY <1>3, <2>2, <2>3 DEF TextLess
<1>6. ASSUME ~TextLess(p, q), TextLess(p, u) PROVE Starts(q, p)
  <2>1. PICK i \in 1..n : /\ i <= Len(p) + 1 /\ (\A j \in 1..(i - 1) : p[j] = u[j])
                          /\ i <= Len(p) => p[i] < u[i]
    BY <1>3, <1>6 DEF TextLess
  <2>2. \A j \in 1..(i - 1) : p[j] = q[j]
    BY <1>1, <1>2, <1>3, <2>1
  <2>3. i <= Len(p) /\ p[i] >= q[i]
    <3>1. ~(i <= Len(p) => p[i] < q[i])
      BY <1>1, <1>2, <1>6, <2>1, <2>2 DEF TextLess
    <3> QED
      BY <1>1, <1>2, <2>1, <3>1
  <2>4. i = n
    <3>1. n \in Nat \ {0}
      BY <1>1, <1>2
    <3>2. i # n => i \in 1..(n - 1)
      BY <3>1
    <3>3. i # n => u[i] = q[i]
      BY <1>3, <3>2
    <3>4. p[i] \in Nat /\ q[i] \in Nat
      BY <1>1, <1>2, <2>3
    <3>5. i # n => p[i] < q[i]
      BY <2>1, <2>3, <3>3
    <3> QED
      BY <2>3, <3>4, <3>5
  <2>5. p[n] = q[n]
    BY <1>1, <1>2, <1>3, <2>1, <2>3, <2>4
  <2> QED
    BY <1>1, <1>2, <2>2, <2>3, <2>4, <2>5 DEF Starts
<1> QED
  BY <1>2, <1>4, <1>5, <1>6

-----------------------------------------------------------------------------
(* The paths of calls and of what is beneath them. *)

LEMMA PathsDiffer ==
    ASSUME NEW u \in Identified, NEW id \in Identified, PathOf(u) = PathOf(id)
    PROVE  u = id
<1>1. IdOf(PathOf(u)) = u /\ IdOf(PathOf(id)) = id
  BY PathRead
<1> QED
  BY <1>1, Zenon

LEMMA IdentifiedAt ==
    ASSUME NEW id \in Identified
    PROVE  /\ id \in Seq(WellFormed) /\ id # <<>> /\ Len(id) \in Nat \ {0}
           /\ DOMAIN id = 1..Len(id) /\ \A i \in 1..Len(id) : id[i] \in WellFormed
<1>1. id \in Seq(WellFormed) /\ id # <<>>
  BY DEF Identified
<1> QED
  BY <1>1, Unappended, SeqMembers

LEMMA FormattedAt ==
    ASSUME NEW id \in Identified
    PROVE  /\ Len(Formatted(id)) = Len(id)
           /\ \A i \in 1..Len(id) : Formatted(id)[i] = FormatFrame(id[i])
<1>1. Len(id) \in Nat /\ DOMAIN id = 1..Len(id)
  BY IdentifiedAt
<1>2. Formatted(id) \in Seq(Text)
  BY PathSplit DEF Pieces
<1>3. DOMAIN Formatted(id) = 1..Len(Formatted(id)) /\ Len(Formatted(id)) \in Nat
  BY <1>2, LenProperties
<1>4. DOMAIN Formatted(id) = 1..Len(id) /\ \A i \in 1..Len(id) : Formatted(id)[i] = FormatFrame(id[i])
  BY <1>1 DEF Formatted
<1>5. Len(Formatted(id)) = Len(id)
  <2>1. PICK m \in Nat, n \in Nat : m = Len(id) /\ n = Len(Formatted(id)) /\ 1..m = 1..n
    BY <1>1, <1>3, <1>4, Zenon
  <2>2. m \in 1..m \/ m = 0
    OBVIOUS
  <2>3. n \in 1..n \/ n = 0
    OBVIOUS
  <2> QED
    BY <2>1, <2>2, <2>3
<1> QED
  BY <1>4, <1>5

LEMMA FramesDiffer ==
    ASSUME NEW f \in WellFormed, NEW g \in WellFormed, FormatFrame(f) = FormatFrame(g)
    PROVE  f = g
<1>1. ParseFrame(FormatFrame(f)) = f /\ ParseFrame(FormatFrame(g)) = g
  BY FrameRead
<1> QED
  BY <1>1, Zenon

LEMMA PathOfConcat ==
    ASSUME NEW u \in Identified, NEW v \in Identified
    PROVE  PathOf(Cat(u, v)) = Cat(Cat(PathOf(u), Bar), PathOf(v))
<1>1. PICK id \in Identified : id = Cat(u, v)
  BY Concat DEF Identified, Cat
<1>2. /\ u \in Seq(WellFormed) /\ v \in Seq(WellFormed) /\ Len(u) \in Nat /\ Len(v) \in Nat
      /\ Len(id) = Len(u) + Len(v)
      /\ \A i \in 1..Len(u) : id[i] = u[i]
      /\ \A i \in 1..Len(v) : id[Len(u) + i] = v[i]
  <2>1. u \in Seq(WellFormed) /\ v \in Seq(WellFormed) /\ Len(u) \in Nat /\ Len(v) \in Nat
    BY IdentifiedAt
  <2> QED
    BY <1>1, <2>1, ConcatStarts DEF Starts
<1>3. PICK fu \in Pieces, fv \in Pieces, fi \in Pieces :
        fu = Formatted(u) /\ fv = Formatted(v) /\ fi = Formatted(id)
  BY PathSplit
<1>4. fi = Cat(fu, fv)
  <2>1. PICK w \in Seq(Text) : w = Cat(fu, fv)
    BY CatPieces DEF Pieces
  <2>2. fu \in Seq(Text) /\ fv \in Seq(Text) /\ fi \in Seq(Text)
    BY DEF Pieces
  <2>3. /\ Len(w) = Len(fu) + Len(fv)
        /\ \A i \in 1..Len(fu) : w[i] = fu[i]
        /\ \A i \in 1..Len(fv) : w[Len(fu) + i] = fv[i]
    <3>1. fu \in Seq(Text) /\ fv \in Seq(Text)
      BY <2>2
    <3>2. /\ Starts(fu, Cat(fu, fv)) /\ Len(Cat(fu, fv)) = Len(fu) + Len(fv)
          /\ \A i \in 1..Len(fv) : Cat(fu, fv)[Len(fu) + i] = fv[i]
      BY <3>1, ConcatStarts
    <3>3. /\ Starts(fu, w) /\ Len(w) = Len(fu) + Len(fv)
          /\ \A i \in 1..Len(fv) : w[Len(fu) + i] = fv[i]
      BY <2>1, <3>2, Zenon
    <3> QED
      BY <3>3 DEF Starts
  <2>4. /\ Len(fu) = Len(u) /\ Len(fv) = Len(v) /\ Len(fi) = Len(id)
        /\ \A i \in 1..Len(u) : fu[i] = FormatFrame(u[i])
        /\ \A i \in 1..Len(v) : fv[i] = FormatFrame(v[i])
        /\ \A i \in 1..Len(id) : fi[i] = FormatFrame(id[i])
    BY <1>3, FormattedAt
  <2>5. ASSUME NEW i \in 1..Len(id) PROVE fi[i] = w[i]
    <3>1. CASE i <= Len(u)
      <4>1. i \in 1..Len(u)
        BY <1>2, <3>1
      <4> QED
        BY <1>2, <2>3, <2>4, <4>1
    <3>2. CASE ~(i <= Len(u))
      <4>1. PICK k \in 1..Len(v) : i = Len(u) + k
        <5>1. i - Len(u) \in 1..Len(v) /\ i = Len(u) + (i - Len(u))
          BY <1>2, <3>2
        <5> QED
          BY <5>1
      <4>2. id[i] = v[k] /\ w[i] = fv[k] /\ fv[k] = FormatFrame(v[k])
        BY <1>2, <2>3, <2>4, <4>1
      <4>3. fi[i] = FormatFrame(id[i])
        BY <2>4
      <4> QED
        BY <4>2, <4>3, Zenon
    <3> QED
      BY <3>1, <3>2
  <2>6. Len(fi) = Len(w)
    BY <1>2, <2>3, <2>4
  <2>7. fi = w
    BY <2>1, <2>2, <2>4, <2>5, <2>6, SeqEqual
  <2> QED
    BY <2>1, <2>7
<1>5. PathOf(u) \in Text /\ PathOf(v) \in Text /\ Cat(PathOf(u), Bar) \in Text
  BY PathSplit, BelowText
<1>6. Split[Cat(Cat(PathOf(u), Bar), PathOf(v))] = Split[PathOf(id)]
  <2>1. Split[Cat(Cat(PathOf(u), Bar), PathOf(v))] = Cat(Split[PathOf(u)], Split[PathOf(v)])
    BY <1>5, SplitConcat
  <2>2. /\ Split[PathOf(u)] = fu /\ Split[PathOf(v)] = fv /\ Split[PathOf(id)] = fi
    BY <1>3, PathSplit
  <2> QED
    BY <1>4, <2>1, <2>2, Zenon
<1>7. Cat(Cat(PathOf(u), Bar), PathOf(v)) \in Text /\ PathOf(id) \in Text
  BY <1>5, PathSplit, CatText
<1>8. /\ Join[Split[Cat(Cat(PathOf(u), Bar), PathOf(v))]] = Cat(Cat(PathOf(u), Bar), PathOf(v))
      /\ Join[Split[PathOf(id)]] = PathOf(id)
  BY <1>7, JoinSplit
<1> QED
  BY <1>1, <1>6, <1>8, Zenon

(* The rows the database is asked for are those of the descendants          *)
(* (ExecutionStore.executions).                                             *)
LEMMA PrefixOfPath ==
    ASSUME NEW u \in Identified \cup {<<>>}, NEW id \in Identified
    PROVE  IsPrefix(Prefix(u), PathOf(id)) <=> IsStrictPrefix(u, id)
<1>1. /\ id \in Seq(WellFormed) /\ id # <<>> /\ Len(id) \in Nat \ {0}
      /\ PathOf(id) \in Text /\ Split[PathOf(id)] = Formatted(id)
  BY IdentifiedAt, PathSplit
<1>2. CASE u = <<>>
  <2>1. Prefix(u) = <<>>
    BY <1>2 DEF Prefix
  <2>2. Starts(<<>>, PathOf(id)) /\ Starts(<<>>, id)
    <3>1. Len(PathOf(id)) \in Nat
      BY <1>1, TextAt
    <3> QED
      BY <1>1, <3>1, EmptySeq DEF Starts
  <2>3. IsPrefix(<<>>, PathOf(id)) /\ IsPrefix(<<>>, id)
    <3>1. <<>> \in Seq(Nat) /\ <<>> \in Seq(WellFormed)
      BY EmptySeq
    <3>2. PathOf(id) \in Seq(Nat)
      BY <1>1 DEF Text
    <3> QED
      BY <1>1, <2>2, <3>1, <3>2, PrefixIsStart
  <2> QED
    BY <1>1, <1>2, <2>1, <2>3, Zenon DEF IsStrictPrefix
<1>3. CASE u \in Identified
  <2>1. /\ u \in Seq(WellFormed) /\ u # <<>> /\ Len(u) \in Nat \ {0}
        /\ PathOf(u) \in Text /\ Split[PathOf(u)] = Formatted(u)
    BY <1>3, IdentifiedAt, PathSplit
  <2>2. PICK b \in Text : b = Cat(PathOf(u), Bar) /\ b = Prefix(u)
    BY <2>1, BelowText, Zenon DEF Prefix, Below
  <2>3. IsPrefix(b, PathOf(id)) <=> Starts(b, PathOf(id))
    BY <1>1, PrefixIsStart DEF Text
  <2>4. IsStrictPrefix(u, id) <=> Starts(u, id) /\ u # id
    BY <1>1, <2>1, PrefixIsStart DEF IsStrictPrefix
  <2>5. ASSUME Starts(b, PathOf(id)) PROVE Starts(u, id) /\ u # id
    <3>1. PICK x \in Text : PathOf(id) = Cat(b, x)
      BY <1>1, <2>5, StartsConcat DEF Text
    <3>2. Split[PathOf(id)] = Cat(Formatted(u), Split[x])
      BY <2>1, <2>2, <3>1, SplitConcat, Zenon
    <3>3. PICK fu \in Seq(Text), fi \in Seq(Text), r \in Seq(Text) :
            /\ fu = Formatted(u) /\ fi = Formatted(id) /\ r = Split[x]
            /\ r # <<>> /\ fi = Cat(fu, r)
      <4>1. Formatted(u) \in Pieces /\ Formatted(id) \in Pieces /\ Split[x] \in Pieces
        BY <1>3, PathSplit, SplitPieces
      <4> QED
        BY <1>1, <3>2, <4>1, Zenon DEF Pieces
    <3>4. Len(r) \in Nat \ {0}
      BY <3>3, Unappended
    <3>5. Starts(fu, fi) /\ Len(fi) = Len(fu) + Len(r)
      BY <3>3, ConcatStarts
    <3>6. /\ Len(fu) = Len(u) /\ Len(fi) = Len(id)
          /\ \A i \in 1..Len(u) : fu[i] = FormatFrame(u[i])
          /\ \A i \in 1..Len(id) : fi[i] = FormatFrame(id[i])
      BY <1>3, <3>3, FormattedAt
    <3>7. Len(u) < Len(id)
      BY <1>1, <2>1, <3>4, <3>5, <3>6
    <3>8. ASSUME NEW i \in 1..Len(u) PROVE u[i] = id[i]
      <4>1. i \in 1..Len(id) /\ fu[i] = fi[i]
        BY <1>1, <2>1, <3>5, <3>6, <3>7 DEF Starts
      <4>2. u[i] \in WellFormed /\ id[i] \in WellFormed
        BY <1>3, <4>1, IdentifiedAt
      <4>3. FormatFrame(u[i]) = FormatFrame(id[i])
        BY <3>6, <4>1
      <4> QED
        BY <4>2, <4>3, FramesDiffer
    <3> QED
      BY <1>1, <2>1, <3>7, <3>8 DEF Starts
  <2>6. ASSUME Starts(u, id), u # id PROVE Starts(b, PathOf(id))
    <3>1. PICK v \in Seq(WellFormed) : id = Cat(u, v)
      BY <1>1, <2>1, <2>6, StartsConcat
    <3>2. v # <<>>
      <4>1. Cat(u, <<>>) = u
        BY <2>1, ConcatEmptySeq DEF Cat
      <4> QED
        BY <2>6, <3>1, <4>1
    <3>3. v \in Identified
      BY <3>2 DEF Identified
    <3>4. PathOf(id) = Cat(b, PathOf(v)) /\ PathOf(v) \in Text
      BY <1>3, <2>2, <3>1, <3>3, PathOfConcat, PathSplit
    <3>5. b \in Seq(Nat) /\ PathOf(v) \in Seq(Nat)
      BY <3>4 DEF Text
    <3> QED
      BY <3>4, <3>5, ConcatStarts
  <2> QED
    BY <2>2, <2>3, <2>4, <2>5, <2>6
<1> QED
  BY <1>2, <1>3

LEMMA PrefixText ==
    ASSUME NEW u \in Identified
    PROVE  Prefix(u) \in Text /\ Prefix(u) # <<>>
<1>1. u # <<>> /\ PathOf(u) \in Text
  BY IdentifiedAt, PathSplit
<1>2. Prefix(u) = Append(PathOf(u), Slash)
  BY <1>1, Zenon DEF Prefix, Below
<1> QED
  BY <1>1, <1>2, BarText, Appended DEF Text

(* A call goes before what is beneath it.                                   *)
LEMMA AncestorsFirst ==
    ASSUME NEW u \in Identified, NEW id \in Identified, IsStrictPrefix(u, id)
    PROVE  TextLess(PathOf(u), PathOf(id))
<1>1. PathOf(u) \in Text /\ PathOf(id) \in Text
  BY PathSplit
<1>2. Starts(Prefix(u), PathOf(id))
  BY <1>1, PrefixOfPath, PrefixText, PrefixIsStart DEF Text
<1>3. PICK p \in Text, q \in Text : p = PathOf(u) /\ q = PathOf(id)
  BY <1>1
<1>4. Prefix(u) = Append(p, Slash)
  BY <1>3, IdentifiedAt, Zenon DEF Prefix, Below
<1>5. /\ Len(p) \in Nat /\ Len(q) \in Nat /\ DOMAIN q = 1..Len(q)
      /\ Len(Append(p, Slash)) = Len(p) + 1
      /\ \A i \in 1..Len(p) : Append(p, Slash)[i] = p[i]
  BY TextAt, BarText, AppendProperties DEF Text
<1>6. Len(p) + 1 <= Len(q) /\ \A i \in 1..Len(p) : p[i] = q[i]
  BY <1>2, <1>3, <1>4, <1>5 DEF Starts
<1>7. Len(p) + 1 \in DOMAIN q
  BY <1>5, <1>6
<1>8. TextLess(p, q)
  BY <1>5, <1>6, <1>7 DEF TextLess
<1> QED
  BY <1>3, <1>8

(* The texts from a call's prefix up to its upper bound are the paths of    *)
(* what is beneath the call, and of nothing else (_select_range,            *)
(* _prefix_upper_bound).                                                    *)
THEOREM RangeOfCall ==
    ASSUME NEW u \in Identified \cup {<<>>}, NEW id \in Identified
    PROVE  InRange(PathOf(id), Prefix(u)) <=> IsStrictPrefix(u, id)
<1>1. PathOf(id) \in Text
  BY PathSplit
<1>2. CASE u = <<>>
  <2>1. Prefix(u) = <<>>
    BY <1>2 DEF Prefix
  <2>2. IsPrefix(<<>>, PathOf(id))
    <3>1. <<>> \in Seq(Nat) /\ PathOf(id) \in Seq(Nat) /\ Len(PathOf(id)) \in Nat
      BY <1>1, EmptySeq, TextAt DEF Text
    <3>2. Starts(<<>>, PathOf(id))
      BY <3>1, EmptySeq DEF Starts
    <3> QED
      BY <3>1, <3>2, PrefixIsStart
  <2>3. IsStrictPrefix(u, id)
    BY <2>1, <2>2, PrefixOfPath, Zenon
  <2> QED
    BY <2>1, <2>3, Zenon DEF InRange
<1>3. CASE u \in Identified
  <2>1. Prefix(u) \in Text /\ Prefix(u) # <<>>
    BY <1>3, PrefixText
  <2>2. InRange(PathOf(id), Prefix(u)) <=> IsPrefix(Prefix(u), PathOf(id))
    BY <1>1, <2>1, RangeIsPrefix, Zenon DEF InRange
  <2> QED
    BY <2>2, PrefixOfPath, Zenon
<1> QED
  BY <1>2, <1>3

-----------------------------------------------------------------------------
(* The inductive invariant. *)

Statuses == {c.status : c \in Contents}
Results == {None} \cup {c.result : c \in Contents}
             \cup {[says |-> c.result.says, spelling |-> "compact"] :
                      c \in {d \in Contents : d.result # None}}
Executions == [id : Ids, arguments : DOMAIN Hex, status : Statuses, result : Results]

(* f gives values to finitely many identities.                              *)
MapOf(f, values) ==
    /\ IsFiniteSet(DOMAIN f)
    /\ DOMAIN f \subseteq Ids
    /\ \A id \in DOMAIN f : f[id] \in values

StoreTyped == CallsHaveIds /\ MapOf(stage, Contents \cup {Deleted}) /\ MapOf(saved, Contents)

PathsOf(ids) == {PathOf(id) : id \in ids}

RowsAreSaved ==
    /\ DOMAIN rows = PathsOf(DOMAIN saved)
    /\ \A id \in DOMAIN saved : rows[PathOf(id)] = RowOf(id, saved[id])

AskedTyped ==
    /\ pc \in {"idle", "listing", "merging", "listed"}
    /\ pc = "idle" => out = <<>>
    /\ pc \in {"idle", "listing", "listed"} => DOMAIN batch = {} /\ DOMAIN cursor = {}
    /\ pc # "idle" =>
          /\ asked.under \in Ids \cup {<<>>}
          /\ MapOf(asked.stage, Contents \cup {Deleted})
    /\ pc \in {"merging", "listed"} => MapOf(found, Contents)
    /\ out \in Seq(Executions)

Inside(ids) == {id \in ids : IsStrictPrefix(asked.under, id)}

StagedIsCopied ==
    /\ pc # "idle" => staged \subseteq PathsOf(Inside(DOMAIN asked.stage))
    /\ pc = "listing" => staged = PathsOf(Inside(DOMAIN asked.stage)) /\ out = <<>>
    /\ pc = "listed" => staged = {}

RestRows == DOMAIN batch \cup DOMAIN cursor
Rest == staged \cup RestRows

RowsAreFound ==
    /\ \A p \in DOMAIN batch, q \in DOMAIN cursor : TextLess(p, q)
    /\ RestRows \subseteq PathsOf(Inside(DOMAIN found))
    /\ \A id \in DOMAIN found :
          /\ PathOf(id) \in DOMAIN batch => batch[PathOf(id)] = RowOf(id, found[id])
          /\ PathOf(id) \in DOMAIN cursor => cursor[PathOf(id)] = RowOf(id, found[id])

(* What has been staged at a path is taken before its row.                  *)
StagedGoFirst ==
    \A p \in PathsOf(Inside(DOMAIN asked.stage)) \ staged : \A r \in RestRows : TextLess(p, r)

All == Over(found, asked.stage)
Chosen ==
    {id \in DOMAIN All : /\ All[id] # Deleted
                         /\ asked.status \in {None, All[id].status}
                         /\ IsStrictPrefix(asked.under, id)}

(* o lists the chosen ones of all but for the rest, in the order of paths.  *)
Lists(o, chosen, all, rest) ==
    /\ \A i \in DOMAIN o :
          o[i].id \in chosen /\ Said(o[i]) = Said(ExecutionAt(o[i].id, all[o[i].id]))
    /\ \A id \in chosen : PathOf(id) \notin rest => \E i \in DOMAIN o : o[i].id = id
    /\ \A i, j \in DOMAIN o : i < j => TextLess(PathOf(o[i].id), PathOf(o[j].id))
    /\ \A i \in DOMAIN o : \A p \in rest : TextLess(PathOf(o[i].id), p)

ListedSoFar == Lists(out, Chosen, All, Rest)

Merging == pc \in {"merging", "listed"} => RowsAreFound /\ StagedGoFirst /\ ListedSoFar

RInv == StoreTyped /\ RowsAreSaved /\ AskedTyped /\ StagedIsCopied /\ Merging

-----------------------------------------------------------------------------
(* Identities and their paths; rows and executions. *)

LEMMA IdAtPath ==
    ASSUME NEW ids \in SUBSET Ids, NEW id \in ids
    PROVE  IdAt(PathOf(id), ids) = id
<1>1. \A i \in ids : PathOf(i) = PathOf(id) => i = id
  BY IdsAreIdentified, PathsDiffer
<1>2. IdAt(PathOf(id), ids) \in ids /\ PathOf(IdAt(PathOf(id), ids)) = PathOf(id)
  BY Zenon DEF IdAt
<1> QED
  BY <1>1, <1>2

LEMMA PathsOfIds ==
    ASSUME NEW ids \in SUBSET Ids
    PROVE  /\ PathsOf(ids) \subseteq Text
           /\ \A id \in Ids : PathOf(id) \in PathsOf(ids) <=> id \in ids
<1>1. \A id \in ids : PathOf(id) \in Text
  BY IdsAreIdentified, PathSplit
<1>2. \A id \in Ids, i \in ids : PathOf(id) = PathOf(i) => id = i
  BY IdsAreIdentified, PathsDiffer
<1> QED
  BY <1>1, <1>2 DEF PathsOf

LEMMA PathsFinite ==
    ASSUME NEW ids, IsFiniteSet(ids)
    PROVE  IsFiniteSet(PathsOf(ids))
<1> DEFINE f == [id \in ids |-> PathOf(id)]
<1>1. f \in Surjection(ids, PathsOf(ids))
  BY DEF Surjection, PathsOf
<1> HIDE DEF f
<1> QED
  BY <1>1, FS_Surjection

(* The digest of an identity is that of the bytes its row keeps.            *)
LEMMA ArgumentsAreKept ==
    ASSUME NEW id \in Ids
    PROVE  /\ ArgumentsOf(id) \in DOMAIN Hex /\ ArgumentsOf(id) \in DOMAIN RestoredDigest
           /\ RestoredDigest[ArgumentsOf(id)] = id[Len(id)].digest
<1>1. id[Len(id)] \in GoodFrames
  <2>1. id \in Seq(GoodFrames) /\ id # <<>>
    BY DEF Ids
  <2>2. Len(id) \in 1..Len(id)
    BY <2>1, Unappended
  <2> QED
    BY <2>1, <2>2, SeqMembers
<1>2. PICK site \in Sites, v \in DOMAIN Digest : id[Len(id)] = Frame(site, v)
  BY <1>1 DEF GoodFrames
<1>3. PICK b \in DOMAIN Hex \cap Restorable : b = BytesOf[v]
  BY RecordsAssumption DEF RecordsAssumption, Digest
<1>4. id[Len(id)].digest = Hex[b]
  <2>1. Digest[v] = Hex[BytesOf[v]]
    BY DEF Digest
  <2>2. Frame(site, v).digest = Digest[v]
    BY DEF Frame
  <2> QED
    BY <1>2, <1>3, <2>1, <2>2
<1>5. ArgumentsOf(id) = b
  <2>1. Hex[b] \in {Hex[d] : d \in DOMAIN Hex}
    BY <1>3
  <2>2. Preimage[Hex[b]] = CHOOSE d \in DOMAIN Hex : Hex[d] = Hex[b]
    BY <2>1, Zenon DEF Preimage
  <2>3. Preimage[Hex[b]] \in DOMAIN Hex /\ Hex[Preimage[Hex[b]]] = Hex[b]
    BY <1>3, <2>2
  <2>4. Preimage[Hex[b]] = b
    BY <1>3, <2>3, RecordsAssumption DEF RecordsAssumption
  <2> QED
    BY <1>4, <2>4 DEF ArgumentsOf
<1> QED
  BY <1>3, <1>4, <1>5 DEF RestoredDigest

LEMMA ContentFields ==
    ASSUME NEW c \in Contents
    PROVE  /\ c # Deleted /\ c.status \in Statuses /\ c.result \in Results
           /\ c.status = "completed" <=> c.result # None
           /\ c.result # None => /\ [says |-> c.result.says, spelling |-> "compact"] \in Results
                                 /\ [says |-> c.result.says, spelling |-> "compact"] # None
<1>1. c.status # "deleted" /\ Deleted.status = "deleted"
  BY RecordsAssumption DEF RecordsAssumption, Deleted
<1>2. c # Deleted
  BY <1>1
<1>3. c.status \in Statuses /\ c.result \in Results
  BY DEF Statuses, Results
<1>4. c.status = "completed" <=> c.result # None
  BY RecordsAssumption DEF RecordsAssumption
<1>5. ASSUME c.result # None
      PROVE  /\ [says |-> c.result.says, spelling |-> "compact"] \in Results
             /\ [says |-> c.result.says, spelling |-> "compact"] # None
  <2>1. /\ DOMAIN c.result = {"says", "spelling"}
        /\ [c.result EXCEPT !.spelling = "compact"] # None
    BY <1>5, RecordsAssumption DEF RecordsAssumption
  <2>2. [c.result EXCEPT !.spelling = "compact"] = [says |-> c.result.says, spelling |-> "compact"]
    BY <2>1
  <2>3. [says |-> c.result.says, spelling |-> "compact"] \in Results
    BY <1>5 DEF Results
  <2> QED
    BY <2>1, <2>2, <2>3
<1> QED
  BY <1>2, <1>3, <1>4, <1>5

LEMMA ExecutionTyped ==
    ASSUME NEW id \in Ids, NEW c \in Contents
    PROVE  ExecutionAt(id, c) \in Executions
BY ArgumentsAreKept, ContentFields DEF ExecutionAt, Executions

(* A row is read back as the execution it was written for, but for the      *)
(* spelling of its result (SQLiteExecutionRecord.to_execution).             *)
LEMMA RowRead ==
    ASSUME NEW id \in Ids, NEW c \in Contents
    PROVE  /\ Readable(PathOf(id), RowOf(id, c))
           /\ ExecutionOf(PathOf(id), RowOf(id, c)) \in Executions
           /\ ExecutionOf(PathOf(id), RowOf(id, c)).id = id
           /\ ExecutionOf(PathOf(id), RowOf(id, c)).status = c.status
           /\ Said(ExecutionOf(PathOf(id), RowOf(id, c))) = Said(ExecutionAt(id, c))
<1>1. IsPath(PathOf(id)) /\ IdOf(PathOf(id)) = id
  BY IdsAreIdentified, PathRead
<1>2. PICK row, p : row = RowOf(id, c) /\ p = PathOf(id)
  OBVIOUS
<1>3. /\ row.arguments = ArgumentsOf(id) /\ row.status = c.status
      /\ row.result = IF c.result = None THEN None ELSE c.result.says
  BY <1>2 DEF RowOf
<1>4. Readable(p, row)
  BY <1>1, <1>2, <1>3, ArgumentsAreKept, Zenon DEF Readable
<1>5. PICK e, r : /\ e = ExecutionOf(p, row) /\ r = Unpacked(row)
                  /\ e = [id |-> id, arguments |-> ArgumentsOf(id), status |-> c.status,
                          result |-> r]
  BY <1>1, <1>2, <1>3 DEF ExecutionOf
<1>6. r = IF c.result = None THEN None ELSE [says |-> c.result.says, spelling |-> "compact"]
  BY <1>3, <1>5, ContentFields DEF Unpacked
<1>7. r \in Results /\ (r = None <=> c.result = None) /\ (c.result # None => r.says = c.result.says)
  BY <1>6, ContentFields DEF Results
<1>8. e \in Executions
  <2>1. ArgumentsOf(id) \in DOMAIN Hex /\ c.status \in Statuses
    BY ArgumentsAreKept, ContentFields
  <2> QED
    BY <1>5, <1>7, <2>1 DEF Executions
<1>9. Said(e) = Said(ExecutionAt(id, c))
  <2>1. PICK x : /\ x = IF r = None THEN None ELSE r.says
                 /\ x = IF c.result = None THEN None ELSE c.result.says
    BY <1>7
  <2>2. Said(e) = [id |-> id, arguments |-> ArgumentsOf(id), status |-> c.status, result |-> x]
    BY <1>5, <2>1 DEF Said
  <2>3. Said(ExecutionAt(id, c)) = [id |-> id, arguments |-> ArgumentsOf(id),
                                    status |-> c.status, result |-> x]
    BY <2>1 DEF Said, ExecutionAt
  <2> QED
    BY <2>2, <2>3, Zenon
<1>10. e.id = id /\ e.status = c.status
  BY <1>5
<1> QED
  BY <1>2, <1>4, <1>5, <1>8, <1>9, <1>10, Zenon

-----------------------------------------------------------------------------
(* One step of the merge, which takes the least of the rest. *)

LEMMA ListsNone ==
    ASSUME NEW o \in Seq(Executions), NEW chosen \in SUBSET Ids, NEW all, NEW rest,
           Lists(o, chosen, all, rest), NEW id \in Ids, id \notin chosen
    PROVE  Lists(o, chosen, all, rest \ {PathOf(id)})
<1>1. \A x \in chosen : PathOf(x) # PathOf(id)
  BY IdsAreIdentified, PathsDiffer
<1>2. PICK left : left = rest \ {PathOf(id)}
  OBVIOUS
<1>3. left \subseteq rest /\ \A x \in chosen : PathOf(x) \notin left => PathOf(x) \notin rest
  BY <1>1, <1>2
<1>4. Lists(o, chosen, all, left)
  BY <1>3, Zenon DEF Lists
<1> QED
  BY <1>2, <1>4

LEMMA ListsNext ==
    ASSUME NEW o \in Seq(Executions), NEW chosen \in SUBSET Ids, NEW all, NEW rest,
           Lists(o, chosen, all, rest),
           NEW id \in chosen, PathOf(id) \in rest,
           \A r \in rest \ {PathOf(id)} : TextLess(PathOf(id), r),
           NEW e \in Executions, e.id = id, Said(e) = Said(ExecutionAt(id, all[id]))
    PROVE  Append(o, e) \in Seq(Executions)
           /\ Lists(Append(o, e), chosen, all, rest \ {PathOf(id)})
<1> DEFINE p == PathOf(id)
           left == rest \ {p}
<1>1. \A x \in chosen : PathOf(x) = p => x = id
  BY IdsAreIdentified, PathsDiffer
<1>2. /\ \A i \in DOMAIN o :
            o[i].id \in chosen /\ Said(o[i]) = Said(ExecutionAt(o[i].id, all[o[i].id]))
      /\ \A x \in chosen : PathOf(x) \notin rest => \E i \in DOMAIN o : o[i].id = x
      /\ \A i, j \in DOMAIN o : i < j => TextLess(PathOf(o[i].id), PathOf(o[j].id))
      /\ \A i \in DOMAIN o : \A r \in rest : TextLess(PathOf(o[i].id), r)
  BY Zenon DEF Lists
<1>3. \A x \in chosen : PathOf(x) \notin left => PathOf(x) \notin rest \/ x = id
  BY <1>1
<1>4. PICK q : q = Append(o, e)
  OBVIOUS
<1>5. q \in Seq(Executions) /\ Lists(q, chosen, all, left)
  <2>1. /\ q \in Seq(Executions) /\ Len(q) = Len(o) + 1
        /\ \A i \in 1..Len(o) : q[i] = o[i]
        /\ q[Len(o) + 1] = e
    BY <1>4, AppendProperties
  <2>2. PICK n \in Nat : n = Len(o) + 1 /\ DOMAIN o = 1..(n - 1) /\ DOMAIN q = 1..n
    <3>1. /\ Len(o) \in Nat /\ DOMAIN o = 1..Len(o)
          /\ Len(q) \in Nat /\ DOMAIN q = 1..Len(q)
      BY <2>1, LenProperties
    <3> QED
      BY <2>1, <3>1
  <2>3. /\ q[n] = e /\ n \in DOMAIN q
        /\ \A i \in DOMAIN q : i = n \/ (i \in DOMAIN o /\ i < n)
        /\ \A i \in DOMAIN o : i \in DOMAIN q /\ q[i] = o[i]
    BY <2>1, <2>2
  <2>4. \A i \in DOMAIN q :
            q[i].id \in chosen /\ Said(q[i]) = Said(ExecutionAt(q[i].id, all[q[i].id]))
    BY <1>2, <2>3, Zenon
  <2>5. \A x \in chosen : PathOf(x) \notin left => \E i \in DOMAIN q : q[i].id = x
    BY <1>2, <1>3, <2>3, Zenon
  <2>6. ASSUME NEW i \in DOMAIN q, NEW j \in DOMAIN q, i < j
        PROVE  TextLess(PathOf(q[i].id), PathOf(q[j].id))
    <3>1. i \in DOMAIN o /\ q[i] = o[i]
      BY <2>2, <2>3, <2>6
    <3>2. CASE j = n
      <4>1. TextLess(PathOf(o[i].id), p)
        BY <1>2, <3>1
      <4> QED
        BY <2>3, <3>1, <3>2, <4>1, Zenon
    <3>3. CASE j \in DOMAIN o
      BY <1>2, <2>3, <2>6, <3>1, <3>3, Zenon
    <3> QED
      BY <2>3, <3>2, <3>3
  <2>7. \A i \in DOMAIN q : \A r \in left : TextLess(PathOf(q[i].id), r)
    <3>1. \A i \in DOMAIN o : \A r \in left : TextLess(PathOf(o[i].id), r)
      BY <1>2
    <3>2. \A r \in left : TextLess(PathOf(e.id), r)
      OBVIOUS
    <3> HIDE DEF left
    <3> QED
      BY <2>3, <3>1, <3>2, Zenon
  <2> HIDE DEF left
  <2>8. Lists(q, chosen, all, left)
    BY <2>4, <2>5, <2>6, <2>7, Zenon DEF Lists
  <2> QED
    BY <2>1, <2>8
<1> QED
  BY <1>4, <1>5

-----------------------------------------------------------------------------
(* The store's actions. *)

LEMMA MapOfOver ==
    ASSUME NEW values, NEW f, NEW g, MapOf(f, values), MapOf(g, values)
    PROVE  /\ MapOf(Over(f, g), values)
           /\ DOMAIN Over(f, g) = DOMAIN f \cup DOMAIN g
           /\ \A x \in DOMAIN g : Over(f, g)[x] = g[x]
           /\ \A x \in DOMAIN f \ DOMAIN g : Over(f, g)[x] = f[x]
<1>1. /\ IsFiniteSet(DOMAIN f) /\ DOMAIN f \subseteq Ids /\ \A id \in DOMAIN f : f[id] \in values
      /\ IsFiniteSet(DOMAIN g) /\ DOMAIN g \subseteq Ids /\ \A id \in DOMAIN g : g[id] \in values
  BY Zenon DEF MapOf
<1>2. /\ DOMAIN Over(f, g) = DOMAIN f \cup DOMAIN g
      /\ \A x \in DOMAIN g : Over(f, g)[x] = g[x]
      /\ \A x \in DOMAIN f \ DOMAIN g : Over(f, g)[x] = f[x]
  BY DEF Over
<1>3. IsFiniteSet(DOMAIN f \cup DOMAIN g)
  BY <1>1, FS_Union
<1>4. PICK h : h = Over(f, g)
  OBVIOUS
<1>5. /\ IsFiniteSet(DOMAIN h) /\ DOMAIN h \subseteq Ids
      /\ \A id \in DOMAIN h : h[id] \in values
  BY <1>1, <1>2, <1>3, <1>4
<1> QED
  BY <1>2, <1>4, <1>5, Zenon DEF MapOf

LEMMA StoreKept ==
    ASSUME StoreTyped, RowsAreSaved, UNCHANGED store
    PROVE  StoreTyped' /\ RowsAreSaved'
BY DEF StoreTyped, RowsAreSaved, CallsHaveIds, store

evars == <<pc, asked, found, staged, cursor, batch, out>>

LEMMA EnumerationKept ==
    ASSUME AskedTyped, StagedIsCopied, Merging, UNCHANGED evars
    PROVE  AskedTyped' /\ StagedIsCopied' /\ Merging'
<1>1. /\ pc' = pc /\ asked' = asked /\ found' = found /\ staged' = staged
      /\ cursor' = cursor /\ batch' = batch /\ out' = out
  BY DEF evars
<1>2. AskedTyped'
  BY <1>1 DEF AskedTyped
<1>3. StagedIsCopied'
  BY <1>1 DEF StagedIsCopied, Inside
<1>4. RestRows' = RestRows /\ Rest' = Rest /\ All' = All /\ Chosen' = Chosen
  BY <1>1 DEF RestRows, Rest, All, Chosen
<1>5. RowsAreFound' = RowsAreFound
  BY <1>1 DEF RowsAreFound, Inside, RestRows
<1>6. StagedGoFirst' = StagedGoFirst
  BY <1>1 DEF StagedGoFirst, Inside, RestRows
<1>7. ListedSoFar' = ListedSoFar
  BY <1>1, <1>4 DEF ListedSoFar
<1>8. Merging'
  BY <1>1, <1>5, <1>6, <1>7 DEF Merging
<1> QED
  BY <1>2, <1>3, <1>8

LEMMA CallStep ==
    ASSUME RInv, NEW parent \in Known \cup {<<>>}, NEW site \in Sites, NEW v \in DOMAIN Digest,
           Call(parent, site, v)
    PROVE  RInv'
<1>1. CallsHaveIds'
  <2>1. parent \in Seq(GoodFrames)
    <3>1. \A id \in Known : id \in Seq(GoodFrames)
      BY DEF Known, RInv, StoreTyped, CallsHaveIds, Ids
    <3>2. <<>> \in Seq(GoodFrames)
      BY EmptySeq
    <3> QED
      BY <3>1, <3>2
  <2>2. Frame(site, v) \in GoodFrames
    BY DEF GoodFrames
  <2>3. Append(parent, Frame(site, v)) \in Ids
    BY <2>1, <2>2, Appended DEF Ids
  <2>4. calls' = calls \cup {[id |-> Append(parent, Frame(site, v)), value |-> v]}
    BY Zenon DEF Call
  <2>5. \A c \in calls' : c \in calls \/ c.id = Append(parent, Frame(site, v))
    BY <2>4
  <2> QED
    BY <2>3, <2>5, Zenon DEF CallsHaveIds, RInv, StoreTyped
<1>2. /\ stage' = stage /\ saved' = saved /\ rows' = rows
      /\ UNCHANGED evars
  BY Zenon DEF Call, evars
<1>3. StoreTyped' /\ RowsAreSaved'
  BY <1>1, <1>2 DEF RInv, StoreTyped, RowsAreSaved
<1> QED
  BY <1>2, <1>3, EnumerationKept DEF RInv

LEMMA StageStep ==
    ASSUME RInv, NEW id \in Known, NEW mutation \in Contents \cup {Deleted}, Stage(id, mutation)
    PROVE  RInv'
<1>1. id \in Ids
  BY DEF Known, RInv, StoreTyped, CallsHaveIds
<1>2. stage' = Over(stage, [i \in {id} |-> mutation])
  BY Zenon DEF Stage
<1>3. calls' = calls /\ rows' = rows /\ saved' = saved /\ UNCHANGED evars
  BY Zenon DEF Stage, evars
<1>4. MapOf(stage', Contents \cup {Deleted})
  <2>1. PICK g : g = [i \in {id} |-> mutation]
    OBVIOUS
  <2>2. IsFiniteSet({id})
    BY FS_Singleton
  <2>3. MapOf(g, Contents \cup {Deleted})
    BY <1>1, <2>1, <2>2 DEF MapOf
  <2>4. MapOf(stage, Contents \cup {Deleted})
    BY DEF RInv, StoreTyped
  <2> QED
    BY <1>2, <2>1, <2>3, <2>4, MapOfOver, Zenon
<1>5. StoreTyped' /\ RowsAreSaved'
  BY <1>3, <1>4 DEF RInv, StoreTyped, CallsHaveIds, RowsAreSaved
<1> QED
  BY <1>3, <1>5, EnumerationKept DEF RInv

LEMMA CommitStep ==
    ASSUME RInv, Commit
    PROVE  RInv'
<1> DEFINE deleted == {id \in DOMAIN stage : stage[id] = Deleted}
           total == Over(saved, stage)
           kept == DOMAIN total \ deleted
           paths == PathsOf(DOMAIN stage \ deleted)
           gone == PathsOf(deleted)
<1>1. calls' = calls /\ UNCHANGED evars /\ stage' = Nothing
  BY Zenon DEF Commit, evars
<1>2. MapOf(stage', Contents \cup {Deleted})
  BY <1>1, FS_EmptySet DEF MapOf, Nothing
<1>3. CASE rows' = rows /\ saved' = saved
  <2>1. StoreTyped' /\ RowsAreSaved'
    BY <1>1, <1>2, <1>3 DEF RInv, StoreTyped, CallsHaveIds, RowsAreSaved
  <2> QED
    BY <1>1, <2>1, EnumerationKept DEF RInv
<1>4. CASE rows' = Written(deleted) /\ saved' = [id \in kept |-> total[id]]
  <2>1. MapOf(stage, Contents \cup {Deleted}) /\ MapOf(saved, Contents)
    BY DEF RInv, StoreTyped
  <2>2. /\ IsFiniteSet(DOMAIN stage) /\ DOMAIN stage \in SUBSET Ids
        /\ \A id \in DOMAIN stage : stage[id] \in Contents \cup {Deleted}
        /\ IsFiniteSet(DOMAIN saved) /\ DOMAIN saved \in SUBSET Ids
        /\ \A id \in DOMAIN saved : saved[id] \in Contents
    BY <2>1 DEF MapOf
  <2>3. MapOf(saved, Contents \cup {Deleted})
    BY <2>2 DEF MapOf
  <2>4. /\ MapOf(total, Contents \cup {Deleted})
        /\ DOMAIN total = DOMAIN saved \cup DOMAIN stage
        /\ \A id \in DOMAIN stage : total[id] = stage[id]
        /\ \A id \in DOMAIN saved \ DOMAIN stage : total[id] = saved[id]
    <3>1. MapOf(total, Contents \cup {Deleted})
      BY <2>1, <2>3, MapOfOver, Zenon
    <3> QED
      BY <3>1 DEF Over
  <2>5. \A id \in kept : total[id] \in Contents
    BY <2>2, <2>4
  <2>6. DOMAIN saved' = kept /\ \A id \in kept : saved'[id] = total[id]
    BY <1>4
  <2>7. /\ IsFiniteSet(kept) /\ kept \subseteq Ids
    <3>1. IsFiniteSet(DOMAIN total) /\ DOMAIN total \subseteq Ids
      BY <2>4 DEF MapOf
    <3>2. kept \subseteq DOMAIN total
      OBVIOUS
    <3> HIDE DEF kept
    <3> QED
      BY <3>1, <3>2, FS_Subset
  <2>8. MapOf(saved', Contents)
    BY <2>5, <2>6, <2>7 DEF MapOf
  <2>9. StoreTyped'
    BY <1>1, <1>2, <2>8 DEF RInv, StoreTyped, CallsHaveIds
  <2>10. /\ DOMAIN stage \ deleted \in SUBSET Ids /\ deleted \in SUBSET Ids
         /\ kept \in SUBSET Ids
    BY <2>2, <2>7
  <2>11. /\ DOMAIN rows' = (DOMAIN rows \ gone) \cup paths
         /\ \A p \in paths : rows'[p] = RowOf(IdAt(p, DOMAIN stage), stage[IdAt(p, DOMAIN stage)])
         /\ \A p \in DOMAIN rows \ (gone \cup paths) : rows'[p] = rows[p]
    <3>1. Written(deleted) = [p \in (DOMAIN rows \ gone) \cup paths |->
             IF p \in paths THEN RowOf(IdAt(p, DOMAIN stage), stage[IdAt(p, DOMAIN stage)])
             ELSE rows[p]]
      BY DEF Written, PathsOf
    <3> HIDE DEF gone, paths, deleted
    <3> QED
      BY <1>4, <3>1
  <2>12. \A id \in Ids : /\ PathOf(id) \in paths <=> id \in DOMAIN stage \ deleted
                         /\ PathOf(id) \in gone <=> id \in deleted
                         /\ PathOf(id) \in PathsOf(kept) <=> id \in kept
                         /\ PathOf(id) \in PathsOf(DOMAIN saved) <=> id \in DOMAIN saved
    <3>1. \A S \in SUBSET Ids : \A id \in Ids : PathOf(id) \in PathsOf(S) <=> id \in S
      BY PathsOfIds
    <3> HIDE DEF kept, deleted
    <3> QED
      BY <2>2, <2>10, <3>1
  <2>13. \A id \in kept : id \in DOMAIN stage \ deleted \/ id \in DOMAIN saved \ DOMAIN stage
    BY <2>4
  <2>14. DOMAIN rows = PathsOf(DOMAIN saved)
         /\ \A id \in DOMAIN saved : rows[PathOf(id)] = RowOf(id, saved[id])
    BY DEF RInv, RowsAreSaved
  <2>15. DOMAIN rows' = PathsOf(kept)
    <3>1. ASSUME NEW p \in DOMAIN rows' PROVE p \in PathsOf(kept)
      <4>1. PICK id \in Ids : p = PathOf(id)
        BY <2>2, <2>11, <2>14, <3>1 DEF PathsOf
      <4>2. id \in (DOMAIN saved \ deleted) \cup (DOMAIN stage \ deleted)
        BY <2>11, <2>12, <2>14, <3>1, <4>1
      <4> QED
        BY <2>4, <2>12, <4>1, <4>2
    <3>2. ASSUME NEW p \in PathsOf(kept) PROVE p \in DOMAIN rows'
      <4>1. PICK id \in kept : p = PathOf(id)
        BY <3>2 DEF PathsOf
      <4>2. PathOf(id) \in paths \/ (PathOf(id) \in DOMAIN rows /\ PathOf(id) \notin gone)
        BY <2>10, <2>12, <2>13, <2>14, <4>1
      <4> QED
        BY <2>11, <4>1, <4>2
    <3> QED
      BY <3>1, <3>2
  <2>16. ASSUME NEW id \in kept PROVE rows'[PathOf(id)] = RowOf(id, total[id])
    <3>1. CASE id \in DOMAIN stage \ deleted
      <4>1. PathOf(id) \in paths /\ IdAt(PathOf(id), DOMAIN stage) = id
        BY <2>2, <2>12, <3>1, IdAtPath
      <4> QED
        BY <2>4, <2>11, <3>1, <4>1
    <3>2. CASE id \in DOMAIN saved \ DOMAIN stage
      <4>1. PathOf(id) \in DOMAIN rows \ (gone \cup paths)
        BY <2>2, <2>12, <2>14, <3>2
      <4> QED
        BY <2>4, <2>11, <2>14, <3>2, <4>1
    <3> QED
      BY <2>13, <3>1, <3>2
  <2>17. RowsAreSaved'
    BY <2>6, <2>15, <2>16 DEF RowsAreSaved
  <2> QED
    BY <1>1, <2>9, <2>17, EnumerationKept DEF RInv
<1> QED
  BY <1>3, <1>4, Zenon DEF Commit

-----------------------------------------------------------------------------
(* The enumeration's actions. *)

LEMMA PathsInside ==
    ASSUME NEW ids \in SUBSET Ids, NEW under \in Ids \cup {<<>>}
    PROVE  /\ {p \in PathsOf(ids) : IsPrefix(Prefix(under), p)}
                 = PathsOf({id \in ids : IsStrictPrefix(under, id)})
           /\ {p \in PathsOf(ids) : InRange(p, Prefix(under))}
                 = PathsOf({id \in ids : IsStrictPrefix(under, id)})
<1>1. under \in Identified \cup {<<>>} /\ ids \subseteq Identified
  BY IdsAreIdentified
<1>2. \A id \in ids : /\ IsPrefix(Prefix(under), PathOf(id)) <=> IsStrictPrefix(under, id)
                      /\ InRange(PathOf(id), Prefix(under)) <=> IsStrictPrefix(under, id)
  BY <1>1, PrefixOfPath, RangeOfCall, Zenon
<1> QED
  BY <1>2, Zenon DEF PathsOf

LEMMA EnumerateStep ==
    ASSUME RInv, NEW under \in Known \cup {<<>>}, NEW status \in {None, "completed"},
           Enumerate(under, status)
    PROVE  RInv'
<1>1. /\ calls' = calls /\ rows' = rows /\ saved' = saved /\ stage' = stage
      /\ pc = "idle" /\ pc' = "listing"
      /\ found' = found /\ cursor' = cursor /\ batch' = batch /\ out' = out
      /\ asked' = [under |-> under, status |-> status, stage |-> stage]
      /\ staged' = {p \in PathsOf(DOMAIN stage) : IsPrefix(Prefix(under), p)}
  BY Zenon DEF Enumerate, StagedFor, store, PathsOf
<1>2. under \in Ids \cup {<<>>}
  BY DEF Known, RInv, StoreTyped, CallsHaveIds
<1>3. MapOf(stage, Contents \cup {Deleted}) /\ DOMAIN stage \in SUBSET Ids
  BY DEF RInv, StoreTyped, MapOf
<1>4. StoreTyped' /\ RowsAreSaved'
  BY <1>1, StoreKept DEF RInv, store
<1>5. asked'.under = under /\ asked'.stage = stage
  BY <1>1
<1>6. AskedTyped'
  BY <1>1, <1>2, <1>3, <1>5 DEF RInv, AskedTyped
<1>7. staged' = PathsOf({id \in DOMAIN stage : IsStrictPrefix(under, id)})
  BY <1>1, <1>2, <1>3, PathsInside, Zenon
<1>8. Inside(DOMAIN asked.stage)' = {id \in DOMAIN stage : IsStrictPrefix(under, id)}
  BY <1>5 DEF Inside
<1>9. out = <<>>
  BY <1>1 DEF RInv, AskedTyped
<1>10. StagedIsCopied'
  <2>1. staged' = PathsOf(Inside(DOMAIN asked.stage)')
    BY <1>7, <1>8, Zenon
  <2>2. PathsOf(Inside(DOMAIN asked.stage))' = PathsOf(Inside(DOMAIN asked.stage)')
    BY DEF PathsOf
  <2> QED
    BY <1>1, <1>9, <2>1, <2>2 DEF StagedIsCopied
<1>11. Merging'
  BY <1>1 DEF Merging
<1> QED
  BY <1>4, <1>6, <1>10, <1>11 DEF RInv

LEMMA SelectStep ==
    ASSUME RInv, Select
    PROVE  RInv'
<1>1. /\ calls' = calls /\ rows' = rows /\ saved' = saved /\ stage' = stage
      /\ pc = "listing" /\ pc' = "merging" /\ found' = saved
      /\ asked' = asked /\ staged' = staged /\ batch' = batch /\ out' = out
      /\ cursor' = [p \in {q \in DOMAIN rows : InRange(q, Prefix(asked.under))} |-> rows[p]]
  BY Zenon DEF Select, store
<1>2. /\ asked.under \in Ids \cup {<<>>} /\ MapOf(asked.stage, Contents \cup {Deleted})
      /\ DOMAIN batch = {} /\ out = <<>> /\ out \in Seq(Executions)
      /\ staged = PathsOf(Inside(DOMAIN asked.stage))
  BY <1>1 DEF RInv, AskedTyped, StagedIsCopied
<1>3. /\ MapOf(saved, Contents) /\ DOMAIN saved \in SUBSET Ids
      /\ DOMAIN rows = PathsOf(DOMAIN saved)
      /\ \A id \in DOMAIN saved : rows[PathOf(id)] = RowOf(id, saved[id])
  BY DEF RInv, StoreTyped, MapOf, RowsAreSaved
<1>4. StoreTyped' /\ RowsAreSaved'
  BY <1>1, StoreKept DEF RInv, store
<1>5. AskedTyped'
  BY <1>1, <1>2, <1>3 DEF AskedTyped
<1>6. StagedIsCopied'
  BY <1>1, <1>2 DEF StagedIsCopied, Inside
<1>7. DOMAIN cursor' = PathsOf(Inside(DOMAIN saved))
  <2>1. DOMAIN cursor' = {q \in PathsOf(DOMAIN saved) : InRange(q, Prefix(asked.under))}
    BY <1>1, <1>3
  <2> QED
    BY <1>2, <1>3, <2>1, PathsInside, Zenon DEF Inside
<1>8. \A p \in DOMAIN cursor' : cursor'[p] = rows[p]
  BY <1>1
<1>9. RestRows' = PathsOf(Inside(DOMAIN saved)) /\ Rest' = staged \cup RestRows'
  BY <1>1, <1>2, <1>7 DEF RestRows, Rest
<1>10. RowsAreFound'
  <2>1. RestRows' \subseteq PathsOf(Inside(DOMAIN found))'
    BY <1>1, <1>9 DEF Inside, PathsOf
  <2>2. \A id \in DOMAIN saved : PathOf(id) \in DOMAIN cursor' => cursor'[PathOf(id)] = RowOf(id, saved[id])
    BY <1>3, <1>8
  <2> QED
    BY <1>1, <1>2, <2>1, <2>2 DEF RowsAreFound
<1>11. StagedGoFirst'
  BY <1>1, <1>2 DEF StagedGoFirst, Inside, PathsOf
<1>12. ListedSoFar'
  <2>1. ASSUME NEW id \in Chosen' PROVE PathOf(id) \in Rest'
    <3>1. id \in DOMAIN found' \cup DOMAIN asked'.stage /\ IsStrictPrefix(asked'.under, id)
      BY <2>1 DEF Chosen, All, Over
    <3>2. id \in Inside(DOMAIN saved) \/ id \in Inside(DOMAIN asked.stage)
      BY <1>1, <3>1 DEF Inside
    <3> QED
      BY <1>2, <1>9, <3>2 DEF PathsOf
  <2>2. DOMAIN out' = {}
    BY <1>1, <1>2
  <2>3. Lists(out', Chosen', All', Rest')
    BY <2>1, <2>2 DEF Lists
  <2> QED
    BY <2>3 DEF ListedSoFar
<1>13. Merging'
  BY <1>10, <1>11, <1>12 DEF Merging
<1> QED
  BY <1>4, <1>5, <1>6, <1>13 DEF RInv

LEMMA FetchStep ==
    ASSUME RInv, NEW paths \in SUBSET DOMAIN cursor, Fetch(paths)
    PROVE  RInv'
<1>1. /\ calls' = calls /\ rows' = rows /\ saved' = saved /\ stage' = stage
      /\ pc = "merging" /\ pc' = pc /\ asked' = asked /\ found' = found
      /\ staged' = staged /\ out' = out /\ DOMAIN batch = {}
      /\ \A p \in paths, q \in DOMAIN cursor \ paths : TextLess(p, q)
      /\ batch' = [p \in paths |-> cursor[p]]
      /\ cursor' = [p \in DOMAIN cursor \ paths |-> cursor[p]]
  BY Zenon DEF Fetch, store
<1>2. /\ DOMAIN batch' = paths /\ \A p \in paths : batch'[p] = cursor[p]
      /\ DOMAIN cursor' = DOMAIN cursor \ paths /\ \A p \in DOMAIN cursor' : cursor'[p] = cursor[p]
  BY <1>1
<1>3. StoreTyped' /\ RowsAreSaved'
  BY <1>1, StoreKept DEF RInv, store
<1>4. AskedTyped'
  BY <1>1 DEF RInv, AskedTyped
<1>5. StagedIsCopied'
  BY <1>1 DEF RInv, StagedIsCopied, Inside
<1>6. RowsAreFound /\ StagedGoFirst /\ ListedSoFar
  BY <1>1 DEF RInv, Merging
<1>7. RestRows' = RestRows
  BY <1>1, <1>2 DEF RestRows
<1>8. RowsAreFound'
  <2>1. RestRows' \subseteq PathsOf(Inside(DOMAIN found))'
    BY <1>1, <1>6, <1>7 DEF RowsAreFound, Inside, PathsOf
  <2>2. \A p \in DOMAIN batch', q \in DOMAIN cursor' : TextLess(p, q)
    BY <1>1, <1>2
  <2>3. \A id \in DOMAIN found' :
          /\ PathOf(id) \in DOMAIN batch' => batch'[PathOf(id)] = RowOf(id, found'[id])
          /\ PathOf(id) \in DOMAIN cursor' => cursor'[PathOf(id)] = RowOf(id, found'[id])
    BY <1>1, <1>2, <1>6 DEF RowsAreFound
  <2> QED
    BY <2>1, <2>2, <2>3 DEF RowsAreFound
<1>9. StagedGoFirst'
  BY <1>1, <1>6, <1>7 DEF StagedGoFirst, Inside, PathsOf
<1>10. ListedSoFar'
  <2>1. Chosen' = Chosen /\ All' = All /\ Rest' = Rest
    BY <1>1, <1>7 DEF Chosen, All, Rest
  <2> QED
    BY <1>1, <1>6, <2>1 DEF ListedSoFar
<1>11. Merging'
  BY <1>8, <1>9, <1>10 DEF Merging
<1> QED
  BY <1>3, <1>4, <1>5, <1>11 DEF RInv

LEMMA CloseStep ==
    ASSUME RInv, Close
    PROVE  RInv'
<1>1. /\ calls' = calls /\ rows' = rows /\ saved' = saved /\ stage' = stage
      /\ pc = "listed" /\ pc' = "idle" /\ out' = <<>>
      /\ batch' = batch /\ cursor' = cursor
  BY Zenon DEF Close, store
<1>2. StoreTyped' /\ RowsAreSaved'
  BY <1>1, StoreKept DEF RInv, store
<1>3. AskedTyped'
  BY <1>1, EmptySeq DEF RInv, AskedTyped
<1>4. StagedIsCopied' /\ Merging'
  BY <1>1 DEF StagedIsCopied, Merging
<1> QED
  BY <1>2, <1>3, <1>4 DEF RInv

LEMMA InitHolds ==
    ASSUME Init
    PROVE  RInv
<1>1. /\ calls = {} /\ rows = Nothing /\ saved = Nothing /\ stage = Nothing /\ pc = "idle"
      /\ cursor = Nothing /\ batch = Nothing /\ out = <<>>
  BY DEF Init
<1>2. StoreTyped
  BY <1>1, FS_EmptySet DEF StoreTyped, CallsHaveIds, MapOf, Nothing
<1>3. RowsAreSaved
  BY <1>1 DEF RowsAreSaved, PathsOf, Nothing
<1>4. AskedTyped
  BY <1>1, EmptySeq DEF AskedTyped, Nothing
<1>5. StagedIsCopied /\ Merging
  BY <1>1 DEF StagedIsCopied, Merging
<1> QED
  BY <1>2, <1>3, <1>4, <1>5 DEF RInv

(* What the merge takes from: finitely many paths of known identities.      *)
LEMMA MergeTyped ==
    ASSUME RInv, pc = "merging"
    PROVE  /\ staged \in SUBSET Text /\ IsFiniteSet(staged)
           /\ DOMAIN batch \in SUBSET Text /\ IsFiniteSet(DOMAIN batch)
           /\ DOMAIN cursor \in SUBSET Text
           /\ Inside(DOMAIN asked.stage) \in SUBSET Ids /\ Inside(DOMAIN found) \in SUBSET Ids
<1>1. MapOf(asked.stage, Contents \cup {Deleted}) /\ MapOf(found, Contents)
  BY DEF RInv, AskedTyped
<1>2. /\ IsFiniteSet(DOMAIN asked.stage) /\ DOMAIN asked.stage \in SUBSET Ids
      /\ IsFiniteSet(DOMAIN found) /\ DOMAIN found \in SUBSET Ids
  BY <1>1 DEF MapOf
<1>3. Inside(DOMAIN asked.stage) \subseteq DOMAIN asked.stage
      /\ Inside(DOMAIN found) \subseteq DOMAIN found
  BY DEF Inside
<1>4. PICK ours, theirs : ours = Inside(DOMAIN asked.stage) /\ theirs = Inside(DOMAIN found)
  OBVIOUS
<1>5. /\ IsFiniteSet(ours) /\ ours \in SUBSET Ids
      /\ IsFiniteSet(theirs) /\ theirs \in SUBSET Ids
  BY <1>2, <1>3, <1>4, FS_Subset
<1>6. /\ IsFiniteSet(PathsOf(ours)) /\ PathsOf(ours) \in SUBSET Text
      /\ IsFiniteSet(PathsOf(theirs)) /\ PathsOf(theirs) \in SUBSET Text
  BY <1>5, PathsFinite, PathsOfIds
<1>7. staged \subseteq PathsOf(ours) /\ DOMAIN batch \cup DOMAIN cursor \subseteq PathsOf(theirs)
  BY <1>4, Zenon DEF RInv, StagedIsCopied, Merging, RowsAreFound, RestRows
<1>8. PICK rs : rs = DOMAIN batch
  OBVIOUS
<1>9. /\ staged \in SUBSET Text /\ IsFiniteSet(staged) /\ rs \in SUBSET Text /\ IsFiniteSet(rs)
  BY <1>6, <1>7, <1>8, FS_Subset
<1>10. DOMAIN cursor \in SUBSET Text
  BY <1>6, <1>7
<1> QED
  BY <1>4, <1>5, <1>8, <1>9, <1>10

(* An execution is yielded when its status is asked for.                    *)
LEMMA Yielded ==
    ASSUME RInv, pc = "merging", NEW id \in Ids, NEW c \in Contents, NEW e \in Executions,
           id \in DOMAIN All, All[id] = c, IsStrictPrefix(asked.under, id),
           e.id = id, e.status = c.status, Said(e) = Said(ExecutionAt(id, c)),
           Yield(e),
           PathOf(id) \in Rest, \A r \in Rest \ {PathOf(id)} : TextLess(PathOf(id), r)
    PROVE  out' \in Seq(Executions) /\ Lists(out', Chosen, All, Rest \ {PathOf(id)})
<1>1. out \in Seq(Executions) /\ Lists(out, Chosen, All, Rest)
  BY DEF RInv, AskedTyped, Merging, ListedSoFar
<1>2. c # Deleted
  BY ContentFields
<1>3. id \in Chosen <=> asked.status \in {None, c.status}
  BY <1>2 DEF Chosen
<1>4. out' = IF asked.status \in {None, c.status} THEN Append(out, e) ELSE out
  BY DEF Yield
<1>5. Chosen \in SUBSET Ids
  <2>1. MapOf(asked.stage, Contents \cup {Deleted}) /\ MapOf(found, Contents)
    BY DEF RInv, AskedTyped
  <2> QED
    BY <2>1 DEF Chosen, All, Over, MapOf
<1>6. CASE id \notin Chosen /\ out' = out
  BY <1>1, <1>5, <1>6, ListsNone, Zenon
<1>7. CASE id \in Chosen /\ out' = Append(out, e)
  BY <1>1, <1>5, <1>7, ListsNext, Zenon
<1> QED
  BY <1>3, <1>4, <1>6, <1>7

LEMMA StagedTaken ==
    ASSUME RInv, pc = "merging", NEW id \in Inside(DOMAIN asked.stage), TakeStaged(PathOf(id)),
           PathOf(id) \in Rest, \A r \in Rest \ {PathOf(id)} : TextLess(PathOf(id), r)
    PROVE  out' \in Seq(Executions) /\ Lists(out', Chosen, All, Rest \ {PathOf(id)})
<1>1. MapOf(asked.stage, Contents \cup {Deleted}) /\ MapOf(found, Contents)
  BY DEF RInv, AskedTyped
<1>2. /\ id \in Ids /\ id \in DOMAIN asked.stage /\ DOMAIN asked.stage \in SUBSET Ids
      /\ IsStrictPrefix(asked.under, id) /\ asked.stage[id] \in Contents \cup {Deleted}
  BY <1>1 DEF Inside, MapOf
<1>3. id \in DOMAIN All /\ All[id] = asked.stage[id]
  BY <1>2 DEF All, Over
<1>4. IdAt(PathOf(id), DOMAIN asked.stage) = id
  BY <1>2, IdAtPath
<1>5. \/ asked.stage[id] = Deleted /\ out' = out
      \/ asked.stage[id] # Deleted /\ Yield(ExecutionAt(id, asked.stage[id]))
  BY <1>4, Zenon DEF TakeStaged
<1>6. CASE asked.stage[id] = Deleted /\ out' = out
  <2>1. id \notin Chosen
    BY <1>3, <1>6 DEF Chosen
  <2>2. out \in Seq(Executions) /\ Lists(out, Chosen, All, Rest)
    BY DEF RInv, AskedTyped, Merging, ListedSoFar
  <2>3. Chosen \in SUBSET Ids
    BY <1>1 DEF Chosen, All, Over, MapOf
  <2> QED
    BY <1>2, <1>6, <2>1, <2>2, <2>3, ListsNone, Zenon
<1>7. CASE asked.stage[id] # Deleted /\ Yield(ExecutionAt(id, asked.stage[id]))
  <2>1. PICK c \in Contents : c = asked.stage[id]
    BY <1>2, <1>7
  <2>2. PICK e \in Executions : e = ExecutionAt(id, c)
    BY <1>2, ExecutionTyped
  <2>3. e.id = id /\ e.status = c.status /\ Said(e) = Said(ExecutionAt(id, c))
    BY <2>2 DEF ExecutionAt
  <2>4. Yield(e) /\ All[id] = c
    BY <1>3, <1>7, <2>1, <2>2
  <2> QED
    BY <1>2, <1>3, <2>3, <2>4, Yielded, Zenon
<1> QED
  BY <1>5, <1>6, <1>7

(* A step that takes the first of the rest.                                 *)
LEMMA RestTaken ==
    ASSUME RInv, pc = "merging", UNCHANGED <<store, pc, asked, found, cursor>>,
           NEW p \in Rest, \A r \in Rest \ {p} : TextLess(p, r), p \notin DOMAIN cursor,
           staged' = staged \ {p},
           DOMAIN batch' = DOMAIN batch \ {p}, \A q \in DOMAIN batch' : batch'[q] = batch[q],
           out' \in Seq(Executions), Lists(out', Chosen, All, Rest \ {p})
    PROVE  RInv'
<1>1. /\ calls' = calls /\ rows' = rows /\ saved' = saved /\ stage' = stage
      /\ pc' = pc /\ asked' = asked /\ found' = found /\ cursor' = cursor
  BY DEF store
<1>2. StoreTyped' /\ RowsAreSaved'
  BY <1>1, StoreKept DEF RInv, store
<1>3. AskedTyped'
  BY <1>1 DEF RInv, AskedTyped
<1>4. StagedIsCopied'
  BY <1>1 DEF RInv, StagedIsCopied, Inside, PathsOf
<1>5. RowsAreFound /\ StagedGoFirst
  BY DEF RInv, Merging
<1>6. RestRows' = RestRows \ {p} /\ Rest' = Rest \ {p}
  BY <1>1 DEF RestRows, Rest
<1>7. PathsOf(Inside(DOMAIN asked.stage))' = PathsOf(Inside(DOMAIN asked.stage))
      /\ PathsOf(Inside(DOMAIN found))' = PathsOf(Inside(DOMAIN found))
  BY <1>1 DEF PathsOf, Inside
<1>8. RowsAreFound'
  <2>1. RestRows' \subseteq PathsOf(Inside(DOMAIN found))'
    BY <1>5, <1>6, <1>7, Zenon DEF RowsAreFound
  <2>2. \A q \in DOMAIN batch', r \in DOMAIN cursor' : TextLess(q, r)
    BY <1>1, <1>5 DEF RowsAreFound
  <2>3. \A id \in DOMAIN found' :
          /\ PathOf(id) \in DOMAIN batch' => batch'[PathOf(id)] = RowOf(id, found'[id])
          /\ PathOf(id) \in DOMAIN cursor' => cursor'[PathOf(id)] = RowOf(id, found'[id])
    BY <1>1, <1>5 DEF RowsAreFound
  <2> QED
    BY <2>1, <2>2, <2>3 DEF RowsAreFound
<1>9. StagedGoFirst'
  <2>1. ASSUME NEW s \in PathsOf(Inside(DOMAIN asked.stage)), s \notin staged', NEW r \in RestRows'
        PROVE  TextLess(s, r)
    <3>1. s \notin staged \/ s = p
      BY <2>1
    <3>2. r \in RestRows /\ r \in Rest \ {p}
      BY <1>6, <2>1 DEF Rest
    <3> QED
      BY <1>5, <2>1, <3>1, <3>2 DEF StagedGoFirst
  <2> QED
    BY <1>7, <2>1, Zenon DEF StagedGoFirst
<1>10. ListedSoFar'
  <2>1. Chosen' = Chosen /\ All' = All
    BY <1>1 DEF Chosen, All
  <2> QED
    BY <1>6, <2>1 DEF ListedSoFar
<1>11. Merging'
  BY <1>8, <1>9, <1>10 DEF Merging
<1> QED
  BY <1>2, <1>3, <1>4, <1>11 DEF RInv

LEMMA StagedStep ==
    ASSUME RInv, pc = "merging", UNCHANGED <<store, pc, asked, found, cursor>>,
           NEW p \in staged, \A r \in Rest \ {p} : TextLess(p, r), p \notin DOMAIN cursor,
           TakeStaged(p),
           DOMAIN batch' = DOMAIN batch \ {p}, \A q \in DOMAIN batch' : batch'[q] = batch[q]
    PROVE  RInv'
<1>1. PICK id \in Inside(DOMAIN asked.stage) : p = PathOf(id)
  <2>1. staged \subseteq PathsOf(Inside(DOMAIN asked.stage))
    BY DEF RInv, StagedIsCopied
  <2> QED
    BY <2>1 DEF PathsOf
<1>2. p \in Rest
  BY DEF Rest
<1>3. staged' = staged \ {p}
  BY Zenon DEF TakeStaged
<1>4. out' \in Seq(Executions) /\ Lists(out', Chosen, All, Rest \ {p})
  BY <1>1, <1>2, StagedTaken, Zenon
<1> QED
  BY <1>2, <1>3, <1>4, RestTaken, Zenon

(* A row that nothing is staged at.                                         *)
LEMMA RowStep ==
    ASSUME RInv, pc = "merging", UNCHANGED <<store, asked, found, cursor>>,
           NEW p \in DOMAIN batch, p \notin staged, p \in Text,
           \A r \in Rest \ {p} : TextLess(p, r), p \notin DOMAIN cursor
    PROVE  /\ Readable(p, batch[p])
           /\ Yield(ExecutionOf(p, batch[p])) /\ TakeRow(p) /\ UNCHANGED <<pc, staged>> => RInv'
<1>1. RowsAreFound /\ StagedGoFirst
  BY DEF RInv, Merging
<1>2. p \in RestRows /\ p \in Rest
  BY DEF Rest, RestRows
<1>3. PICK id \in Inside(DOMAIN found) : p = PathOf(id)
  BY <1>1, <1>2 DEF RowsAreFound, PathsOf
<1>4. /\ id \in DOMAIN found /\ id \in Ids /\ IsStrictPrefix(asked.under, id)
      /\ found[id] \in Contents
  <2>1. MapOf(found, Contents)
    BY DEF RInv, AskedTyped
  <2> QED
    BY <1>3, <2>1 DEF Inside, MapOf
<1>5. PICK c \in Contents : c = found[id]
  BY <1>4
<1>6. batch[p] = RowOf(id, c)
  BY <1>1, <1>3, <1>4, <1>5 DEF RowsAreFound
<1>7. PICK row : row = RowOf(id, c) /\ row = batch[p]
  BY <1>6
<1>8. Readable(p, row)
  BY <1>3, <1>4, <1>7, RowRead
<1>9. id \notin DOMAIN asked.stage
  <2>1. ASSUME id \in DOMAIN asked.stage PROVE FALSE
    <3>1. id \in Inside(DOMAIN asked.stage)
      BY <1>4, <2>1 DEF Inside
    <3>2. p \in PathsOf(Inside(DOMAIN asked.stage)) \ staged
      BY <1>3, <3>1 DEF PathsOf
    <3>3. TextLess(p, p)
      BY <1>1, <1>2, <3>2 DEF StagedGoFirst
    <3> QED
      BY <3>3, LessIrreflexive
  <2> QED
    BY <2>1
<1>10. id \in DOMAIN All /\ All[id] = c
  BY <1>4, <1>5, <1>9 DEF All, Over
<1>11. ASSUME Yield(ExecutionOf(p, row)), TakeRow(p), UNCHANGED <<pc, staged>>
       PROVE  RInv'
  <2>1. PICK e \in Executions : /\ e = ExecutionOf(p, row) /\ e.id = id /\ e.status = c.status
                                /\ Said(e) = Said(ExecutionAt(id, c))
    BY <1>3, <1>4, <1>7, RowRead
  <2>2. Yield(e)
    BY <1>11, <2>1
  <2>3. out' \in Seq(Executions) /\ Lists(out', Chosen, All, Rest \ {p})
    BY <1>2, <1>3, <1>4, <1>10, <2>1, <2>2, Yielded, Zenon
  <2>4. DOMAIN batch' = DOMAIN batch \ {p} /\ \A q \in DOMAIN batch' : batch'[q] = batch[q]
    BY <1>11 DEF TakeRow
  <2>5. staged' = staged \ {p} /\ UNCHANGED <<store, pc, asked, found, cursor>>
    BY <1>11
  <2> QED
    BY <1>2, <2>3, <2>4, <2>5, RestTaken, Zenon
<1> QED
  BY <1>7, <1>8, <1>11

(* The least of the staged paths, and of the rows, goes before the others.  *)
LEMMA LeastStaged ==
    ASSUME RInv, pc = "merging", staged # {}
    PROVE  /\ Least(staged) \in staged /\ Least(staged) \in Text
           /\ \A s \in staged \ {Least(staged)} : TextLess(Least(staged), s)
<1>1. Least(staged) \in staged /\ \A s \in staged \ {Least(staged)} : TextLess(Least(staged), s)
  BY MergeTyped, LeastIsFirst
<1> QED
  BY <1>1, MergeTyped

LEMMA LeastRow ==
    ASSUME RInv, pc = "merging", DOMAIN batch # {}
    PROVE  /\ Least(DOMAIN batch) \in DOMAIN batch /\ Least(DOMAIN batch) \in Text
           /\ \A r \in RestRows \ {Least(DOMAIN batch)} : TextLess(Least(DOMAIN batch), r)
           /\ Least(DOMAIN batch) \notin DOMAIN cursor
<1>1. PICK rs \in SUBSET Text : rs = DOMAIN batch /\ IsFiniteSet(rs) /\ rs # {}
  BY MergeTyped
<1>2. Least(rs) \in rs /\ \A q \in rs \ {Least(rs)} : TextLess(Least(rs), q)
  BY <1>1, LeastIsFirst
<1>3. PICK p \in rs : p = Least(rs)
  BY <1>2
<1>4. \A q \in DOMAIN cursor : TextLess(p, q)
  BY <1>1, <1>3 DEF RInv, Merging, RowsAreFound
<1>5. p \notin DOMAIN cursor
  BY <1>4, LessIrreflexive
<1> QED
  BY <1>1, <1>2, <1>3, <1>4, <1>5 DEF RestRows

LEMMA MergeStep ==
    ASSUME RInv, Merge
    PROVE  RInv'
<1>1. /\ pc = "merging" /\ DOMAIN batch # {} /\ UNCHANGED <<store, asked, found, cursor>>
      /\ \/ /\ Passing
            /\ TakeStaged(Least(staged))
            /\ UNCHANGED <<pc, batch>>
         \/ /\ ~Passing /\ Overlaid
            /\ TakeStaged(Least(DOMAIN batch)) /\ TakeRow(Least(DOMAIN batch))
            /\ UNCHANGED pc
         \/ /\ ~Passing /\ ~Overlaid
            /\ IF Readable(Least(DOMAIN batch), batch[Least(DOMAIN batch)])
               THEN /\ Yield(ExecutionOf(Least(DOMAIN batch), batch[Least(DOMAIN batch)]))
                    /\ TakeRow(Least(DOMAIN batch)) /\ UNCHANGED <<pc, staged>>
               ELSE pc' = "failed" /\ UNCHANGED <<staged, batch, out>>
  BY Zenon DEF Merge
<1>2. PICK p \in Text : p = Least(DOMAIN batch)
  BY <1>1, LeastRow
<1>3. /\ p \in DOMAIN batch /\ p \notin DOMAIN cursor
      /\ \A r \in RestRows \ {p} : TextLess(p, r)
  BY <1>1, <1>2, LeastRow
<1>4. CASE Passing /\ TakeStaged(Least(staged)) /\ UNCHANGED <<pc, batch>>
  <2>1. staged # {} /\ TextLess(Least(staged), p)
    BY <1>2, <1>4 DEF Passing, Before
  <2>2. PICK s \in Text : s = Least(staged)
    BY <1>1, <2>1, LeastStaged
  <2>3. s \in staged /\ \A q \in staged \ {s} : TextLess(s, q)
    BY <1>1, <2>1, <2>2, LeastStaged
  <2>4. RestRows \subseteq Text
    BY <1>1, MergeTyped DEF RestRows
  <2>5. \A r \in RestRows : TextLess(s, r)
    <3>1. ASSUME NEW r \in RestRows, r # p PROVE TextLess(s, r)
      <4>1. TextLess(s, p) /\ TextLess(p, r) /\ r \in Text
        BY <1>3, <2>1, <2>2, <2>4, <3>1
      <4> QED
        BY <4>1, LessTransitive
    <3> QED
      BY <2>1, <2>2, <3>1
  <2>6. s \notin DOMAIN cursor /\ s \notin DOMAIN batch
    BY <2>5, LessIrreflexive DEF RestRows
  <2>7. \A r \in Rest \ {s} : TextLess(s, r)
    BY <2>3, <2>5 DEF Rest
  <2>8. DOMAIN batch' = DOMAIN batch \ {s} /\ \A q \in DOMAIN batch' : batch'[q] = batch[q]
    BY <1>4, <2>6
  <2>9. TakeStaged(s) /\ UNCHANGED <<store, pc, asked, found, cursor>>
    BY <1>1, <1>4, <2>2
  <2> QED
    BY <1>1, <2>3, <2>6, <2>7, <2>8, <2>9, StagedStep, Zenon
<1>5. CASE Overlaid /\ TakeStaged(Least(DOMAIN batch)) /\ TakeRow(Least(DOMAIN batch)) /\ UNCHANGED pc
  <2>1. staged # {} /\ Least(staged) = p
    BY <1>2, <1>5 DEF Overlaid
  <2>2. p \in staged /\ \A q \in staged \ {p} : TextLess(p, q)
    BY <1>1, <2>1, LeastStaged
  <2>3. \A r \in Rest \ {p} : TextLess(p, r)
    BY <1>3, <2>2 DEF Rest
  <2>4. DOMAIN batch' = DOMAIN batch \ {p} /\ \A q \in DOMAIN batch' : batch'[q] = batch[q]
    BY <1>2, <1>5 DEF TakeRow
  <2>5. TakeStaged(p) /\ UNCHANGED <<store, pc, asked, found, cursor>>
    BY <1>1, <1>2, <1>5
  <2> QED
    BY <1>1, <1>3, <2>2, <2>3, <2>4, <2>5, StagedStep, Zenon
<1>6. CASE /\ ~Passing /\ ~Overlaid
           /\ IF Readable(p, batch[p])
              THEN Yield(ExecutionOf(p, batch[p])) /\ TakeRow(p) /\ UNCHANGED <<pc, staged>>
              ELSE pc' = "failed" /\ UNCHANGED <<staged, batch, out>>
  <2>1. \A q \in staged : TextLess(p, q)
    <3>1. SUFFICES ASSUME staged # {} PROVE \A q \in staged : TextLess(p, q)
      OBVIOUS
    <3>2. PICK s \in Text : s = Least(staged)
      BY <1>1, <3>1, LeastStaged
    <3>3. s \in staged /\ \A q \in staged \ {s} : TextLess(s, q)
      BY <1>1, <3>1, <3>2, LeastStaged
    <3>4. ~TextLess(s, p) /\ s # p
      BY <1>2, <1>6, <3>1, <3>2 DEF Passing, Overlaid, Before
    <3>5. TextLess(p, s)
      BY <3>4, LessTotal
    <3>6. staged \subseteq Text
      BY <1>1, MergeTyped
    <3>7. ASSUME NEW q \in staged, q # s PROVE TextLess(p, q)
      BY <3>3, <3>5, <3>6, <3>7, LessTransitive
    <3> QED
      BY <3>5, <3>7
  <2>2. p \notin staged
    BY <2>1, LessIrreflexive
  <2>3. \A r \in Rest \ {p} : TextLess(p, r)
    BY <1>3, <2>1 DEF Rest
  <2>4. /\ Readable(p, batch[p])
        /\ Yield(ExecutionOf(p, batch[p])) /\ TakeRow(p) /\ UNCHANGED <<pc, staged>> => RInv'
    BY <1>1, <1>3, <2>2, <2>3, RowStep, Zenon
  <2> QED
    BY <1>6, <2>4, Zenon
<1> QED
  BY <1>1, <1>2, <1>4, <1>5, <1>6, Zenon

LEMMA FinishStep ==
    ASSUME RInv, Finish
    PROVE  RInv'
<1>1. /\ pc = "merging" /\ DOMAIN batch = {} /\ DOMAIN cursor = {}
      /\ UNCHANGED <<store, asked, found, cursor, batch>>
      /\ \/ /\ staged # {}
            /\ TakeStaged(Least(staged))
            /\ UNCHANGED pc
         \/ /\ staged = {}
            /\ pc' = "listed"
            /\ UNCHANGED <<staged, out>>
  BY Zenon DEF Finish
<1>2. CASE staged # {} /\ TakeStaged(Least(staged)) /\ UNCHANGED pc
  <2>1. PICK s \in staged : s = Least(staged) /\ \A q \in staged \ {s} : TextLess(s, q)
    BY <1>1, <1>2, LeastStaged
  <2>2. \A r \in Rest \ {s} : TextLess(s, r)
    BY <1>1, <2>1 DEF Rest, RestRows
  <2>3. DOMAIN batch' = DOMAIN batch \ {s} /\ \A q \in DOMAIN batch' : batch'[q] = batch[q]
    BY <1>1
  <2>4. TakeStaged(s) /\ UNCHANGED <<store, pc, asked, found, cursor>> /\ s \notin DOMAIN cursor
    BY <1>1, <1>2, <2>1
  <2> QED
    BY <1>1, <2>2, <2>3, <2>4, StagedStep, Zenon
<1>3. CASE staged = {} /\ pc' = "listed" /\ UNCHANGED <<staged, out>>
  <2>1. /\ calls' = calls /\ rows' = rows /\ saved' = saved /\ stage' = stage
        /\ asked' = asked /\ found' = found /\ staged' = staged
        /\ cursor' = cursor /\ batch' = batch /\ out' = out
    BY <1>1, <1>3 DEF store
  <2>2. StoreTyped' /\ RowsAreSaved'
    BY <2>1, StoreKept DEF RInv, store
  <2>3. AskedTyped'
    BY <1>1, <1>3, <2>1 DEF RInv, AskedTyped
  <2>4. StagedIsCopied'
    BY <1>1, <1>3, <2>1 DEF RInv, StagedIsCopied, Inside
  <2>5. RowsAreFound /\ StagedGoFirst /\ ListedSoFar
    BY <1>1 DEF RInv, Merging
  <2>6. RowsAreFound'
    BY <2>1, <2>5 DEF RowsAreFound, RestRows, Inside
  <2>7. StagedGoFirst'
    BY <2>1, <2>5 DEF StagedGoFirst, RestRows, Inside
  <2>8. RestRows' = RestRows /\ All' = All /\ Chosen' = Chosen /\ Rest' = Rest
    BY <2>1 DEF RestRows, Rest, All, Chosen
  <2>9. ListedSoFar'
    BY <2>1, <2>5, <2>8 DEF ListedSoFar
  <2> QED
    BY <2>2, <2>3, <2>4, <2>6, <2>7, <2>9 DEF RInv, Merging
<1> QED
  BY <1>1, <1>2, <1>3

-----------------------------------------------------------------------------
(* The invariant holds, and with it what an enumeration has listed. *)

LEMMA RInvInvariant == Spec => []RInv
<1>1. Init => RInv
  BY InitHolds
<1>2. RInv /\ [Next]_rvars => RInv'
  <2>1. SUFFICES ASSUME RInv, [Next]_rvars PROVE RInv'
    OBVIOUS
  <2>2. ASSUME NEW parent \in Known \cup {<<>>}, NEW site \in Sites, NEW v \in DOMAIN Digest,
               Call(parent, site, v)
        PROVE  RInv'
    BY <2>1, <2>2, CallStep
  <2>3. ASSUME NEW id \in Known, Delete(id) PROVE RInv'
    <3>1. Stage(id, Deleted) /\ Deleted \in Contents \cup {Deleted}
      BY <2>3 DEF Delete
    <3> QED
      BY <2>1, <3>1, StageStep, Zenon
  <2>4. ASSUME NEW id \in Known, NEW content \in Contents, Save(id, content) PROVE RInv'
    <3>1. Stage(id, content) /\ content \in Contents \cup {Deleted}
      BY <2>4 DEF Save
    <3> QED
      BY <2>1, <3>1, StageStep, Zenon
  <2>5. ASSUME NEW under \in Known \cup {<<>>}, NEW status \in {None, "completed"},
               Enumerate(under, status)
        PROVE  RInv'
    BY <2>1, <2>5, EnumerateStep
  <2>6. ASSUME NEW paths \in SUBSET DOMAIN cursor, Fetch(paths) PROVE RInv'
    BY <2>1, <2>6, FetchStep
  <2>7. ASSUME UNCHANGED rvars PROVE RInv'
    <3>1. UNCHANGED store /\ UNCHANGED evars
      BY <2>7 DEF rvars, evars
    <3> QED
      BY <2>1, <3>1, StoreKept, EnumerationKept DEF RInv
  <2> QED
    BY <2>1, <2>2, <2>3, <2>4, <2>5, <2>6, <2>7,
       CommitStep, SelectStep, MergeStep, FinishStep, CloseStep, Zenon DEF Next
<1> QED
  BY <1>1, <1>2, PTL DEF Spec

(* The executions are those chosen, once each.                              *)
LEMMA ListedOnce ==
    ASSUME NEW o \in Seq(Executions), NEW chosen \in SUBSET Ids, NEW all,
           Lists(o, chosen, all, {})
    PROVE  Len(o) = Cardinality({ExecutionAt(id, all[id]) : id \in chosen})
<1> DEFINE Whole == {ExecutionAt(id, all[id]) : id \in chosen}
           f == [i \in 1..Len(o) |-> ExecutionAt(o[i].id, all[o[i].id])]
<1>1. Len(o) \in Nat /\ DOMAIN o = 1..Len(o)
  BY LenProperties
<1>2. /\ \A i \in 1..Len(o) : o[i].id \in chosen
      /\ \A id \in chosen : \E i \in 1..Len(o) : o[i].id = id
      /\ \A i, j \in 1..Len(o) : i < j => TextLess(PathOf(o[i].id), PathOf(o[j].id))
  BY <1>1 DEF Lists
<1>3. \A id \in chosen : PathOf(id) \in Text
  BY IdsAreIdentified, PathSplit
<1>4. \A id \in chosen : ExecutionAt(id, all[id]).id = id
  BY DEF ExecutionAt
<1>5. \A i, j \in 1..Len(o) : i # j => o[i].id # o[j].id
  <2>1. ASSUME NEW i \in 1..Len(o), NEW j \in 1..Len(o), i < j PROVE o[i].id # o[j].id
    BY <1>2, <1>3, <2>1, LessIrreflexive
  <2> QED
    BY <1>1, <2>1
<1>6. f \in Injection(1..Len(o), Whole)
  <2>1. \A i \in 1..Len(o) : f[i] \in Whole /\ f[i].id = o[i].id
    BY <1>2, <1>4
  <2>2. \A i, j \in 1..Len(o) : f[i] = f[j] => i = j
    BY <1>5, <2>1
  <2> QED
    BY <2>1, <2>2 DEF Injection, IsInjective
<1>7. f \in Surjection(1..Len(o), Whole)
  <2>1. \A e \in Whole : \E i \in 1..Len(o) : f[i] = e
    BY <1>2
  <2> QED
    BY <1>6, <2>1 DEF Injection, Surjection
<1>8. f \in Bijection(1..Len(o), Whole)
  BY <1>6, <1>7 DEF Bijection
<1> HIDE DEF f, Whole
<1>9. ExistsBijection(1..Len(o), Whole)
  BY <1>8 DEF ExistsBijection
<1>10. Cardinality(Whole) = Len(o)
  BY <1>1, <1>9, FS_CountingElements
<1> QED
  BY <1>10 DEF Whole

(* An enumeration lists what is committed, overlaid by what the caller has  *)
(* staged, once each and ancestors first, and it never refuses a row        *)
(* (SQLiteExecutionRepository.executions, SQLiteClient.iter_committed).     *)
THEOREM EnumerationListsOverlay == Spec => []ListedIsOverlay
<1>1. RInv => ListedIsOverlay
  <2>1. SUFFICES ASSUME RInv, pc = "listed"
                 PROVE  /\ {Said(out[i]) : i \in DOMAIN out} = {Said(e) : e \in Overlay}
                        /\ Len(out) = Cardinality(Overlay)
                        /\ \A i, j \in DOMAIN out : IsStrictPrefix(out[i].id, out[j].id) => i < j
    BY DEF RInv, AskedTyped, ListedIsOverlay
  <2>2. Rest = {} /\ out \in Seq(Executions)
    BY <2>1 DEF RInv, AskedTyped, StagedIsCopied, Rest, RestRows
  <2>3. Lists(out, Chosen, All, {})
    BY <2>1, <2>2 DEF RInv, Merging, ListedSoFar
  <2>4. Chosen \in SUBSET Ids
    <3>1. MapOf(asked.stage, Contents \cup {Deleted}) /\ MapOf(found, Contents)
      BY <2>1 DEF RInv, AskedTyped
    <3> QED
      BY <3>1 DEF Chosen, All, Over, MapOf
  <2>5. Overlay = {ExecutionAt(id, All[id]) : id \in Chosen}
    BY Zenon DEF Overlay, Chosen, All
  <2>6. /\ \A i \in DOMAIN out :
             out[i].id \in Chosen /\ Said(out[i]) = Said(ExecutionAt(out[i].id, All[out[i].id]))
        /\ \A id \in Chosen : \E i \in DOMAIN out : out[i].id = id
        /\ \A i, j \in DOMAIN out : i < j => TextLess(PathOf(out[i].id), PathOf(out[j].id))
    BY <2>3 DEF Lists
  <2>7. {Said(out[i]) : i \in DOMAIN out} = {Said(e) : e \in Overlay}
    <3>1. \A i \in DOMAIN out : \E e \in Overlay : Said(out[i]) = Said(e)
      BY <2>5, <2>6
    <3>2. \A e \in Overlay : \E i \in DOMAIN out : Said(out[i]) = Said(e)
      BY <2>5, <2>6
    <3> QED
      BY <3>1, <3>2
  <2>8. Len(out) = Cardinality(Overlay)
    BY <2>2, <2>3, <2>4, <2>5, ListedOnce, Zenon
  <2>9. ASSUME NEW i \in DOMAIN out, NEW j \in DOMAIN out,
               IsStrictPrefix(out[i].id, out[j].id)
        PROVE  i < j
    <3>1. PICK u \in Identified, id \in Identified : u = out[i].id /\ id = out[j].id
      BY <2>4, <2>6, IdsAreIdentified
    <3>2. PICK p \in Text, q \in Text : p = PathOf(u) /\ q = PathOf(id)
      BY PathSplit
    <3>3. TextLess(p, q)
      BY <2>9, <3>1, <3>2, AncestorsFirst
    <3>4. ~TextLess(q, p) /\ p # q
      BY <3>3, LessTransitive, LessIrreflexive
    <3>5. i # j /\ ~(j < i)
      BY <2>6, <3>1, <3>2, <3>4
    <3>6. i \in Int /\ j \in Int
      BY <2>2, LenProperties
    <3> QED
      BY <3>5, <3>6
  <2> QED
    BY <2>7, <2>8, <2>9
<1> QED
  BY <1>1, RInvInvariant, PTL

=============================================================================
