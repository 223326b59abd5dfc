-------------------------- MODULE MigrationProofs --------------------------
(***************************************************************************)
(* Migration, for any versions, boundaries, arguments, declarations and    *)
(* sessions.                                                               *)
(***************************************************************************)
EXTENDS Migration, SequenceTheorems, FiniteSetTheorems, TLAPS

-----------------------------------------------------------------------------
(* Identities: what is beneath what, and what determines one. *)

LEMMA IdParts ==
    ASSUME NEW i \in Id
    PROVE  /\ i \in Seq(Frame) /\ Len(i) \in 1..MaxDepth /\ i # Root
           /\ Leaf(i) \in Frame /\ Parent(i) \in Id \cup {Root}
           /\ Len(Parent(i)) = Len(i) - 1
<1>1. PICK n \in 1..MaxDepth : i \in [1..n -> Frame]
  BY DEF Id
<1>2. i \in Seq(Frame) /\ Len(i) = n /\ n \in Nat \ {0}
  BY <1>1, MigrationAssumption
<1>3. i # Root /\ Leaf(i) \in Frame
  BY <1>2 DEF Root, Leaf
<1>4. /\ Parent(i) \in Seq(Frame) /\ Len(Parent(i)) = n - 1
      /\ \A m \in 1..(n - 1) : Parent(i)[m] \in Frame
  <2>1. \A m \in 1..(n - 1) : i[m] \in Frame
    BY <1>1, <1>2
  <2>2. 1 \in Int /\ n - 1 \in Int
    BY <1>2
  <2>3. /\ SubSeq(i, 1, n - 1) \in Seq(Frame)
        /\ Len(SubSeq(i, 1, n - 1)) = IF 1 <= n - 1 THEN (n - 1) - 1 + 1 ELSE 0
    BY <2>1, <2>2, SubSeqProperties
  <2>4. Len(SubSeq(i, 1, n - 1)) = n - 1
    BY <1>2, <2>3
  <2> QED
    BY <1>2, <2>3, <2>4, ElementOfSeq DEF Parent
<1>5. Parent(i) \in Id \cup {Root}
  <2>1. CASE n = 1
    <3>1. Parent(i) = <<>>
      BY <1>4, <2>1, EmptySeq
    <3> QED
      BY <3>1 DEF Root
  <2>2. CASE n # 1
    <3>1. n - 1 \in 1..MaxDepth
      BY <1>1, <1>2, <2>2, MigrationAssumption
    <3>2. Parent(i) \in [1..(n - 1) -> Frame]
      BY <1>4, LenProperties
    <3> QED
      BY <3>1, <3>2 DEF Id
  <2> QED
    BY <2>1, <2>2
<1> QED
  BY <1>1, <1>2, <1>3, <1>4, <1>5

LEMMA IdDetermined ==
    ASSUME NEW i \in Id, NEW j \in Id, Parent(i) = Parent(j), Leaf(i) = Leaf(j)
    PROVE  i = j
<1>1. /\ i \in Seq(Frame) /\ j \in Seq(Frame)
      /\ Len(i) \in Nat \ {0} /\ Len(i) = Len(j)
  BY IdParts, MigrationAssumption
<1>2. ASSUME NEW n \in 1..Len(i) PROVE i[n] = j[n]
  <2>1. CASE n = Len(i)
    BY <2>1, <1>1 DEF Leaf
  <2>2. CASE n # Len(i)
    <3> DEFINE m == Len(i) - 1
    <3>1. m \in Int /\ n \in 1..(m - 1 + 1) /\ 1 + n - 1 = n /\ Len(j) - 1 = m
      BY <1>1, <2>2
    <3>2. (\A l \in 1..m : i[l] \in Frame) /\ (\A l \in 1..m : j[l] \in Frame)
      BY <1>1
    <3>3. SubSeq(i, 1, m)[n] = i[1 + n - 1]
      BY <3>1, <3>2, SubSeqProperties
    <3>4. SubSeq(j, 1, m)[n] = j[1 + n - 1]
      BY <3>1, <3>2, SubSeqProperties
    <3> QED
      BY <3>1, <3>3, <3>4 DEF Parent
  <2> QED
    BY <2>1, <2>2
<1> QED
  BY <1>1, <1>2, SeqEqual

LEMMA Appended ==
    ASSUME NEW p \in Id \cup {Root}, NEW f \in Frame, Len(p) < MaxDepth
    PROVE  /\ Append(p, f) \in Id
           /\ Parent(Append(p, f)) = p /\ Leaf(Append(p, f)) = f
           /\ Len(Append(p, f)) = Len(p) + 1
<1> DEFINE q == Append(p, f)
<1>1. p \in Seq(Frame) /\ Len(p) \in Nat
  <2>1. CASE p = Root
    <3>1. p = <<>>
      BY <2>1 DEF Root
    <3> QED
      BY <3>1, EmptySeq
  <2>2. CASE p \in Id
    BY <2>2, IdParts, LenProperties
  <2> QED
    BY <2>1, <2>2
<1>2. /\ q \in Seq(Frame) /\ Len(q) = Len(p) + 1 /\ q[Len(q)] = f
      /\ \A n \in 1..Len(p) : q[n] = p[n]
  BY <1>1
<1>3. q \in Id
  <2>1. q \in [1..(Len(p) + 1) -> Frame]
    BY <1>2, LenProperties
  <2>2. Len(p) + 1 \in 1..MaxDepth
    BY <1>1, MigrationAssumption
  <2> QED
    BY <2>1, <2>2 DEF Id
<1>4. Parent(q) = p
  <2>1. Len(q) - 1 = Len(p)
    BY <1>1, <1>2
  <2>2. Len(p) \in Int /\ \A n \in 1..Len(p) : q[n] \in Frame
    BY <1>1, <1>2
  <2>3. /\ SubSeq(q, 1, Len(p)) \in Seq(Frame)
        /\ Len(SubSeq(q, 1, Len(p))) = IF 1 <= Len(p) THEN Len(p) - 1 + 1 ELSE 0
        /\ \A n \in 1..(Len(p) - 1 + 1) : SubSeq(q, 1, Len(p))[n] = q[1 + n - 1]
    BY <2>2, SubSeqProperties
  <2>4. Len(SubSeq(q, 1, Len(p))) = Len(p)
    BY <1>1, <2>3
  <2>5. \A n \in 1..Len(p) : SubSeq(q, 1, Len(p))[n] = p[n]
    BY <1>1, <1>2, <2>3
  <2> QED
    BY <1>1, <2>1, <2>3, <2>4, <2>5, SeqEqual DEF Parent
<1> QED
  BY <1>1, <1>2, <1>3, <1>4 DEF Leaf

-----------------------------------------------------------------------------
(* Embeddings of one set of records in another. *)

Closed(S) == S \subseteq Id /\ \A i \in S : Parent(i) \in S \cup {Root}

Embedding(of, new, old) ==
    /\ of \in [new -> old]
    /\ \A i \in new : Leaf(of[i]).seq = Leaf(i).seq
    /\ \A i, j \in new : Scope(of[i]) = Scope(of[j]) <=> Scope(i) = Scope(j)
    /\ \A i \in new :
        IF Parent(i) = Root THEN Parent(of[i]) = Root
        ELSE Parent(i) \in new /\ Parent(of[i]) = of[Parent(i)]

LEMMA EmbedsReflexive == ASSUME NEW S, Closed(S) PROVE Embeds(S, S)
<1> DEFINE of == [i \in S |-> i]
<1>1. of \in [S -> S] /\ \A i \in S : of[i] = i
  OBVIOUS
<1>2. \A i \in S : Parent(i) # Root => Parent(i) \in S
  BY DEF Closed
<1> HIDE DEF of
<1>3. Embedding(of, S, S)
  BY <1>1, <1>2 DEF Embedding
<1> QED
  BY <1>3 DEF Embeds, Embedding

LEMMA EmbedsTransitive ==
    ASSUME NEW A, NEW B, NEW C, B \subseteq Id, Embeds(A, B), Embeds(B, C)
    PROVE  Embeds(A, C)
<1>1. PICK f \in [A -> B] : Embedding(f, A, B)
  BY DEF Embeds, Embedding
<1>2. PICK g \in [B -> C] : Embedding(g, B, C)
  BY DEF Embeds, Embedding
<1> DEFINE h == [i \in A |-> g[f[i]]]
<1>3. h \in [A -> C] /\ \A i \in A : f[i] \in B /\ h[i] = g[f[i]]
  OBVIOUS
<1> HIDE DEF h
<1>4. \A i \in A : Leaf(h[i]).seq = Leaf(i).seq
  BY <1>1, <1>2, <1>3 DEF Embedding
<1>5. \A i, j \in A : Scope(h[i]) = Scope(h[j]) <=> Scope(i) = Scope(j)
  BY <1>1, <1>2, <1>3 DEF Embedding
<1>6. ASSUME NEW i \in A
      PROVE  IF Parent(i) = Root THEN Parent(h[i]) = Root
             ELSE Parent(i) \in A /\ Parent(h[i]) = h[Parent(i)]
  <2>1. CASE Parent(i) = Root
    BY <1>1, <1>2, <1>3, <2>1 DEF Embedding
  <2>2. CASE Parent(i) # Root
    <3>1. Parent(i) \in A /\ Parent(f[i]) = f[Parent(i)]
      BY <1>1, <2>2 DEF Embedding
    <3>2. Parent(f[i]) # Root
      BY <3>1, <1>3, IdParts
    <3>3. Parent(g[f[i]]) = g[Parent(f[i])]
      BY <1>2, <1>3, <3>2 DEF Embedding
    <3> QED
      BY <1>3, <2>2, <3>1, <3>3
  <2> QED
    BY <2>1, <2>2
<1>7. Embedding(h, A, C)
  BY <1>3, <1>4, <1>5, <1>6 DEF Embedding
<1> QED
  BY <1>7 DEF Embeds, Embedding

-----------------------------------------------------------------------------
(* The inductive invariant. Shape types the state. *)
Typed ==
    /\ transitions \in [Version -> {None} \cup [to : Version, rules : [Name -> Rule]]]
    /\ session \in [version : Version, records : SUBSET Id]
    /\ job \in JobState
    /\ Moved \subseteq job.records /\ image \in [Moved -> Id]

(* Sessions are closed beneath, and so is every generation, which embeds in *)
(* the session the run began with.                                          *)
Generations ==
    /\ Closed(session.records)
    /\ job.pc # "idle" => Closed(job.records) /\ Embeds(job.records, session.records)
    /\ job.pc = "done" => job.version = Current
    /\ job.pc = "walk" => transitions[job.version] # None
    /\ job.pc # "walk" =>
        image = <<>> /\ job.stack = <<>> /\ job.todo = {} /\ job.at = Root

(* The walk comes to no record twice: nothing beneath what is stacked was   *)
(* moved, and nothing is stacked twice or while its children are visited.   *)
Visits ==
    /\ job.at \in Moved \cup {Root}
    /\ job.todo \subseteq Children(job.at) /\ job.todo \cap Moved = {}
    /\ \A n \in 1..Len(job.stack) :
        /\ job.stack[n] \in Moved \cup {Root}
        /\ job.todo # {} => job.stack[n] # job.at
        /\ \A i \in Moved : Parent(i) # job.stack[n]
        /\ \A m \in 1..Len(job.stack) : job.stack[m] = job.stack[n] => m = n

(* What the rules say of each record moved. *)
Followed ==
    \A i \in Moved :
        /\ Len(image[i]) = Len(i)
        /\ Leaf(image[i]).name = NewName(i)
        /\ Kind(i) # "convert" => Leaf(image[i]).args = Leaf(i).args

Inv ==
    /\ Typed /\ Generations /\ Visits /\ Followed
    /\ ChainsRebuilt /\ ClassesKept
    /\ job.answer # "collision"

LEMMA InvTypeOK == Inv => TypeOK
  BY DEF Inv, Typed, Visits, TypeOK, Children, JobState

LEMMA InvUnique == Inv => IdsStayUnique
<1> SUFFICES ASSUME Inv, NEW i \in Moved, NEW j \in Moved, image[i] = image[j]
             PROVE  i = j
  BY DEF IdsStayUnique
<1>1. i \in Id /\ j \in Id
  BY DEF Inv, Typed, JobState
<1>2. Scope(i) = Scope(j) /\ Leaf(i).seq = Leaf(j).seq
  BY DEF Inv, ClassesKept
<1>3. Parent(i) = Parent(j) /\ Leaf(i).name = Leaf(j).name /\ Leaf(i).args = Leaf(j).args
  BY <1>2 DEF Scope
<1>4. Leaf(i) = Leaf(j)
  BY <1>1, <1>2, <1>3, IdParts DEF Frame
<1> QED
  BY <1>1, <1>3, <1>4, IdDetermined

-----------------------------------------------------------------------------
(* Steps that leave nothing of a walk. *)

LEMMA EmptyMap ==
    ASSUME NEW f, f = <<>>, NEW S
    PROVE  DOMAIN f = {} /\ f \in [DOMAIN f -> S]
<1>1. <<>> \in Seq(S) /\ Len(<<>>) = 0
  BY EmptySeq
<1>2. DOMAIN <<>> = 1..0 /\ <<>> \in [1..0 -> S]
  BY <1>1, LenProperties
<1>3. 1..0 = {}
  OBVIOUS
<1> QED
  BY <1>2, <1>3

LEMMA RestTyped ==
    ASSUME NEW r \in {"none", "stored", "cycle", "no path", "shape", "ambiguous", "collision"}
    PROVE  Rest(r) \in JobState
<1>1. <<>> \in Seq(Id \cup {Root})
  BY EmptySeq
<1> QED
  BY <1>1, MigrationAssumption DEF Rest, JobState, Root

(* Before a walk and after one: no record is moved. *)
LEMMA InvQuiet ==
    ASSUME Inv, image' = <<>>, job' \in JobState, job'.answer # "collision",
           job'.stack = <<>>, job'.todo = {}, job'.at = Root, job'.pc # "walk",
           transitions' \in [Version -> {None} \cup [to : Version, rules : [Name -> Rule]]],
           session' \in [version : Version, records : SUBSET Id], Closed(session'.records),
           job'.pc # "idle" =>
               Closed(job'.records) /\ Embeds(job'.records, session'.records),
           job'.pc = "done" => job'.version = Current
    PROVE  Inv'
<1>1. Moved' = {} /\ (image \in [Moved -> Id])'
  BY EmptyMap DEF Moved
<1>2. Followed' /\ ChainsRebuilt' /\ ClassesKept'
  BY <1>1 DEF Followed, ChainsRebuilt, ClassesKept
<1>3. Visits'
  <2>1. 1..Len(job'.stack) = {}
    BY EmptySeq
  <2> QED
    BY <1>1, <2>1 DEF Visits
<1>4. Typed'
  BY <1>1 DEF Typed, JobState
<1>5. Generations'
  BY DEF Generations, Closed, Embeds
<1> QED
  BY <1>2, <1>3, <1>4, <1>5 DEF Inv

LEMMA InvRefuse ==
    ASSUME Inv, UNCHANGED <<transitions, session>>,
           NEW r \in {"none", "stored", "cycle", "no path", "shape", "ambiguous"}, Refuse(r)
    PROVE  Inv'
<1>1. job' = Rest(r) /\ image' = <<>>
  BY DEF Refuse
<1>2. /\ job'.answer # "collision" /\ job'.pc = "idle"
      /\ job'.stack = <<>> /\ job'.todo = {} /\ job'.at = Root
  BY <1>1 DEF Rest
<1> QED
  BY <1>1, <1>2, RestTyped, InvQuiet DEF Inv, Typed, Generations, Closed

LEMMA InvInit == Init => Inv
<1> SUFFICES ASSUME Init PROVE Inv
  OBVIOUS
<1>1. /\ job \in JobState /\ job.answer # "collision" /\ job.pc = "idle"
      /\ job.stack = <<>> /\ job.todo = {} /\ job.at = Root
  BY RestTyped DEF Init, Rest
<1>2. Moved = {} /\ image \in [Moved -> Id] /\ image = <<>>
  BY EmptyMap DEF Init, Moved
<1>3. Typed /\ Closed(session.records)
  BY <1>1, <1>2, MigrationAssumption DEF Init, Typed, Closed
<1>4. Generations
  BY <1>1, <1>2, <1>3 DEF Generations
<1>5. Visits
  <2>1. 1..Len(job.stack) = {}
    BY <1>1, EmptySeq
  <2> QED
    BY <1>1, <1>2, <2>1 DEF Visits
<1>6. Followed /\ ChainsRebuilt /\ ClassesKept
  BY <1>2 DEF Followed, ChainsRebuilt, ClassesKept
<1> QED
  BY <1>1, <1>3, <1>4, <1>5, <1>6 DEF Inv

-----------------------------------------------------------------------------
(* The steps between walks. *)

LEMMA InvDeclare ==
    ASSUME Inv, NEW v \in Version, NEW w \in Version, NEW rules \in Declared[v],
           Declare(v, w, rules)
    PROVE  Inv'
<1>1. rules \in [Name -> Rule]
  BY MigrationAssumption
<1>2. transitions' \in [Version -> {None} \cup [to : Version, rules : [Name -> Rule]]]
  BY <1>1 DEF Declare, Inv, Typed
<1>3. job.pc = "idle" /\ UNCHANGED <<session, job, image>>
  BY DEF Declare
<1> QED
  BY <1>2, <1>3, InvQuiet DEF Inv, Typed, Generations

LEMMA InvBegin == ASSUME Inv, Begin PROVE Inv'
<1>1. /\ UNCHANGED <<transitions, session, image>> /\ job.pc = "idle"
      /\ job' = [Rest("none") EXCEPT !.pc = "choose", !.version = session.version,
                                     !.records = session.records]
  BY DEF Begin
<1>2. /\ job' \in JobState /\ job'.answer # "collision" /\ job'.pc = "choose"
      /\ job'.stack = <<>> /\ job'.todo = {} /\ job'.at = Root
      /\ job'.records = session.records
  <2>1. session.version \in Version /\ session.records \subseteq Id
    BY DEF Inv, Typed
  <2>2. Rest("none") \in JobState
    BY RestTyped
  <2> QED
    BY <1>1, <2>1, <2>2 DEF Rest, JobState
<1> QED
  BY <1>1, <1>2, EmbedsReflexive, InvQuiet DEF Inv, Typed, Generations

LEMMA InvChoose == ASSUME Inv, Choose PROVE Inv'
<1>1. /\ job.pc = "choose" /\ UNCHANGED <<transitions, session>>
      /\ image = <<>> /\ job.stack = <<>> /\ job.todo = {} /\ job.at = Root
  BY DEF Choose, Inv, Generations
<1>2. CASE job.version = Current /\ job' = [job EXCEPT !.pc = "done"] /\ UNCHANGED image
  <2>1. /\ job' \in JobState /\ job'.answer # "collision" /\ job'.pc = "done"
        /\ job'.stack = <<>> /\ job'.todo = {} /\ job'.at = Root
        /\ job'.records = job.records /\ job'.version = Current
    BY <1>1, <1>2 DEF Inv, Typed, JobState
  <2> QED
    BY <1>1, <1>2, <2>1, InvQuiet DEF Inv, Typed, Generations
<1>3. CASE Refuse(IF job.version \in job.visited THEN "cycle" ELSE "no path")
  BY <1>1, <1>3, InvRefuse
<1>4. CASE /\ job.version # Current /\ transitions[job.version] # None /\ UNCHANGED image
           /\ job' = [job EXCEPT !.pc = "walk", !.visited = @ \cup {job.version},
                                 !.stack = <<Root>>, !.at = Root, !.todo = {}]
  <2>1. /\ job' \in JobState /\ job'.answer # "collision" /\ job'.pc = "walk"
        /\ job'.stack = <<Root>> /\ job'.todo = {} /\ job'.at = Root
        /\ job'.records = job.records /\ job'.version = job.version
    <3>1. <<Root>> \in Seq(Id \cup {Root})
      OBVIOUS
    <3>2. job \in JobState /\ job.answer # "collision"
      BY DEF Inv, Typed
    <3> QED
      BY <3>1, <3>2, <1>4 DEF JobState
  <2>2. Moved' = {} /\ (image \in [Moved -> Id])'
    BY <1>1, <1>4, EmptyMap DEF Moved
  <2>3. Typed'
    BY <1>1, <2>1, <2>2 DEF Inv, Typed, JobState
  <2>4. Generations'
    BY <1>1, <1>4, <2>1 DEF Inv, Generations
  <2>5. Visits'
    BY <2>1, <2>2 DEF Visits
  <2>6. Followed' /\ ChainsRebuilt' /\ ClassesKept'
    BY <2>2 DEF Followed, ChainsRebuilt, ClassesKept
  <2> QED
    BY <2>1, <2>3, <2>4, <2>5, <2>6 DEF Inv
<1> QED
  BY <1>2, <1>3, <1>4 DEF Choose

LEMMA InvStore == ASSUME Inv, Store PROVE Inv'
<1>1. /\ job.pc = "done" /\ UNCHANGED <<transitions, image>>
      /\ session' = [version |-> job.version, records |-> job.records]
      /\ job' = Rest("stored")
  BY DEF Store
<1>2. /\ job' \in JobState /\ job'.answer # "collision" /\ job'.pc = "idle"
      /\ job'.stack = <<>> /\ job'.todo = {} /\ job'.at = Root
  BY <1>1, RestTyped DEF Rest
<1>3. session' \in [version : Version, records : SUBSET Id]
  BY <1>1 DEF Inv, Typed, JobState
<1> QED
  BY <1>1, <1>2, <1>3, InvQuiet DEF Inv, Typed, Generations

LEMMA InvCrash == ASSUME Inv, Crash PROVE Inv'
  BY InvRefuse DEF Crash

-----------------------------------------------------------------------------
(* The steps of a walk. *)

LEMMA InvPop == ASSUME Inv, Pop PROVE Inv'
<1> DEFINE n == Len(job.stack)
<1>1. /\ job.pc = "walk" /\ job.todo = {} /\ job.stack # <<>>
      /\ UNCHANGED <<transitions, session, image>>
      /\ job' = [job EXCEPT !.at = job.stack[n], !.todo = Children(job.stack[n]),
                            !.stack = SubSeq(@, 1, n - 1)]
  BY DEF Pop
<1>2. /\ job \in JobState /\ job.stack \in Seq(Id \cup {Root}) /\ n \in Nat \ {0}
      /\ job.answer # "collision"
  <2>1. job \in JobState
    BY DEF Inv, Typed
  <2>2. job.stack \in Seq(Id \cup {Root})
    BY <2>1 DEF JobState
  <2> QED
    BY <2>1, <2>2, <1>1, EmptySeq DEF Inv
<1>3. job.stack[n] \in Id \cup {Root} /\ job.stack[n] \in Moved \cup {Root}
  BY <1>2 DEF Inv, Visits
<1>4. /\ SubSeq(job.stack, 1, n - 1) \in Seq(Id \cup {Root})
      /\ Len(SubSeq(job.stack, 1, n - 1)) = n - 1
      /\ \A m \in 1..(n - 1) : SubSeq(job.stack, 1, n - 1)[m] = job.stack[m]
  <2>1. n - 1 \in Int /\ \A m \in 1..(n - 1) : job.stack[m] \in Id \cup {Root}
    BY <1>2
  <2>2. /\ SubSeq(job.stack, 1, n - 1) \in Seq(Id \cup {Root})
        /\ Len(SubSeq(job.stack, 1, n - 1)) = IF 1 <= n - 1 THEN n - 1 - 1 + 1 ELSE 0
        /\ \A m \in 1..(n - 1 - 1 + 1) : SubSeq(job.stack, 1, n - 1)[m] = job.stack[1 + m - 1]
    BY <2>1, SubSeqProperties
  <2> QED
    BY <1>2, <2>2
<1> HIDE DEF n
<1>5. /\ job' \in JobState /\ job'.answer # "collision" /\ job'.pc = "walk"
      /\ job'.records = job.records /\ job'.version = job.version
      /\ job'.at = job.stack[n] /\ job'.todo = Children(job.stack[n])
      /\ job'.stack = SubSeq(job.stack, 1, n - 1)
  <2>1. Children(job.stack[n]) \subseteq job.records
    BY DEF Children
  <2> QED
    BY <1>1, <1>2, <1>3, <1>4, <2>1 DEF JobState
<1>6. Moved' = Moved
  BY <1>1 DEF Moved
<1>7. Typed'
  BY <1>1, <1>5, <1>6 DEF Inv, Typed
<1>8. Generations'
  BY <1>1, <1>5 DEF Inv, Generations
<1>9. Visits'
  <2>1. n \in 1..Len(job.stack)
    BY <1>2 DEF n
  <2>2. job'.todo \cap Moved = {}
    BY <1>5, <2>1 DEF Children, Inv, Visits
  <2>3. ASSUME NEW m \in 1..(n - 1)
        PROVE  /\ m \in 1..Len(job.stack) /\ m # n
               /\ job'.stack[m] = job.stack[m]
    BY <1>2, <1>4, <1>5 DEF n
  <2>4. \A m \in 1..(n - 1) : job.stack[m] # job.stack[n]
    BY <2>1, <2>3 DEF Inv, Visits
  <2>5. Len(job'.stack) = n - 1
    BY <1>4, <1>5
  <2>6. (Children(job.at))' = Children(job.stack[n])
    BY <1>5 DEF Children
  <2>7. job'.at \in Moved' \cup {Root} /\ job'.todo \subseteq (Children(job.at))'
        /\ job'.todo \cap Moved' = {}
    BY <1>3, <1>5, <1>6, <2>2, <2>6
  <2>8. ASSUME NEW m \in 1..Len(job'.stack)
        PROVE  /\ job'.stack[m] \in Moved' \cup {Root}
               /\ job'.todo # {} => job'.stack[m] # job'.at
               /\ \A i \in Moved' : Parent(i) # job'.stack[m]
               /\ \A l \in 1..Len(job'.stack) : job'.stack[l] = job'.stack[m] => l = m
    BY <1>5, <1>6, <2>3, <2>4, <2>5, <2>8 DEF Inv, Visits
  <2> QED
    BY <2>7, <2>8 DEF Visits
<1>10. Followed' /\ ChainsRebuilt' /\ ClassesKept'
  BY <1>1, <1>5, <1>6
  DEF Inv, Followed, ChainsRebuilt, ClassesKept, NewName, Kind, RuleOf
<1> QED
  BY <1>5, <1>7, <1>8, <1>9, <1>10 DEF Inv

LEMMA InvDrop == ASSUME Inv, NEW i \in job.todo, Drop(i) PROVE Inv'
<1>1. UNCHANGED <<transitions, session>> /\ job.pc = "walk"
  BY DEF Drop, Turn
<1>2. CASE Refuse("shape")
  BY <1>1, <1>2, InvRefuse
<1>3. CASE job' = [job EXCEPT !.todo = @ \ {i}] /\ UNCHANGED image
  <2>1. job \in JobState /\ job.answer # "collision"
    BY DEF Inv, Typed
  <2>2. /\ job' \in JobState /\ job'.answer # "collision" /\ job'.pc = "walk"
        /\ job'.records = job.records /\ job'.version = job.version
        /\ job'.at = job.at /\ job'.todo = job.todo \ {i} /\ job'.stack = job.stack
    BY <1>1, <1>3, <2>1 DEF JobState
  <2>3. Moved' = Moved
    BY <1>3 DEF Moved
  <2>4. Typed' /\ Generations'
    BY <1>1, <1>3, <2>2, <2>3 DEF Inv, Typed, Generations
  <2>5. Visits'
    BY <1>3, <2>2, <2>3 DEF Inv, Visits, Children
  <2>6. Followed' /\ ChainsRebuilt' /\ ClassesKept'
    BY <1>1, <1>3, <2>2, <2>3
    DEF Inv, Followed, ChainsRebuilt, ClassesKept, NewName, Kind, RuleOf
  <2> QED
    BY <2>2, <2>4, <2>5, <2>6 DEF Inv
<1> QED
  BY <1>2, <1>3 DEF Drop

LEMMA InvMoveFails == ASSUME Inv, NEW i \in job.todo, MoveFails(i) PROVE Inv'
  BY InvRefuse DEF MoveFails

(* A record moved: it joins its class, beneath its parent's new identity.   *)
LEMMA InvMoved ==
    ASSUME Inv, NEW i \in job.todo, NEW a \in Args, Move(i, a), ~Ambiguous(i, NewId(i, a))
    PROVE  Inv'
<1> DEFINE new == NewId(i, a)
           f == [name |-> NewName(i), args |-> a, seq |-> Leaf(i).seq]
<1>1. /\ job.pc = "walk" /\ a \in Arguments(i)
      /\ UNCHANGED <<transitions, session>>
      /\ job' = [job EXCEPT !.todo = @ \ {i}, !.stack = Append(job.stack, i)]
      /\ image' = [j \in Moved \cup {i} |-> IF j = i THEN new ELSE image[j]]
  BY DEF Move, Turn, Pushed
<1>2. /\ job \in JobState /\ job.answer # "collision" /\ job.todo \subseteq job.records
      /\ job.records \subseteq Id /\ Moved \subseteq job.records /\ image \in [Moved -> Id]
      /\ job.stack \in Seq(Id \cup {Root}) /\ Len(job.stack) \in Nat
  <2>1. job \in JobState
    BY DEF Inv, Typed
  <2>2. job.stack \in Seq(Id \cup {Root})
    BY <2>1 DEF JobState
  <2> QED
    BY <2>1, <2>2, LenProperties DEF Inv, Typed, Visits, Children, JobState
<1>3. /\ i \in Id /\ i \notin Moved /\ i # Root /\ Parent(i) = job.at
      /\ job.at \in Moved \cup {Root} /\ i # job.at
  BY <1>2, IdParts DEF Inv, Visits, Children
<1>4. /\ new = Append(NewParent(i), f) /\ f \in Frame
      /\ f.name = NewName(i) /\ f.args = a /\ f.seq = Leaf(i).seq
  <2>1. Leaf(i) \in Frame
    BY <1>3, IdParts
  <2>2. NewName(i) \in Name \cup Foreign
    <3>1. CASE Kind(i) \in {"move", "convert"}
      <4>1. Leaf(i).name \in Name
        BY <3>1 DEF Kind
      <4>2. job.version \in Version /\ transitions[job.version] # None
        BY <1>1, <1>2 DEF Inv, Generations, JobState
      <4>3. transitions[job.version] \in [to : Version, rules : [Name -> Rule]]
        BY <4>2 DEF Inv, Typed
      <4>4. RuleOf(i) \in Rule
        BY <4>1, <4>3 DEF RuleOf
      <4> QED
        BY <3>1, <4>4 DEF NewName, Rule
    <3>2. CASE Kind(i) \notin {"move", "convert"}
      BY <3>2, <2>1 DEF NewName, Frame
    <3> QED
      BY <3>1, <3>2
  <2>3. f \in Frame
    BY <2>1, <2>2 DEF Frame
  <2> QED
    BY <2>3 DEF NewId
<1>5. /\ NewParent(i) \in Id \cup {Root} /\ Len(NewParent(i)) = Len(Parent(i))
      /\ IF Parent(i) = Root THEN NewParent(i) = Root
         ELSE Parent(i) \in Moved /\ NewParent(i) = image[Parent(i)]
  <2>1. CASE job.at = Root
    BY <1>3, <2>1 DEF NewParent
  <2>2. CASE job.at # Root
    <3>1. job.at \in Moved /\ NewParent(i) = image[job.at]
      BY <1>3, <2>2 DEF NewParent
    <3>2. Len(image[job.at]) = Len(job.at)
      BY <3>1 DEF Inv, Followed
    <3> QED
      BY <1>2, <1>3, <2>2, <3>1, <3>2
  <2> QED
    BY <2>1, <2>2
<1>6. /\ new \in Id /\ Parent(new) = NewParent(i) /\ Leaf(new) = f
      /\ Len(new) = Len(i)
  <2>1. /\ Len(i) \in 1..MaxDepth /\ Len(Parent(i)) = Len(i) - 1
    BY <1>3, IdParts
  <2>2. Len(NewParent(i)) < MaxDepth
    BY <1>5, <2>1, MigrationAssumption
  <2>3. /\ Append(NewParent(i), f) \in Id
        /\ Parent(Append(NewParent(i), f)) = NewParent(i) /\ Leaf(Append(NewParent(i), f)) = f
        /\ Len(Append(NewParent(i), f)) = Len(NewParent(i)) + 1
    BY <1>4, <1>5, <2>2, Appended
  <2> QED
    BY <1>4, <1>5, <2>1, <2>3
<1> HIDE DEF new, f
<1>7. /\ Moved' = Moved \cup {i} /\ image'[i] = new
      /\ \A j \in Moved : image'[j] = image[j] /\ j # i
  BY <1>1, <1>3 DEF Moved
<1>8. /\ Append(job.stack, i) \in Seq(Id \cup {Root})
      /\ Len(Append(job.stack, i)) = Len(job.stack) + 1
      /\ Append(job.stack, i)[Len(job.stack) + 1] = i
      /\ \A m \in 1..Len(job.stack) : Append(job.stack, i)[m] = job.stack[m]
  BY <1>2, <1>3
<1>9. /\ job' \in JobState /\ job'.answer # "collision" /\ job'.pc = "walk"
      /\ job'.records = job.records /\ job'.version = job.version
      /\ job'.at = job.at /\ job'.todo = job.todo \ {i}
      /\ job'.stack = Append(job.stack, i)
  BY <1>1, <1>2, <1>8 DEF JobState
<1>10. Typed'
  <2>1. image' \in [Moved' -> Id]
    BY <1>1, <1>2, <1>6, <1>7
  <2> QED
    BY <1>1, <1>2, <1>7, <1>9, <2>1 DEF Inv, Typed
<1>11. Generations'
  BY <1>1, <1>9 DEF Inv, Generations
<1>12. Visits'
  <2>1. \A j \in Moved : Parent(j) # i
    BY <1>3 DEF Inv, ChainsRebuilt
  <2>2. \A m \in 1..Len(job.stack) : job.stack[m] # i /\ job.stack[m] # job.at
    BY <1>3 DEF Inv, Visits
  <2>3. (Children(job.at))' = Children(job.at)
    BY <1>9 DEF Children
  <2>4. /\ job'.at \in Moved' \cup {Root} /\ job'.todo \subseteq (Children(job.at))'
        /\ job'.todo \cap Moved' = {}
    BY <1>7, <1>9, <2>3 DEF Inv, Visits
  <2>5. Len(job'.stack) = Len(job.stack) + 1
    BY <1>8, <1>9
  <2>6. ASSUME NEW m \in 1..Len(job'.stack)
        PROVE  /\ job'.stack[m] \in Moved' \cup {Root}
               /\ job'.todo # {} => job'.stack[m] # job'.at
               /\ \A j \in Moved' : Parent(j) # job'.stack[m]
               /\ \A l \in 1..Len(job'.stack) : job'.stack[l] = job'.stack[m] => l = m
    <3>1. CASE m = Len(job.stack) + 1
      <4>1. job'.stack[m] = i
        BY <1>8, <1>9, <3>1
      <4>2. ASSUME NEW l \in 1..Len(job'.stack), l # m PROVE job'.stack[l] # i
        <5>1. l \in 1..Len(job.stack)
          BY <1>2, <2>5, <3>1, <4>2
        <5> QED
          BY <1>8, <1>9, <2>2, <5>1
      <4> QED
        BY <1>3, <1>7, <1>9, <2>1, <4>1, <4>2
    <3>2. CASE m # Len(job.stack) + 1
      <4>1. m \in 1..Len(job.stack) /\ job'.stack[m] = job.stack[m]
        BY <1>2, <1>8, <1>9, <2>5, <3>2
      <4>2. ASSUME NEW l \in 1..Len(job'.stack), job'.stack[l] = job'.stack[m] PROVE l = m
        <5>1. CASE l = Len(job.stack) + 1
          BY <1>8, <1>9, <2>2, <4>1, <4>2, <5>1
        <5>2. CASE l # Len(job.stack) + 1
          <6>1. l \in 1..Len(job.stack) /\ job'.stack[l] = job.stack[l]
            BY <1>2, <1>8, <1>9, <2>5, <5>2
          <6> QED
            BY <4>1, <4>2, <6>1 DEF Inv, Visits
        <5> QED
          BY <5>1, <5>2
      <4>3. \A j \in Moved' : Parent(j) # job.stack[m]
        BY <1>3, <1>7, <2>2, <4>1 DEF Inv, Visits
      <4>4. job.stack[m] \in Moved' \cup {Root}
        BY <1>7, <4>1 DEF Inv, Visits
      <4> QED
        BY <1>9, <2>2, <4>1, <4>2, <4>3, <4>4
    <3> QED
      BY <3>1, <3>2
  <2> QED
    BY <2>4, <2>6 DEF Visits
<1>13. ChainsRebuilt'
  <2>1. ASSUME NEW j \in Moved'
        PROVE  IF Parent(j) = Root THEN Parent(image'[j]) = Root
               ELSE Parent(j) \in Moved' /\ Parent(image'[j]) = image'[Parent(j)]
    <3>1. CASE j = i
      BY <1>5, <1>6, <1>7, <3>1
    <3>2. CASE j \in Moved
      <4>1. IF Parent(j) = Root THEN Parent(image[j]) = Root
            ELSE Parent(j) \in Moved /\ Parent(image[j]) = image[Parent(j)]
        BY <3>2 DEF Inv, ChainsRebuilt
      <4> QED
        BY <1>7, <3>2, <4>1
    <3> QED
      BY <1>7, <3>1, <3>2
  <2> QED
    BY <2>1 DEF ChainsRebuilt
<1>14. \A j \in Id : NewName(j)' = NewName(j) /\ Kind(j)' = Kind(j)
  BY <1>1, <1>9 DEF NewName, Kind, RuleOf
<1>15. Kind(i) # "convert" => a = Leaf(i).args
  BY <1>1 DEF Arguments
<1>16. Followed'
  BY <1>2, <1>3, <1>4, <1>6, <1>7, <1>14, <1>15 DEF Inv, Followed
<1>17. ASSUME NEW j \in Moved
       PROVE  Scope(i) = Scope(j) <=> Scope(new) = Scope(image[j])
  <2>1. ASSUME Scope(new) = Scope(image[j]) PROVE Scope(i) = Scope(j)
    BY <2>1 DEF Ambiguous, new
  <2>2. ASSUME Scope(i) = Scope(j) PROVE Scope(new) = Scope(image[j])
    <3>1. Parent(i) = Parent(j) /\ Leaf(i).name = Leaf(j).name /\ Leaf(i).args = Leaf(j).args
      BY <2>2 DEF Scope
    <3>2. Parent(new) = Parent(image[j])
      BY <1>5, <1>6, <3>1 DEF Inv, ChainsRebuilt
    <3>3. Kind(i) = Kind(j) /\ NewName(i) = NewName(j)
      BY <3>1 DEF Kind, RuleOf, NewName
    <3>4. a = Leaf(image[j]).args
      <4>1. CASE Kind(i) # "convert"
        BY <1>15, <3>1, <3>3, <4>1 DEF Inv, Followed
      <4>2. CASE Kind(i) = "convert"
        <5>1. PICK k \in Moved : Scope(k) = Scope(i) /\ a = Leaf(image[k]).args
          BY <1>1, <2>2, <4>2 DEF Arguments
        <5>2. Scope(image[k]) = Scope(image[j])
          BY <2>2, <5>1 DEF Inv, ClassesKept
        <5> QED
          BY <5>1, <5>2 DEF Scope
      <4> QED
        BY <4>1, <4>2
    <3>5. Leaf(new).name = Leaf(image[j]).name /\ Leaf(new).args = Leaf(image[j]).args
      BY <1>4, <1>6, <3>3, <3>4 DEF Inv, Followed
    <3> QED
      BY <3>2, <3>5 DEF Scope
  <2> QED
    BY <2>1, <2>2
<1>18. ClassesKept'
  <2>1. ASSUME NEW j \in Moved', NEW k \in Moved'
        PROVE  /\ Scope(j) = Scope(k) <=> Scope(image'[j]) = Scope(image'[k])
               /\ Leaf(image'[j]).seq = Leaf(j).seq
    <3>1. Leaf(image'[j]).seq = Leaf(j).seq
      BY <1>4, <1>6, <1>7 DEF Inv, ClassesKept
    <3>2. Scope(j) = Scope(k) <=> Scope(image'[j]) = Scope(image'[k])
      BY <1>7, <1>17 DEF Inv, ClassesKept
    <3> QED
      BY <3>1, <3>2
  <2> QED
    BY <2>1 DEF ClassesKept
<1> QED
  BY <1>9, <1>10, <1>11, <1>12, <1>13, <1>16, <1>18 DEF Inv

LEMMA InvMove == ASSUME Inv, NEW i \in job.todo, NEW a \in Args, Move(i, a) PROVE Inv'
<1>1. CASE Ambiguous(i, NewId(i, a))
  <2>1. Refuse("ambiguous") /\ UNCHANGED <<transitions, session>>
    BY <1>1 DEF Move
  <2> QED
    BY <2>1, InvRefuse
<1> QED
  BY <1>1, InvMoved

(* A whole generation is closed beneath and embeds in the one before. *)
LEMMA GenerationEmbeds ==
    ASSUME Inv
    PROVE  Closed({image[i] : i \in Moved}) /\ Embeds({image[i] : i \in Moved}, job.records)
<1> DEFINE R == {image[i] : i \in Moved}
           of == [n \in R |-> CHOOSE i \in Moved : image[i] = n]
<1>1. Moved \subseteq job.records /\ job.records \subseteq Id /\ image \in [Moved -> Id]
  BY DEF Inv, Typed, JobState
<1>2. \A i \in Moved : image[i] \in R /\ of[image[i]] = i
  <2>1. \A i, j \in Moved : image[i] = image[j] => i = j
    BY InvUnique DEF IdsStayUnique
  <2> QED
    BY <2>1
<1>3. \A n \in R : of[n] \in Moved /\ image[of[n]] = n
  BY <1>2
<1>4. of \in [R -> job.records]
  BY <1>1, <1>3
<1>5. R \subseteq Id
  BY <1>1
<1> HIDE DEF of
<1>6. \A n \in R : Leaf(of[n]).seq = Leaf(n).seq
  BY <1>3 DEF Inv, ClassesKept
<1>7. \A n, m \in R : Scope(of[n]) = Scope(of[m]) <=> Scope(n) = Scope(m)
  BY <1>3 DEF Inv, ClassesKept
<1>8. ASSUME NEW n \in R
      PROVE  IF Parent(n) = Root THEN Parent(of[n]) = Root
             ELSE Parent(n) \in R /\ Parent(of[n]) = of[Parent(n)]
  <2>1. CASE Parent(of[n]) = Root
    BY <1>3, <2>1 DEF Inv, ChainsRebuilt
  <2>2. CASE Parent(of[n]) # Root
    <3>1. Parent(of[n]) \in Moved /\ Parent(n) = image[Parent(of[n])]
      BY <1>3, <2>2 DEF Inv, ChainsRebuilt
    <3>2. Parent(n) \in R /\ of[Parent(n)] = Parent(of[n])
      BY <1>2, <3>1
    <3>3. Parent(n) # Root
      BY <1>5, <3>2, IdParts
    <3> QED
      BY <3>2, <3>3
  <2> QED
    BY <2>1, <2>2
<1>9. Closed(R)
  BY <1>5, <1>8 DEF Closed
<1>10. Embedding(of, R, job.records)
  BY <1>4, <1>6, <1>7, <1>8 DEF Embedding
<1>11. Embeds(R, job.records)
  BY <1>10 DEF Embeds, Embedding
<1> QED
  BY <1>9, <1>11

LEMMA InvConclude == ASSUME Inv, Conclude PROVE Inv'
<1> DEFINE R == {image[i] : i \in Moved}
<1>1. /\ UNCHANGED <<transitions, session>> /\ image' = <<>> /\ job.pc = "walk"
      /\ job' = [Rest("none") EXCEPT
                   !.pc = "choose", !.version = transitions[job.version].to,
                   !.visited = job.visited, !.records = R]
  BY InvUnique DEF Conclude, IdsStayUnique
<1>2. Closed(R) /\ Embeds(R, job.records)
  BY GenerationEmbeds
<1>3. Embeds(job.records, session.records) /\ job.records \subseteq Id
  BY <1>1 DEF Inv, Generations, Closed
<1>4. Embeds(R, session.records)
  BY <1>2, <1>3, EmbedsTransitive
<1>5. R \subseteq Id
  BY <1>2 DEF Closed
<1> HIDE DEF R
<1>6. job.version \in Version /\ job.visited \subseteq Version /\ transitions[job.version] # None
  BY <1>1 DEF Inv, Typed, Generations, JobState
<1>7. transitions[job.version].to \in Version
  BY <1>6 DEF Inv, Typed
<1>8. /\ job' \in JobState /\ job'.answer # "collision" /\ job'.pc = "choose"
      /\ job'.stack = <<>> /\ job'.todo = {} /\ job'.at = Root /\ job'.records = R
  <2>1. Rest("none") \in JobState
    BY RestTyped
  <2> QED
    BY <1>1, <1>5, <1>6, <1>7, <2>1 DEF Rest, JobState
<1> QED
  BY <1>1, <1>2, <1>4, <1>8, InvQuiet DEF Inv, Typed, Generations

-----------------------------------------------------------------------------
(* The invariant holds. *)

LEMMA InvNext == Inv /\ [Next]_mvars => Inv'
<1> SUFFICES ASSUME Inv, [Next]_mvars PROVE Inv'
  OBVIOUS
<1>1. CASE UNCHANGED mvars
  BY <1>1
  DEF mvars, Inv, Typed, Generations, Visits, Followed, ChainsRebuilt, ClassesKept,
      Moved, Children, NewName, Kind, RuleOf
<1>2. ASSUME NEW v \in Version, NEW w \in Version, NEW rules \in Declared[v],
             Declare(v, w, rules)
      PROVE  Inv'
  BY <1>2, InvDeclare
<1>3. CASE Begin
  BY <1>3, InvBegin
<1>4. CASE Choose
  BY <1>4, InvChoose
<1>5. CASE Pop
  BY <1>5, InvPop
<1>6. CASE Conclude
  BY <1>6, InvConclude
<1>7. CASE Store
  BY <1>7, InvStore
<1>8. CASE Crash
  BY <1>8, InvCrash
<1>9. ASSUME NEW i \in job.todo, Drop(i) PROVE Inv'
  BY <1>9, InvDrop
<1>10. ASSUME NEW i \in job.todo, MoveFails(i) PROVE Inv'
  BY <1>10, InvMoveFails
<1>11. ASSUME NEW i \in job.todo, NEW a \in Args, Move(i, a) PROVE Inv'
  BY <1>11, InvMove
<1> QED
  BY <1>1, <1>2, <1>3, <1>4, <1>5, <1>6, <1>7, <1>8, <1>9, <1>10, <1>11 DEF Next

LEMMA InvHolds == Spec => []Inv
  BY InvInit, InvNext, PTL DEF Spec

(* The state is well typed: the walk only meets records of the generation   *)
(* it rebuilds, and only children of moved ones are still to come.          *)
THEOREM TypesHold == Spec => []TypeOK
  BY InvHolds, InvTypeOK, PTL

(* No two records are rebuilt under one identity.                           *)
THEOREM IdentitiesStayUnique == Spec => []IdsStayUnique
  BY InvHolds, InvUnique, PTL

(* The refusal of an unstorable session (_models.py:29) never comes to bear *)
(* on what a runner rebuilds: scopes that would collide are refused before. *)
THEOREM NoCollision == Spec => [](job.answer # "collision")
<1>1. Inv => job.answer # "collision"
  BY DEF Inv
<1> QED
  BY <1>1, InvHolds, PTL

(* Calls told apart stay apart, equal ones stay equal, in their order.      *)
THEOREM EqualCallsStayEqual == Spec => []ClassesKept
<1>1. Inv => ClassesKept
  BY DEF Inv
<1> QED
  BY <1>1, InvHolds, PTL

(* Every chain is rebuilt on new identities.                                *)
THEOREM ChainsStayWhole == Spec => []ChainsRebuilt
<1>1. Inv => ChainsRebuilt
  BY DEF Inv
<1> QED
  BY <1>1, InvHolds, PTL

(* However many transitions a migration takes, what it stores is of the     *)
(* version asked for and embeds in what was stored.                         *)
THEOREM MigrationEmbeds == Spec => StoredEmbeds
<1>1. Inv /\ [Next]_mvars =>
        [session' # session =>
          session'.version = Current /\ Embeds(session'.records, session.records)]_mvars
  <2> SUFFICES ASSUME Inv, Next, session' # session
               PROVE  session'.version = Current /\ Embeds(session'.records, session.records)
    BY DEF mvars
  <2>1. Store
    BY DEF Next, Declare, Begin, Choose, Pop, Conclude, Crash, Drop, MoveFails, Move
  <2>2. /\ job.pc = "done" /\ session'.version = job.version
        /\ session'.records = job.records
    BY <2>1 DEF Store
  <2> QED
    BY <2>2 DEF Inv, Generations
<1> QED
  BY <1>1, InvHolds, PTL DEF Spec, StoredEmbeds


-----------------------------------------------------------------------------
(* What a walk reaches. Every record that is not dropped and whose parent   *)
(* was moved is moved itself, is next, or is beneath what is stacked.       *)
Walked ==
    /\ \A i \in Moved : Kind(i) # "drop"
    /\ job.pc = "walk" =>
        \A i \in job.records :
            Kind(i) # "drop" /\ Parent(i) \in Moved \cup {Root} =>
                \/ i \in Moved \cup job.todo
                \/ \E n \in 1..Len(job.stack) : job.stack[n] = Parent(i)

LEMMA WalkedQuiet ==
    ASSUME image' = <<>>, job'.pc # "walk"
    PROVE  Walked'
<1>1. Moved' = {}
  BY EmptyMap DEF Moved
<1> QED
  BY <1>1 DEF Walked

LEMMA WalkedChoose == ASSUME Inv, Choose PROVE Walked'
<1>1. job.pc = "choose" /\ image = <<>>
  BY DEF Choose, Inv, Generations
<1>2. CASE job' = [job EXCEPT !.pc = "done"] /\ UNCHANGED image
  <2>1. job'.pc = "done"
    BY <1>2 DEF Inv, Typed, JobState
  <2> QED
    BY <1>1, <1>2, <2>1, WalkedQuiet
<1>3. CASE Refuse(IF job.version \in job.visited THEN "cycle" ELSE "no path")
  <2>1. job'.pc = "idle" /\ image' = <<>>
    BY <1>3 DEF Refuse, Rest
  <2> QED
    BY <2>1, WalkedQuiet
<1>4. CASE /\ UNCHANGED image
           /\ job' = [job EXCEPT !.pc = "walk", !.visited = @ \cup {job.version},
                                 !.stack = <<Root>>, !.at = Root, !.todo = {}]
  <2>1. job'.stack = <<Root>>
    BY <1>4 DEF Inv, Typed, JobState
  <2>2. Len(job'.stack) = 1 /\ job'.stack[1] = Root
    BY <2>1
  <2>3. Moved' = {}
    BY <1>1, <1>4, EmptyMap DEF Moved
  <2> QED
    BY <2>2, <2>3 DEF Walked
<1> QED
  BY <1>2, <1>3, <1>4 DEF Choose

LEMMA WalkedPop == ASSUME Inv, Walked, Pop PROVE Walked'
<1> DEFINE n == Len(job.stack)
<1>1. /\ job.pc = "walk" /\ job.todo = {} /\ job.stack # <<>>
      /\ UNCHANGED <<transitions, session, image>>
      /\ job' = [job EXCEPT !.at = job.stack[n], !.todo = Children(job.stack[n]),
                            !.stack = SubSeq(@, 1, n - 1)]
  BY DEF Pop
<1>2. job \in JobState /\ job.stack \in Seq(Id \cup {Root}) /\ n \in Nat \ {0}
  <2>1. job \in JobState
    BY DEF Inv, Typed
  <2>2. job.stack \in Seq(Id \cup {Root})
    BY <2>1 DEF JobState
  <2> QED
    BY <2>1, <2>2, <1>1, EmptySeq
<1>3. /\ Len(SubSeq(job.stack, 1, n - 1)) = n - 1
      /\ \A m \in 1..(n - 1) : SubSeq(job.stack, 1, n - 1)[m] = job.stack[m]
  <2>1. n - 1 \in Int /\ \A m \in 1..(n - 1) : job.stack[m] \in Id \cup {Root}
    BY <1>2
  <2>2. /\ Len(SubSeq(job.stack, 1, n - 1)) = IF 1 <= n - 1 THEN n - 1 - 1 + 1 ELSE 0
        /\ \A m \in 1..(n - 1 - 1 + 1) : SubSeq(job.stack, 1, n - 1)[m] = job.stack[1 + m - 1]
    BY <2>1, SubSeqProperties
  <2> QED
    BY <1>2, <2>2
<1>4. /\ job'.records = job.records /\ job'.version = job.version
      /\ job'.todo = Children(job.stack[n])
      /\ job'.stack = SubSeq(job.stack, 1, n - 1) /\ job'.pc = "walk"
  BY <1>1, <1>2 DEF JobState
<1>5. Moved' = Moved /\ \A i \in job.records : Kind(i)' = Kind(i)
  BY <1>1, <1>4 DEF Moved, Kind, RuleOf
<1>6. Moved \subseteq job.records
  BY DEF Inv, Typed
<1>7. ASSUME NEW i \in job.records, Kind(i) # "drop", Parent(i) \in Moved \cup {Root},
             i \notin Moved
      PROVE  \/ i \in job'.todo
             \/ \E m \in 1..Len(job'.stack) : job'.stack[m] = Parent(i)
  <2>1. PICK m \in 1..n : job.stack[m] = Parent(i)
    BY <1>1, <1>7 DEF Walked, n
  <2> HIDE DEF n
  <2>2. CASE m = n
    BY <1>4, <2>1, <2>2 DEF Children
  <2>3. CASE m # n
    <3>1. m \in 1..(n - 1)
      BY <1>2, <2>1, <2>3 DEF n
    <3> QED
      BY <1>3, <1>4, <2>1, <3>1
  <2> QED
    BY <2>2, <2>3
<1> HIDE DEF n
<1> QED
  BY <1>4, <1>5, <1>6, <1>7 DEF Walked

LEMMA WalkedDrop == ASSUME Inv, Walked, NEW i \in job.todo, Drop(i) PROVE Walked'
<1>1. job.pc = "walk" /\ Kind(i) = "drop" /\ UNCHANGED transitions
  BY DEF Drop, Turn
<1>2. CASE Refuse("shape")
  <2>1. job'.pc = "idle" /\ image' = <<>>
    BY <1>2 DEF Refuse, Rest
  <2> QED
    BY <2>1, WalkedQuiet
<1>3. CASE job' = [job EXCEPT !.todo = @ \ {i}] /\ UNCHANGED image
  <2>1. /\ job'.records = job.records /\ job'.version = job.version
        /\ job'.todo = job.todo \ {i} /\ job'.stack = job.stack /\ job'.pc = "walk"
    BY <1>1, <1>3 DEF Inv, Typed, JobState
  <2>2. Moved' = Moved /\ Moved \subseteq job.records
    BY <1>3 DEF Moved, Inv, Typed
  <2>3. \A j \in job.records : Kind(j)' = Kind(j)
    BY <1>1, <2>1 DEF Kind, RuleOf
  <2> QED
    BY <1>1, <2>1, <2>2, <2>3 DEF Walked
<1> QED
  BY <1>2, <1>3 DEF Drop

LEMMA WalkedMove ==
    ASSUME Inv, Walked, NEW i \in job.todo, NEW a \in Args, Move(i, a) PROVE Walked'
<1>1. job.pc = "walk" /\ Kind(i) # "drop" /\ UNCHANGED transitions
  BY DEF Move, Turn
<1>2. CASE Refuse("ambiguous")
  <2>1. job'.pc = "idle" /\ image' = <<>>
    BY <1>2 DEF Refuse, Rest
  <2> QED
    BY <2>1, WalkedQuiet
<1>3. ASSUME job' = [job EXCEPT !.todo = @ \ {i}, !.stack = Append(job.stack, i)],
             Moved' = Moved \cup {i}
      PROVE  Walked'
  <2>1. job \in JobState /\ job.stack \in Seq(Id \cup {Root}) /\ i \in job.records /\ i \in Id
    <3>1. job \in JobState
      BY DEF Inv, Typed
    <3> QED
      BY <3>1 DEF JobState, Inv, Visits, Children
  <2>2. /\ Len(Append(job.stack, i)) = Len(job.stack) + 1 /\ Len(job.stack) \in Nat
        /\ Append(job.stack, i)[Len(job.stack) + 1] = i
        /\ \A m \in 1..Len(job.stack) : Append(job.stack, i)[m] = job.stack[m]
    BY <2>1
  <2>3. /\ job'.records = job.records /\ job'.version = job.version
        /\ job'.todo = job.todo \ {i} /\ job'.pc = "walk"
        /\ job'.stack = Append(job.stack, i)
    BY <1>1, <1>3, <2>1 DEF JobState
  <2>4. \A j \in job.records : Kind(j)' = Kind(j)
    BY <1>1, <2>3 DEF Kind, RuleOf
  <2>5. Moved \subseteq job.records
    BY DEF Inv, Typed
  <2>6. ASSUME NEW j \in job.records, Kind(j) # "drop", Parent(j) \in Moved' \cup {Root}
        PROVE  \/ j \in Moved' \cup job'.todo
               \/ \E m \in 1..Len(job'.stack) : job'.stack[m] = Parent(j)
    <3>1. CASE Parent(j) = i
      <4>1. Len(job.stack) + 1 \in 1..Len(job'.stack)
        BY <2>2, <2>3
      <4> QED
        BY <2>2, <2>3, <3>1, <4>1
    <3>2. CASE Parent(j) # i
      <4>1. \/ j \in Moved \cup job.todo
            \/ \E m \in 1..Len(job.stack) : job.stack[m] = Parent(j)
        BY <1>1, <1>3, <2>6, <3>2 DEF Walked
      <4>2. ASSUME NEW m \in 1..Len(job.stack)
            PROVE  m \in 1..Len(job'.stack) /\ job'.stack[m] = job.stack[m]
        BY <2>2, <2>3
      <4> QED
        BY <1>3, <2>3, <4>1, <4>2
    <3> QED
      BY <3>1, <3>2
  <2>7. \A j \in Moved' : Kind(j)' # "drop"
    BY <1>1, <1>3, <2>1, <2>4, <2>5 DEF Walked
  <2>8. \A j \in job'.records : Kind(j)' = Kind(j)
    BY <2>3, <2>4
  <2> QED
    BY <2>3, <2>6, <2>7, <2>8 DEF Walked
<1>4. CASE ~Ambiguous(i, NewId(i, a))
  <2>1. /\ job' = [job EXCEPT !.todo = @ \ {i}, !.stack = Append(job.stack, i)]
        /\ Moved' = Moved \cup {i}
    BY <1>4 DEF Move, Moved, Pushed
  <2> QED
    BY <1>3, <2>1
<1> QED
  BY <1>2, <1>4 DEF Move

LEMMA WalkedNext == Inv /\ Walked /\ [Next]_mvars => Walked'
<1> SUFFICES ASSUME Inv, Walked, [Next]_mvars PROVE Walked'
  OBVIOUS
<1>1. CASE UNCHANGED mvars
  BY <1>1 DEF mvars, Walked, Moved, Kind, RuleOf
<1>2. ASSUME NEW v \in Version, NEW w \in Version, NEW rules \in Declared[v],
             Declare(v, w, rules)
      PROVE  Walked'
  BY <1>2, WalkedQuiet DEF Declare, Inv, Generations
<1>3. CASE Begin
  <2>1. job'.pc = "choose" /\ image' = <<>>
    BY <1>3 DEF Begin, Rest, Inv, Generations
  <2> QED
    BY <2>1, WalkedQuiet
<1>4. CASE Choose
  BY <1>4, WalkedChoose
<1>5. CASE Pop
  BY <1>5, WalkedPop
<1>6. CASE Conclude
  <2> DEFINE next == [Rest("none") EXCEPT
                        !.pc = "choose", !.version = transitions[job.version].to,
                        !.visited = job.visited, !.records = {image[i] : i \in Moved}]
  <2>1. next.pc = "choose" /\ Rest("collision").pc = "idle"
    BY DEF Rest
  <2> HIDE DEF next
  <2>2. job' \in {next, Rest("collision")} /\ image' = <<>>
    BY <1>6 DEF Conclude, Refuse, next
  <2> QED
    BY <2>1, <2>2, WalkedQuiet
<1>7. CASE Store
  <2>1. job.pc = "done" /\ UNCHANGED image /\ job'.pc = "idle"
    BY <1>7 DEF Store, Rest
  <2>2. image = <<>>
    BY <2>1 DEF Inv, Generations
  <2> QED
    BY <2>1, <2>2, WalkedQuiet
<1>8. CASE Crash
  <2>1. job'.pc = "idle" /\ image' = <<>>
    BY <1>8 DEF Crash, Refuse, Rest
  <2> QED
    BY <2>1, WalkedQuiet
<1>9. ASSUME NEW i \in job.todo, Drop(i) PROVE Walked'
  BY <1>9, WalkedDrop
<1>10. ASSUME NEW i \in job.todo, MoveFails(i) PROVE Walked'
  <2>1. job'.pc = "idle" /\ image' = <<>>
    BY <1>10 DEF MoveFails, Refuse, Rest
  <2> QED
    BY <2>1, WalkedQuiet
<1>11. ASSUME NEW i \in job.todo, NEW a \in Args, Move(i, a) PROVE Walked'
  BY <1>11, WalkedMove
<1> QED
  BY <1>1, <1>2, <1>3, <1>4, <1>5, <1>6, <1>7, <1>8, <1>9, <1>10, <1>11 DEF Next

LEMMA WalkedHolds == Spec => []Walked
<1>1. Init => Walked
  <2> SUFFICES ASSUME Init PROVE Walked
    OBVIOUS
  <2>1. Moved = {} /\ job.pc = "idle"
    BY EmptyMap DEF Init, Moved, Rest
  <2> QED
    BY <2>1 DEF Walked
<1> QED
  BY <1>1, InvHolds, WalkedNext, PTL DEF Spec

-----------------------------------------------------------------------------
(* Induction over the natural numbers, from the library's facts on          *)
(* well-founded relations, for sets of numbers.                             *)

LEMMA Least ==
    ASSUME NEW T \in SUBSET Nat, T # {}
    PROVE  \E m \in T : \A n \in T : m <= n
<1>1. IsWellFoundedOn(OpToRel(<, Nat), Nat)
  BY NatLessThanWellFounded
<1>2. PICK m \in T : \A n \in T : ~(<<n, m>> \in OpToRel(<, Nat))
  BY <1>1, WFMin
<1>3. \A n \in T : <<n, m>> \in OpToRel(<, Nat) <=> n < m
  BY DEF OpToRel
<1>4. \A n \in T : ~(n < m)
  BY <1>2, <1>3
<1> QED
  BY <1>4

LEMMA Induct ==
    ASSUME NEW T \in SUBSET Nat, 0 \in T, \A n \in T : n + 1 \in T
    PROVE  T = Nat
<1> SUFFICES ASSUME T # Nat PROVE FALSE
  OBVIOUS
<1>1. PICK m \in Nat \ T : \A n \in Nat \ T : m <= n
  <2>1. Nat \ T # {}
    OBVIOUS
  <2> QED
    BY <2>1, Least
<1>2. m - 1 \in T /\ (m - 1) + 1 = m
  BY <1>1
<1> QED
  BY <1>1, <1>2

-----------------------------------------------------------------------------
(* What a walk leaves out is what was dropped with all beneath it. *)

Spared(i) == \A n \in 1..Len(i) : Kind(SubSeq(i, 1, n)) # "drop"

LEMMA SparedBeneath ==
    ASSUME NEW i \in Id
    PROVE  Spared(i) <=> Kind(i) # "drop" /\ Spared(Parent(i))
<1>1. i \in Seq(Frame) /\ Len(i) \in Nat \ {0} /\ Len(Parent(i)) = Len(i) - 1
  BY IdParts, MigrationAssumption
<1>2. ASSUME NEW n \in 1..Len(i)
      PROVE  /\ SubSeq(i, 1, n) \in Seq(Frame) /\ Len(SubSeq(i, 1, n)) = n
             /\ \A m \in 1..n : SubSeq(i, 1, n)[m] = i[m]
  <2>1. n \in Int /\ \A m \in 1..n : i[m] \in Frame
    BY <1>1
  <2>2. /\ SubSeq(i, 1, n) \in Seq(Frame)
        /\ Len(SubSeq(i, 1, n)) = IF 1 <= n THEN n - 1 + 1 ELSE 0
        /\ \A m \in 1..(n - 1 + 1) : SubSeq(i, 1, n)[m] = i[1 + m - 1]
    BY <2>1, SubSeqProperties
  <2> QED
    BY <2>2
<1>3. SubSeq(i, 1, Len(i)) = i
  <2>1. Len(i) \in 1..Len(i)
    BY <1>1
  <2>2. /\ SubSeq(i, 1, Len(i)) \in Seq(Frame) /\ Len(SubSeq(i, 1, Len(i))) = Len(i)
        /\ \A m \in 1..Len(i) : SubSeq(i, 1, Len(i))[m] = i[m]
    BY <1>2, <2>1
  <2> QED
    BY <1>1, <2>2, SeqEqual
<1>4. ASSUME NEW n \in 1..(Len(i) - 1) PROVE SubSeq(Parent(i), 1, n) = SubSeq(i, 1, n)
  <2> DEFINE p == Parent(i)
  <2>1. Len(i) - 1 \in Int /\ \A m \in 1..(Len(i) - 1) : i[m] \in Frame
    BY <1>1
  <2>2. /\ p \in Seq(Frame)
        /\ \A m \in 1..(Len(i) - 1 - 1 + 1) : p[m] = i[1 + m - 1]
    BY <2>1, SubSeqProperties DEF Parent
  <2>3. p \in Seq(Frame) /\ Len(p) = Len(i) - 1 /\ \A m \in 1..(Len(i) - 1) : p[m] = i[m]
    BY <1>1, <2>2
  <2> HIDE DEF p
  <2>4. n \in Int /\ n \in 1..Len(i) /\ \A m \in 1..n : p[m] \in Frame /\ p[m] = i[m]
    BY <1>1, <2>3
  <2>5. /\ SubSeq(p, 1, n) \in Seq(Frame)
        /\ Len(SubSeq(p, 1, n)) = IF 1 <= n THEN n - 1 + 1 ELSE 0
        /\ \A m \in 1..(n - 1 + 1) : SubSeq(p, 1, n)[m] = p[1 + m - 1]
    BY <2>4, SubSeqProperties
  <2>6. Len(SubSeq(p, 1, n)) = n /\ \A m \in 1..n : SubSeq(p, 1, n)[m] = i[m]
    BY <2>4, <2>5
  <2>7. SubSeq(p, 1, n) = SubSeq(i, 1, n)
    <3>1. /\ SubSeq(i, 1, n) \in Seq(Frame) /\ Len(SubSeq(i, 1, n)) = n
          /\ \A m \in 1..n : SubSeq(i, 1, n)[m] = i[m]
      BY <1>2, <2>4
    <3> QED
      BY <2>5, <2>6, <3>1, SeqEqual
  <2> QED
    BY <2>7 DEF p
<1>5. 1..Len(Parent(i)) = 1..(Len(i) - 1) /\ 1..Len(i) = 1..(Len(i) - 1) \cup {Len(i)}
  BY <1>1
<1>6. Spared(Parent(i)) <=> \A n \in 1..(Len(i) - 1) : Kind(SubSeq(i, 1, n)) # "drop"
  BY <1>4, <1>5 DEF Spared
<1>7. Spared(i) <=> /\ \A n \in 1..(Len(i) - 1) : Kind(SubSeq(i, 1, n)) # "drop"
                    /\ Kind(SubSeq(i, 1, Len(i))) # "drop"
  BY <1>5 DEF Spared
<1> QED
  BY <1>3, <1>6, <1>7

LEMMA WalkedAll == Inv /\ Walked => OnlyDropsAreLost
<1> SUFFICES ASSUME Inv, Walked, job.pc = "walk", job.todo = {}, job.stack = <<>>
             PROVE  Moved = {i \in job.records : Spared(i)}
  BY DEF OnlyDropsAreLost, Spared
<1>1. /\ Moved \subseteq job.records /\ job.records \subseteq Id
      /\ \A i \in job.records : Parent(i) \in job.records \cup {Root}
  BY DEF Inv, Typed, Generations, Closed
<1>2. ASSUME NEW i \in job.records
      PROVE  i \in Moved <=> Kind(i) # "drop" /\ Parent(i) \in Moved \cup {Root}
  <2>1. Kind(i) # "drop" /\ Parent(i) \in Moved \cup {Root} => i \in Moved
    <3>1. 1..Len(job.stack) = {}
      BY EmptySeq
    <3> QED
      BY <3>1 DEF Walked
  <2>2. i \in Moved => Kind(i) # "drop" /\ Parent(i) \in Moved \cup {Root}
    BY DEF Walked, Inv, ChainsRebuilt
  <2> QED
    BY <2>1, <2>2
<1>3. Spared(Root)
  <2>1. 1..Len(Root) = {}
    BY EmptySeq DEF Root
  <2> QED
    BY <2>1 DEF Spared
<1> DEFINE T == {d \in Nat : \A i \in job.records : Len(i) <= d => (i \in Moved <=> Spared(i))}
<1>4. \A i \in job.records : Len(i) \in Nat \ {0}
  BY <1>1, IdParts, MigrationAssumption
<1>5. 0 \in T
  BY <1>4
<1>6. ASSUME NEW d \in T PROVE d + 1 \in T
  <2>1. ASSUME NEW i \in job.records, Len(i) <= d + 1 PROVE i \in Moved <=> Spared(i)
    <3>1. Spared(i) <=> Kind(i) # "drop" /\ Spared(Parent(i))
      BY <1>1, SparedBeneath
    <3>2. Parent(i) \in Moved \cup {Root} <=> Spared(Parent(i))
      <4>1. CASE Parent(i) = Root
        BY <1>3, <4>1
      <4>2. CASE Parent(i) # Root
        <5>1. Parent(i) \in job.records
          BY <1>1, <4>2
        <5>2. Len(Parent(i)) = Len(i) - 1
          BY <1>1, IdParts
        <5>3. Len(Parent(i)) <= d
          BY <1>4, <2>1, <5>2
        <5> QED
          BY <4>2, <5>1, <5>3
      <4> QED
        BY <4>1, <4>2
    <3> QED
      BY <1>2, <3>1, <3>2
  <2> QED
    BY <2>1
<1>7. T = Nat
  <2>1. T \in SUBSET Nat
    OBVIOUS
  <2> HIDE DEF T
  <2> QED
    BY <1>5, <1>6, <2>1, Induct
<1>8. \A i \in job.records : i \in Moved <=> Spared(i)
  <2>1. ASSUME NEW i \in job.records PROVE i \in Moved <=> Spared(i)
    <3>1. Len(i) \in T /\ Len(i) <= Len(i)
      BY <1>4, <1>7
    <3> QED
      BY <3>1
  <2> QED
    BY <2>1
<1> QED
  BY <1>1, <1>8

(* A rebuilt generation lacks what a rule dropped, with all beneath it, and *)
(* nothing else: the walk reaches every other record.                       *)
THEOREM NothingElseIsLost == Spec => []OnlyDropsAreLost
  BY InvHolds, WalkedHolds, WalkedAll, PTL

-----------------------------------------------------------------------------
(* The path from a version along the transitions, as transition() walks it. *)

Onward(u) == IF transitions[u] = None THEN u ELSE transitions[u].to

Walks(S, step, w, f, n) ==
    /\ f \in [0..n -> S] /\ f[0] = w
    /\ \A m \in 1..n : f[m] = step[f[m - 1]]

LEMMA PathExists ==
    ASSUME NEW S, NEW step \in [S -> S], NEW w \in S, NEW k \in Nat
    PROVE  \E f : Walks(S, step, w, f, k)
<1> DEFINE T == {n \in Nat : \E f : Walks(S, step, w, f, n)}
<1>1. 0 \in T
  <2>1. Walks(S, step, w, [n \in 0..0 |-> w], 0)
    BY DEF Walks
  <2> QED
    BY <2>1
<1>2. ASSUME NEW n \in T PROVE n + 1 \in T
  <2>1. PICK f : Walks(S, step, w, f, n)
    OBVIOUS
  <2> DEFINE g == [m \in 0..(n + 1) |-> IF m = n + 1 THEN step[f[n]] ELSE f[m]]
  <2>2. g \in [0..(n + 1) -> S]
    BY <2>1 DEF Walks
  <2>3. g[0] = w /\ \A m \in 1..(n + 1) : g[m] = step[g[m - 1]]
    <3>1. ASSUME NEW m \in 1..(n + 1) PROVE g[m] = step[g[m - 1]]
      <4>1. CASE m = n + 1
        BY <4>1
      <4>2. CASE m # n + 1
        <5>1. m \in 1..n /\ g[m] = f[m] /\ g[m - 1] = f[m - 1]
          BY <4>2
        <5> QED
          BY <2>1, <5>1 DEF Walks
      <4> QED
        BY <4>1, <4>2
    <3> QED
      BY <2>1, <3>1 DEF Walks
  <2>4. Walks(S, step, w, g, n + 1)
    BY <2>2, <2>3 DEF Walks
  <2> HIDE DEF g
  <2> QED
    BY <2>4
<1>3. T = Nat
  <2>1. T \in SUBSET Nat
    OBVIOUS
  <2> HIDE DEF T
  <2> QED
    BY <1>1, <1>2, <2>1, Induct
<1> QED
  BY <1>3

LEMMA AcyclicPath ==
    ASSUME Typed, NEW v \in Version, NEW w \in Version, Acyclic(v, w)
    PROVE  \E f \in [0..Cardinality(Version) -> Version] :
             /\ f[0] = w
             /\ \A n \in 1..Cardinality(Version) : f[n] = Onward(f[n - 1])
             /\ \A n \in 0..Cardinality(Version) : f[n] # v
<1> DEFINE after[n \in 0..Cardinality(Version)] ==
             IF n = 0 THEN w
             ELSE LET u == after[n - 1] IN IF transitions[u] = None THEN u ELSE transitions[u].to
<1>1. PICK k \in Nat : k = Cardinality(Version)
  BY FS_CardinalityType, MigrationAssumption
<1>2. \A n \in 0..k : after[n] # v
  BY <1>1 DEF Acyclic
<1>3. PICK step \in [Version -> Version] : \A u \in Version : step[u] = Onward(u)
  <2> DEFINE s == [u \in Version |-> Onward(u)]
  <2>1. s \in [Version -> Version] /\ \A u \in Version : s[u] = Onward(u)
    BY DEF Typed, Onward
  <2> HIDE DEF s
  <2> QED
    BY <2>1
<1>4. PICK f \in [0..k -> Version] : f[0] = w /\ \A n \in 1..k : f[n] = step[f[n - 1]]
  <2>1. PICK f : Walks(Version, step, w, f, k)
    BY PathExists, Zenon
  <2> QED
    BY <2>1 DEF Walks
<1>5. ASSUME NEW n \in 1..k PROVE f[n] = Onward(f[n - 1])
  BY <1>1, <1>3, <1>4
<1>6. f = [n \in 0..k |->
             IF n = 0 THEN w
             ELSE LET u == f[n - 1] IN IF transitions[u] = None THEN u ELSE transitions[u].to]
  BY <1>1, <1>4, <1>5 DEF Onward
<1>7. after = [n \in 0..k |->
                 IF n = 0 THEN w
                 ELSE LET u == after[n - 1] IN
                      IF transitions[u] = None THEN u ELSE transitions[u].to]
  BY <1>1, <1>6, Zenon DEF after
<1> HIDE DEF after
<1>8. \A n \in 0..k : after[n] = IF n = 0 THEN w ELSE Onward(after[n - 1])
  BY <1>7 DEF Onward
<1> DEFINE T == {n \in Nat : n <= k => after[n] = f[n]}
<1>9. 0 \in T
  BY <1>1, <1>4, <1>8
<1>10. ASSUME NEW n \in T PROVE n + 1 \in T
  <2>1. ASSUME n + 1 <= k PROVE after[n + 1] = f[n + 1]
    <3>1. n + 1 \in 1..k /\ n + 1 \in 0..k /\ (n + 1) - 1 = n /\ after[n] = f[n] /\ n + 1 # 0
      BY <1>1, <2>1
    <3>2. after[n + 1] = Onward(after[n])
      BY <1>8, <3>1
    <3>3. f[n + 1] = Onward(f[n])
      BY <1>5, <3>1
    <3> QED
      BY <3>1, <3>2, <3>3
  <2> QED
    BY <2>1
<1>11. T = Nat
  <2>1. T \in SUBSET Nat
    OBVIOUS
  <2> HIDE DEF T
  <2> QED
    BY <1>9, <1>10, <2>1, Induct
<1>12. \A n \in 0..k : f[n] # v
  BY <1>1, <1>2, <1>11
<1> QED
  BY <1>1, <1>4, <1>5, <1>12

(* No set of versions is closed under the transitions. *)
NoCircle ==
    \A C \in SUBSET Version :
        C # {} => \E u \in C : transitions[u] = None \/ transitions[u].to \notin C

(* Every version a run has been at leads on to another one, unless it is    *)
(* the one whose records are being rebuilt.                                 *)
Onwards ==
    /\ job.pc \in {"choose", "walk"} =>
        \A u \in job.visited :
            \/ job.pc = "walk" /\ u = job.version
            \/ transitions[u] # None /\ transitions[u].to \in job.visited \cup {job.version}
    /\ job.pc = "walk" => job.version \in job.visited
    /\ job.answer # "cycle"

LEMMA DeclareNoCircle ==
    ASSUME Typed, NoCircle, NEW v \in Version, NEW w \in Version, Acyclic(v, w),
           NEW rules, transitions' = [transitions EXCEPT ![v] = [to |-> w, rules |-> rules]]
    PROVE  NoCircle'
<1> SUFFICES ASSUME NEW C \in SUBSET Version, C # {},
                    \A u \in C : transitions'[u] # None /\ transitions'[u].to \in C
             PROVE  FALSE
  BY DEF NoCircle
<1>1. /\ transitions'[v].to = w
      /\ \A u \in Version : u # v => transitions'[u] = transitions[u]
  BY DEF Typed
<1>2. v \in C /\ w \in C
  <2>1. v \in C
    BY <1>1 DEF NoCircle
  <2> QED
    BY <1>1, <2>1
<1>3. PICK k \in Nat : k = Cardinality(Version)
  BY FS_CardinalityType, MigrationAssumption
<1>4. PICK f \in [0..k -> Version] :
        /\ f[0] = w
        /\ \A n \in 1..k : f[n] = Onward(f[n - 1])
        /\ \A n \in 0..k : f[n] # v
  BY <1>3, AcyclicPath
<1>5. ASSUME NEW u \in C, u # v
      PROVE  transitions[u] # None /\ Onward(u) = transitions[u].to /\ Onward(u) \in C
  BY <1>1, <1>5 DEF Onward
<1> DEFINE T == {n \in Nat : n <= k => f[n] \in C}
<1>6. 0 \in T
  BY <1>2, <1>4
<1>7. ASSUME NEW n \in T PROVE n + 1 \in T
  <2>1. ASSUME n + 1 <= k PROVE f[n + 1] \in C
    <3>1. n + 1 \in 1..k /\ (n + 1) - 1 = n /\ n \in 0..k /\ f[n] \in C
      BY <2>1
    <3>2. f[n + 1] = Onward(f[n]) /\ f[n] # v
      BY <1>4, <3>1
    <3> QED
      BY <1>5, <3>1, <3>2
  <2> QED
    BY <2>1
<1>8. T = Nat
  <2>1. T \in SUBSET Nat
    OBVIOUS
  <2> HIDE DEF T
  <2> QED
    BY <1>6, <1>7, <2>1, Induct
<1>9. \A n \in 0..k : f[n] \in C
  BY <1>8
<1>10. PICK m \in 0..k, n \in 0..k : m < n /\ f[m] = f[n]
  <2>1. IsFiniteSet(0..k) /\ Cardinality(0..k) = k + 1
    <3>1. IsFiniteSet(0..k) /\ Cardinality(0..k) = IF 0 > k THEN 0 ELSE k - 0 + 1
      BY FS_Interval
    <3> QED
      BY <3>1
  <2>2. IsFiniteSet(Version) /\ Cardinality(Version) < Cardinality(0..k)
    BY <1>3, <2>1, MigrationAssumption
  <2>3. PICK m \in 0..k, n \in 0..k : m # n /\ f[m] = f[n]
    BY <2>1, <2>2, FS_PigeonHole
  <2> QED
    BY <2>3
<1> DEFINE D == {f[l] : l \in m..(n - 1)}
<1>11. D \in SUBSET Version /\ D # {}
  <2>1. m \in m..(n - 1) /\ m..(n - 1) \subseteq 0..k
    BY <1>10
  <2> QED
    BY <2>1
<1>12. ASSUME NEW l \in m..(n - 1)
       PROVE  transitions[f[l]] # None /\ transitions[f[l]].to \in D
  <2>1. l \in 0..k /\ l + 1 \in 1..k /\ (l + 1) - 1 = l
    BY <1>10
  <2>2. f[l] \in C /\ f[l] # v /\ f[l + 1] = Onward(f[l])
    <3>1. f[l + 1] = Onward(f[(l + 1) - 1])
      BY <1>4, <2>1
    <3> QED
      BY <1>4, <1>9, <2>1, <3>1
  <2>3. transitions[f[l]] # None /\ transitions[f[l]].to = f[l + 1]
    BY <1>5, <2>2
  <2>4. f[l + 1] \in D
    <3>1. CASE l + 1 = n
      <4>1. m \in m..(n - 1) /\ f[m] = f[l + 1]
        BY <1>10, <3>1
      <4> QED
        BY <4>1
    <3>2. CASE l + 1 # n
      <4>1. l + 1 \in m..(n - 1)
        BY <1>10, <3>2
      <4> QED
        BY <4>1
    <3> QED
      BY <3>1, <3>2
  <2> QED
    BY <2>3, <2>4
<1>13. \A u \in D : transitions[u] # None /\ transitions[u].to \in D
  BY <1>12
<1> HIDE DEF D
<1> QED
  BY <1>11, <1>13 DEF NoCircle

LEMMA NoCircleNext == Typed /\ NoCircle /\ [Next]_mvars => NoCircle'
<1> SUFFICES ASSUME Typed, NoCircle, [Next]_mvars PROVE NoCircle'
  OBVIOUS
<1>1. CASE UNCHANGED transitions
  BY <1>1 DEF NoCircle
<1>2. ASSUME NEW v \in Version, NEW w \in Version, NEW rules \in Declared[v],
             Declare(v, w, rules)
      PROVE  NoCircle'
  <2>1. Acyclic(v, w) /\ transitions' = [transitions EXCEPT ![v] = [to |-> w, rules |-> rules]]
    BY <1>2 DEF Declare
  <2> QED
    BY <2>1, DeclareNoCircle
<1>3. \/ UNCHANGED transitions
      \/ \E v, w \in Version : \E rules \in Declared[v] : Declare(v, w, rules)
  BY DEF mvars, Next, Begin, Choose, Pop, Conclude, Store, Crash, Drop, MoveFails, Move
<1> QED
  BY <1>1, <1>2, <1>3

LEMMA OnwardsRefuse ==
    ASSUME NEW r \in {"none", "no path", "shape", "ambiguous", "collision"}, Refuse(r)
    PROVE  Onwards'
  BY DEF Refuse, Rest, Onwards

LEMMA OnwardsChoose == ASSUME Typed, NoCircle, Onwards, Choose PROVE Onwards'
<1>1. /\ job.pc = "choose" /\ UNCHANGED transitions /\ job \in JobState
      /\ job.visited \in SUBSET Version
  BY DEF Choose, Typed, JobState
<1>2. job.version \notin job.visited
  <2> SUFFICES ASSUME job.version \in job.visited PROVE FALSE
    OBVIOUS
  <2>1. \A u \in job.visited : transitions[u] # None /\ transitions[u].to \in job.visited
    BY <1>1 DEF Onwards
  <2> QED
    BY <1>1, <2>1 DEF NoCircle
<1>3. CASE job' = [job EXCEPT !.pc = "done"]
  <2>1. job'.pc = "done" /\ job'.answer = job.answer
    BY <1>1, <1>3 DEF JobState
  <2> QED
    BY <2>1 DEF Onwards
<1>4. CASE Refuse(IF job.version \in job.visited THEN "cycle" ELSE "no path")
  BY <1>2, <1>4, OnwardsRefuse
<1>5. CASE job' = [job EXCEPT !.pc = "walk", !.visited = @ \cup {job.version},
                              !.stack = <<Root>>, !.at = Root, !.todo = {}]
  <2>1. /\ job'.pc = "walk" /\ job'.visited = job.visited \cup {job.version}
        /\ job'.version = job.version /\ job'.answer = job.answer
    BY <1>1, <1>5 DEF JobState
  <2> QED
    BY <1>1, <2>1 DEF Onwards
<1> QED
  BY <1>3, <1>4, <1>5 DEF Choose

LEMMA OnwardsConclude == ASSUME Inv, Onwards, Conclude PROVE Onwards'
<1>1. job.pc = "walk" /\ UNCHANGED transitions /\ transitions[job.version] # None
  BY DEF Conclude, Inv, Generations
<1>2. CASE Refuse("collision")
  BY <1>2, OnwardsRefuse
<1>3. CASE job' = [Rest("none") EXCEPT
                     !.pc = "choose", !.version = transitions[job.version].to,
                     !.visited = job.visited, !.records = {image[i] : i \in Moved}]
  <2>1. /\ job'.pc = "choose" /\ job'.version = transitions[job.version].to
        /\ job'.visited = job.visited /\ job'.answer = "none"
    BY <1>3 DEF Rest
  <2>2. ASSUME NEW u \in job.visited
        PROVE  /\ transitions'[u] # None
               /\ transitions'[u].to \in job'.visited \cup {job'.version}
    <3>1. UNCHANGED transitions
      BY <1>1
    <3>2. CASE u = job.version
      BY <1>1, <2>1, <3>1, <3>2
    <3>3. CASE u # job.version
      <4>1. transitions[u] # None /\ transitions[u].to \in job.visited \cup {job.version}
        BY <1>1, <3>3 DEF Onwards
      <4>2. job.version \in job.visited
        BY <1>1 DEF Onwards
      <4> QED
        BY <2>1, <3>1, <4>1, <4>2
    <3> QED
      BY <3>2, <3>3
  <2> QED
    BY <2>1, <2>2 DEF Onwards
<1> QED
  BY <1>2, <1>3 DEF Conclude

LEMMA OnwardsNext == Inv /\ NoCircle /\ Onwards /\ [Next]_mvars => Onwards'
<1> SUFFICES ASSUME Inv, NoCircle, Onwards, [Next]_mvars PROVE Onwards'
  OBVIOUS
<1>0. Typed /\ job \in JobState
  BY DEF Inv, Typed
<1>1. CASE UNCHANGED mvars
  BY <1>1 DEF mvars, Onwards
<1>2. ASSUME NEW v \in Version, NEW w \in Version, NEW rules \in Declared[v],
             Declare(v, w, rules)
      PROVE  Onwards'
  BY <1>2 DEF Declare, Onwards
<1>3. CASE Begin
  <2>1. job'.visited = {} /\ job'.answer = "none" /\ job'.pc = "choose"
    BY <1>3 DEF Begin, Rest
  <2> QED
    BY <2>1 DEF Onwards
<1>4. CASE Choose
  BY <1>0, <1>4, OnwardsChoose
<1>5. CASE Pop
  <2>1. /\ job'.pc = job.pc /\ job'.visited = job.visited
        /\ job'.version = job.version /\ job'.answer = job.answer /\ UNCHANGED transitions
    BY <1>0, <1>5 DEF Pop, JobState
  <2> QED
    BY <2>1 DEF Onwards
<1>6. CASE Conclude
  BY <1>6, OnwardsConclude
<1>7. CASE Store
  BY <1>7 DEF Store, Rest, Onwards
<1>8. CASE Crash
  BY <1>8, OnwardsRefuse DEF Crash
<1>9. ASSUME NEW i \in job.todo, Drop(i) PROVE Onwards'
  <2>1. CASE Refuse("shape")
    BY <2>1, OnwardsRefuse
  <2>2. CASE job' = [job EXCEPT !.todo = @ \ {i}] /\ UNCHANGED transitions
    <3>1. /\ job'.pc = job.pc /\ job'.visited = job.visited
          /\ job'.version = job.version /\ job'.answer = job.answer
      BY <1>0, <2>2 DEF JobState
    <3> QED
      BY <2>2, <3>1 DEF Onwards
  <2> QED
    BY <1>9, <2>1, <2>2 DEF Drop
<1>10. ASSUME NEW i \in job.todo, MoveFails(i) PROVE Onwards'
  BY <1>10, OnwardsRefuse DEF MoveFails
<1>11. ASSUME NEW i \in job.todo, NEW a \in Args, Move(i, a) PROVE Onwards'
  <2>1. CASE Refuse("ambiguous")
    BY <2>1, OnwardsRefuse
  <2>2. CASE /\ job' = [job EXCEPT !.todo = @ \ {i}, !.stack = Pushed(i)]
             /\ UNCHANGED transitions
    <3>1. /\ job'.pc = job.pc /\ job'.visited = job.visited
          /\ job'.version = job.version /\ job'.answer = job.answer
      BY <1>0, <2>2 DEF JobState
    <3> QED
      BY <2>2, <3>1 DEF Onwards
  <2> QED
    BY <1>11, <2>1, <2>2 DEF Move
<1> QED
  BY <1>1, <1>2, <1>3, <1>4, <1>5, <1>6, <1>7, <1>8, <1>9, <1>10, <1>11 DEF Next

LEMMA OnwardsHold == Spec => [](NoCircle /\ Onwards)
<1>1. Init => NoCircle /\ Onwards
  <2> SUFFICES ASSUME Init PROVE NoCircle /\ Onwards
    OBVIOUS
  <2>1. \A u \in Version : transitions[u] = None
    BY DEF Init
  <2>2. job.pc = "idle" /\ job.answer = "none"
    BY DEF Init, Rest
  <2> QED
    BY <2>1, <2>2 DEF NoCircle, Onwards
<1>2. Inv => Typed
  BY DEF Inv
<1> QED
  BY <1>1, <1>2, InvHolds, NoCircleNext, OnwardsNext, PTL DEF Spec

(* Whatever transitions were declared, in whatever order: transition()      *)
(* lets none close a circle, so a run never comes to a version again.       *)
THEOREM NoVersionTwice == Spec => []NoCycleMet
<1>1. Onwards => NoCycleMet
  BY DEF Onwards, NoCycleMet
<1> QED
  BY <1>1, OnwardsHold, PTL

=============================================================================
