---------------------------- MODULE StagingProofs ----------------------------
(***************************************************************************)
(* Staging, for every number of tasks, transactions and records, when a    *)
(* transaction is only closed by the task that began it.                   *)
(***************************************************************************)
EXTENDS Staging, TLAPS

-----------------------------------------------------------------------------
(* What the registry and the contexts are made of, without the mutations.  *)
Shape ==
    /\ live \subseteq Task
    /\ inherited \in [Task -> Value]
    /\ open \in [Task -> Value]
    /\ stage \in [Stage -> StageState]

Mine(t) == {s \in Stage : stage[s].state = "open" /\ stage[s].owner = t}

(* Stages are begun by live tasks, a context names only begun ones, and    *)
(* only an open one has a token; what a task inherited is not its own.     *)
Known(s) == s # None => stage[s].state # "unborn"
Born ==
    /\ \A s \in Stage : stage[s].token => stage[s].state = "open"
    /\ \A s \in Stage : stage[s].state # "unborn" => stage[s].owner \in live
    /\ \A s \in Stage : stage[s].state = "open" => Known(stage[s].outer)
    /\ \A t \in Task : Known(open[t]) /\ Known(inherited[t])
    /\ \A t \in Task : inherited[t] # None => stage[inherited[t]].owner # t

(* The open stages of a task hang together: any group of them has an       *)
(* innermost one, and the outermost was opened on what the task inherited. *)
Innermost ==
    \A t \in Task : \A D \in SUBSET Mine(t) :
        D # {} => \E s \in D : \A r \in D : stage[r].outer # s
Outermost ==
    \A t \in Task : Mine(t) # {} => \E b \in Mine(t) : stage[b].outer = inherited[t]

(* EnclosingGivenBack, task by task. *)
Given(t) ==
    /\ open[t] \in IF Mine(t) = {} THEN {inherited[t]} ELSE Mine(t)
    /\ \A s \in Mine(t) \ {open[t]} : \E r \in Mine(t) : stage[r].outer = s

Nested == Born /\ Innermost /\ Outermost /\ \A t \in Task : Given(t)
Inv == Shape /\ OpenStageCanClose /\ Nested

LEMMA InvInit == Init => Inv
<1> SUFFICES ASSUME Init PROVE Inv
  OBVIOUS
<1>1. Shape
  BY StagingAssumption
  DEF Init, Shape, Unborn, StageState, Value, Mutations, Mutation, Untouched
<1>2. \A s \in Stage : stage[s].state = "unborn" /\ ~stage[s].token
  BY DEF Init, Unborn
<1>3. \A t \in Task : Mine(t) = {}
  BY <1>2 DEF Mine
<1>4. Born
  BY <1>2, StagingAssumption DEF Init, Born, Known
<1>5. \A t \in Task : Given(t)
  BY <1>3 DEF Init, Given
<1> QED
  BY <1>1, <1>2, <1>3, <1>4, <1>5
  DEF Inv, Nested, Innermost, Outermost, OpenStageCanClose

-----------------------------------------------------------------------------
(* A step that opens and closes nothing. *)
LEMMA InvQuiet ==
    ASSUME Inv, UNCHANGED <<live, inherited, open>>, Shape',
           \A s \in Stage : /\ stage'[s].state = stage[s].state
                            /\ stage'[s].owner = stage[s].owner
                            /\ stage'[s].outer = stage[s].outer
                            /\ stage'[s].token = stage[s].token
    PROVE  Inv'
<1>1. \A t \in Task : Mine(t)' = Mine(t) /\ Mine(t) \subseteq Stage
  BY DEF Mine
<1>2. \A s \in Value : Known(s)' <=> Known(s)
  BY DEF Known, Value
<1>3. Born'
  BY <1>2 DEF Inv, Nested, Born, Shape, StageState, Value, Known
<1>4. Innermost'
  <2> SUFFICES ASSUME NEW t \in Task, NEW D \in SUBSET Mine(t), D # {}
               PROVE  \E x \in D : \A r \in D : stage'[r].outer # x
    BY <1>1 DEF Innermost
  <2>1. PICK x \in D : \A r \in D : stage[r].outer # x
    BY DEF Inv, Nested, Innermost
  <2> QED
    BY <1>1, <2>1
<1>5. Outermost'
  <2> SUFFICES ASSUME NEW t \in Task, Mine(t) # {}
               PROVE  \E b \in Mine(t) : stage'[b].outer = inherited[t]
    BY <1>1 DEF Outermost
  <2>1. PICK b \in Mine(t) : stage[b].outer = inherited[t]
    BY DEF Inv, Nested, Outermost
  <2> QED
    BY <1>1, <2>1
<1>6. \A t \in Task : Given(t)'
  <2> SUFFICES ASSUME NEW t \in Task PROVE Given(t)'
    OBVIOUS
  <2>1. Given(t) /\ Mine(t)' = Mine(t) /\ Mine(t) \subseteq Stage
    BY <1>1 DEF Inv, Nested
  <2>2. ASSUME NEW x \in Mine(t) \ {open[t]}
        PROVE  \E r \in Mine(t) : stage'[r].outer = x
    BY <2>1 DEF Given
  <2> QED
    BY <2>1, <2>2 DEF Given
<1>7. OpenStageCanClose'
  BY DEF Inv, OpenStageCanClose
<1> QED
  BY <1>3, <1>4, <1>5, <1>6, <1>7 DEF Inv, Nested

LEMMA InvSpawn ==
    ASSUME Inv, NEW t \in Task, NEW u \in Task, Spawn(t, u)
    PROVE  Inv'
<1>1. /\ u \notin live /\ live' = live \cup {u}
      /\ stage' = stage
      /\ inherited'[u] = open[t] /\ open'[u] = open[t]
      /\ \A q \in Task : q # u => inherited'[q] = inherited[q] /\ open'[q] = open[q]
  BY DEF Spawn, Inv, Shape
<1>2. Shape'
  BY DEF Spawn, Inv, Shape
<1>3. Mine(u) = {} /\ \A q \in Task : Mine(q)' = Mine(q)
  BY <1>1 DEF Inv, Nested, Born, Mine
<1>4. Born'
  <2>1. open[t] # None => stage[open[t]].owner # u
    BY <1>1 DEF Inv, Nested, Born, Known, Shape, Value
  <2> QED
    BY <1>1, <2>1 DEF Inv, Nested, Born, Known
<1>5. Innermost' /\ Outermost'
  BY <1>1, <1>3 DEF Inv, Nested, Innermost, Outermost, Mine
<1>6. \A q \in Task : Given(q)'
  <2> SUFFICES ASSUME NEW q \in Task PROVE Given(q)'
    OBVIOUS
  <2>1. CASE q = u
    BY <1>1, <1>3, <2>1 DEF Given
  <2>2. CASE q # u
    <3>1. Given(q) /\ Mine(q)' = Mine(q)
      BY <1>3 DEF Inv, Nested
    <3> QED
      BY <1>1, <2>2, <3>1 DEF Given
  <2> QED
    BY <2>1, <2>2
<1> QED
  BY <1>1, <1>2, <1>4, <1>5, <1>6 DEF Inv, Nested, OpenStageCanClose

LEMMA InvBegin ==
    ASSUME Inv, NEW t \in Task, NEW s \in Stage, Begin(t, s)
    PROVE  Inv'
<1>1. /\ stage[s].state = "unborn" /\ t \in live /\ live' = live
      /\ inherited' = inherited
      /\ open'[t] = s /\ \A q \in Task : q # t => open'[q] = open[q]
      /\ stage'[s].state = "open" /\ stage'[s].owner = t /\ stage'[s].token
      /\ stage'[s].outer = open[t]
      /\ \A r \in Stage : r # s => stage'[r] = stage[r]
  BY DEF Begin, Ready, Inv, Shape, Unborn
<1>2. Shape'
  <2>1. stage'[s] \in StageState
    BY DEF Begin, Inv, Shape, Unborn, StageState, Value, Mutations, Mutation, Untouched
  <2> QED
    BY <2>1 DEF Begin, Inv, Shape, Value
<1>3. /\ Mine(t)' = Mine(t) \cup {s} /\ s \notin Mine(t)
      /\ \A q \in Task : q # t => Mine(q)' = Mine(q)
      /\ \A q \in Task : s \notin Mine(q)
  BY <1>1 DEF Mine
<1>4. Born'
  <2>1. \A r \in Stage : stage'[r].state # "unborn" => stage'[r].owner \in live'
    BY <1>1 DEF Inv, Nested, Born
  <2>2. \A r \in Stage : stage[r].state # "unborn" => stage'[r].state # "unborn"
    BY <1>1
  <2>3. \A q \in Task : /\ open[q] # None => stage'[open[q]].state # "unborn"
                        /\ inherited[q] # None => stage'[inherited[q]].state # "unborn"
    BY <2>2 DEF Inv, Nested, Born, Known, Shape, Value
  <2>4. ASSUME NEW r \in Stage, stage'[r].state = "open", stage'[r].outer # None
        PROVE  stage'[stage'[r].outer].state # "unborn"
    <3>1. CASE r = s
      BY <1>1, <2>3, <2>4, <3>1
    <3>2. CASE r # s
      <4>1. stage'[r] = stage[r]
        BY <1>1, <3>2
      <4>2. /\ stage[stage[r].outer].state # "unborn"
            /\ stage[r].outer \in Stage
        BY <2>4, <4>1 DEF Inv, Nested, Born, Known, Shape, StageState
      <4> QED
        BY <2>2, <4>1, <4>2
    <3> QED
      BY <3>1, <3>2
  <2>5. \A q \in Task : open'[q] # None => stage'[open'[q]].state # "unborn"
    BY <1>1, <2>3
  <2>6. \A q \in Task : inherited[q] # None => stage'[inherited[q]].owner # q
    BY <1>1 DEF Inv, Nested, Born, Known, Shape, Value
  <2>7. \A r \in Stage : stage'[r].token => stage'[r].state = "open"
    BY <1>1 DEF Inv, Nested, Born
  <2> QED
    BY <1>1, <2>1, <2>3, <2>4, <2>5, <2>6, <2>7 DEF Born, Known
<1>5. \A q \in Task : \A r \in Mine(q) : stage[r].outer # s /\ stage'[r] = stage[r]
  BY <1>1, StagingAssumption DEF Inv, Nested, Born, Known, Mine
<1>6. Innermost'
  <2> SUFFICES ASSUME NEW q \in Task, NEW D \in SUBSET Mine(q)', D # {}
               PROVE  \E x \in D : \A r \in D : stage'[r].outer # x
    BY DEF Innermost
  <2>1. CASE s \in D
    <3>1. \A r \in D \ {s} : stage'[r].outer # s
      BY <1>3, <1>5, <2>1 DEF Mine
    <3>2. stage'[s].outer # s
      BY <1>1, StagingAssumption DEF Inv, Nested, Born, Known
    <3> QED
      BY <2>1, <3>1, <3>2
  <2>2. CASE s \notin D
    <3>1. D \in SUBSET Mine(q)
      BY <1>3, <2>2
    <3>2. PICK x \in D : \A r \in D : stage[r].outer # x
      BY <3>1 DEF Inv, Nested, Innermost
    <3> QED
      BY <1>5, <3>1, <3>2
  <2> QED
    BY <2>1, <2>2
<1>7. Outermost'
  <2> SUFFICES ASSUME NEW q \in Task, Mine(q)' # {}
               PROVE  \E b \in Mine(q)' : stage'[b].outer = inherited[q]
    BY <1>1 DEF Outermost
  <2>1. CASE Mine(q) # {}
    <3>1. PICK b \in Mine(q) : stage[b].outer = inherited[q]
      BY <2>1 DEF Inv, Nested, Outermost
    <3> QED
      BY <1>3, <1>5, <3>1
  <2>2. CASE Mine(q) = {}
    <3>1. q = t /\ open[t] = inherited[t]
      BY <1>3, <2>2 DEF Inv, Nested, Given
    <3> QED
      BY <1>1, <1>3, <3>1
  <2> QED
    BY <2>1, <2>2
<1>8. \A q \in Task : Given(q)'
  <2> SUFFICES ASSUME NEW q \in Task PROVE Given(q)'
    OBVIOUS
  <2>1. CASE q = t
    <3>1. open'[t] = s /\ s \in Mine(t)'
      BY <1>1, <1>3
    <3>2. ASSUME NEW x \in Mine(t) PROVE \E r \in Mine(t)' : stage'[r].outer = x
      <4>1. CASE x = open[t]
        BY <1>1, <1>3, <4>1
      <4>2. CASE x # open[t]
        <5>1. PICK r \in Mine(t) : stage[r].outer = x
          BY <4>2 DEF Inv, Nested, Given
        <5> QED
          BY <1>3, <1>5, <5>1
      <4> QED
        BY <4>1, <4>2
    <3> QED
      BY <1>3, <2>1, <3>1, <3>2 DEF Given
  <2>2. CASE q # t
    <3>1. open'[q] = open[q] /\ Mine(q)' = Mine(q)
      BY <1>1, <1>3, <2>2
    <3>2. Given(q)
      BY DEF Inv, Nested
    <3> QED
      BY <1>1, <1>5, <3>1, <3>2 DEF Given
  <2> QED
    BY <2>1, <2>2
<1>9. OpenStageCanClose'
  BY <1>1 DEF Inv, OpenStageCanClose
<1> QED
  BY <1>2, <1>4, <1>6, <1>7, <1>8, <1>9 DEF Inv, Nested

-----------------------------------------------------------------------------
(* The task closes its innermost stage: what that one was opened inside is *)
(* the innermost of those left, or what the task inherited.                *)
LEMMA InvClose ==
    ASSUME Inv, NEW t \in Task, NEW s \in Stage,
           NEW how \in {"committing", "rolledBack"},
           Close(t, s, how), UNCHANGED <<live, inherited>>
    PROVE  Inv'
<1>1. /\ open[t] = s /\ stage[s].token /\ stage[s].owner = t
      /\ stage'[s].state = "closed" /\ stage'[s].owner = t /\ ~stage'[s].token
      /\ stage'[s].outer = stage[s].outer
      /\ \A r \in Stage : r # s => stage'[r] = stage[r]
      /\ open'[t] = stage[s].outer /\ \A q \in Task : q # t => open'[q] = open[q]
  BY DEF Close, GivesBack, Inv, Shape, StageState
<1>2. Shape'
  <2>1. stage'[s] \in StageState
    <3>1. ASSUME NEW x \in StageState
          PROVE  [x EXCEPT !.state = "closed", !.token = FALSE, !.tx = how] \in StageState
      BY DEF StageState
    <3> QED
      BY <3>1 DEF Close, Inv, Shape
  <2>2. stage[s].outer \in Value
    BY DEF Inv, Shape, StageState, Value
  <2> QED
    BY <2>1, <2>2 DEF Close, GivesBack, Inv, Shape
<1>3. /\ s \in Mine(t) /\ Mine(t)' = Mine(t) \ {s}
      /\ \A q \in Task : q # t => Mine(q)' = Mine(q)
      /\ \A q \in Task : Mine(q)' \subseteq Mine(q) /\ Mine(q) \subseteq Stage
  BY <1>1 DEF Mine, Inv, Nested, Born
<1>4. \A r \in Stage : stage'[r].outer = stage[r].outer
  BY <1>1
<1>5. Born'
  <2>1. \A r \in Stage : /\ stage[r].state # "unborn" => stage'[r].state # "unborn"
                         /\ stage'[r].state = "open" => stage[r].state = "open"
                         /\ stage'[r].state # "unborn" => stage[r].state # "unborn"
                         /\ stage'[r].owner = stage[r].owner
                         /\ stage'[r].token => stage'[r].state = "open"
    BY <1>1 DEF Inv, Nested, Born
  <2>2. stage[s].state = "open" /\ stage[s].outer \in Value
    BY <1>1 DEF Inv, Nested, Born, Shape, StageState, Value
  <2>3. \A r \in Stage : stage'[r].state = "open" /\ stage'[r].outer # None =>
          stage'[stage'[r].outer].state # "unborn"
    BY <1>4, <2>1 DEF Inv, Nested, Born, Known, Shape, StageState
  <2>4. \A q \in Task : open'[q] # None => stage'[open'[q]].state # "unborn"
    BY <1>1, <2>1, <2>2 DEF Inv, Nested, Born, Known, Shape, Value
  <2>5. \A q \in Task :
          inherited[q] # None => /\ stage'[inherited[q]].state # "unborn"
                                 /\ stage'[inherited[q]].owner # q
    BY <2>1 DEF Inv, Nested, Born, Known, Shape, Value
  <2> QED
    BY <2>1, <2>3, <2>4, <2>5 DEF Inv, Nested, Born, Known
<1>6. Innermost'
  <2> SUFFICES ASSUME NEW q \in Task, NEW D \in SUBSET Mine(q)', D # {}
               PROVE  \E x \in D : \A r \in D : stage'[r].outer # x
    BY DEF Innermost
  <2>1. D \in SUBSET Mine(q) /\ D \subseteq Stage
    BY <1>3
  <2>2. PICK x \in D : \A r \in D : stage[r].outer # x
    BY <2>1 DEF Inv, Nested, Innermost
  <2> QED
    BY <1>4, <2>1, <2>2
<1>7. Mine(t)' = {} => stage[s].outer = inherited[t]
  BY <1>3 DEF Inv, Nested, Outermost
<1>8. Mine(t)' # {} => stage[s].outer \in Mine(t)'
  <2> SUFFICES ASSUME Mine(t)' # {} PROVE stage[s].outer \in Mine(t)'
    OBVIOUS
  <2>1. PICK x \in Mine(t)' : \A r \in Mine(t)' : stage[r].outer # x
    BY <1>3 DEF Inv, Nested, Innermost
  <2>2. \E r \in Mine(t) : stage[r].outer = x
    BY <1>1, <1>3, <2>1 DEF Inv, Nested, Given
  <2> QED
    BY <1>3, <2>1, <2>2
<1>9. Outermost'
  <2> SUFFICES ASSUME NEW q \in Task, Mine(q)' # {}
               PROVE  \E b \in Mine(q)' : stage[b].outer = inherited[q]
    BY <1>3, <1>4 DEF Outermost
  <2>1. PICK b \in Mine(q) : stage[b].outer = inherited[q]
    BY <1>3 DEF Inv, Nested, Outermost
  <2>2. b # s
    <3> SUFFICES ASSUME b = s PROVE FALSE
      OBVIOUS
    <3>1. q = t /\ inherited[t] \in Mine(t)
      BY <1>1, <1>3, <1>8, <2>1 DEF Mine
    <3> QED
      BY <3>1, StagingAssumption DEF Inv, Nested, Born, Mine
  <2> QED
    BY <1>3, <2>1, <2>2
<1>10. \A q \in Task : Given(q)'
  <2> SUFFICES ASSUME NEW q \in Task PROVE Given(q)'
    OBVIOUS
  <2>1. Given(q) /\ Mine(q)' \subseteq Mine(q) /\ Mine(q) \subseteq Stage
    BY <1>3 DEF Inv, Nested
  <2>2. CASE q = t
    <3>1. open'[t] \in IF Mine(t)' = {} THEN {inherited[t]} ELSE Mine(t)'
      BY <1>1, <1>7, <1>8
    <3>2. ASSUME NEW x \in Mine(t)' \ {open'[t]}
          PROVE  \E r \in Mine(t)' : stage'[r].outer = x
      <4>1. PICK r \in Mine(t) : stage[r].outer = x
        BY <1>1, <1>3, <2>1, <2>2, <3>2 DEF Given
      <4>2. r # s
        BY <1>1, <3>2, <4>1
      <4> QED
        BY <1>3, <1>4, <4>1, <4>2
    <3> QED
      BY <2>2, <3>1, <3>2 DEF Given
  <2>3. CASE q # t
    <3>1. Mine(q)' = Mine(q) /\ open'[q] = open[q]
      BY <1>1, <1>3, <2>3
    <3>2. ASSUME NEW x \in Mine(q) \ {open[q]}
          PROVE  \E r \in Mine(q) : stage'[r].outer = x
      BY <1>4, <2>1, <3>2 DEF Given
    <3> QED
      BY <2>1, <3>1, <3>2 DEF Given
  <2> QED
    BY <2>2, <2>3
<1>11. OpenStageCanClose'
  BY <1>1 DEF Inv, OpenStageCanClose
<1> QED
  BY <1>2, <1>5, <1>6, <1>9, <1>10, <1>11 DEF Inv, Nested

-----------------------------------------------------------------------------
(* The shape of the state needs no discipline of the callers.              *)
LEMMA ShapeWrite ==
    ASSUME Shape, NEW t \in Task, NEW k \in Key, NEW m \in Mutation, Write(t, k, m)
    PROVE  /\ Shape'
           /\ Current(t) \in Stage /\ stage[Current(t)].state # "closed"
           /\ stage' = [stage EXCEPT ![Current(t)].staged[k] = m]
<1>1. /\ Current(t) \in Stage /\ stage[Current(t)].state # "closed"
      /\ stage' = [stage EXCEPT ![Current(t)].staged[k] = m]
  BY DEF Write, Current, Shape, Value
<1>2. ASSUME NEW x \in StageState
      PROVE  [x EXCEPT !.staged = [x.staged EXCEPT ![k] = m]] \in StageState
  BY DEF StageState, Mutations
<1>3. stage' \in [Stage -> StageState]
  BY <1>1, <1>2 DEF Shape
<1> QED
  BY <1>1, <1>3 DEF Write, Shape

LEMMA ShapeRest ==
    ASSUME Shape, [Next]_svars PROVE Shape'
<1>1. ASSUME NEW x \in StageState, NEW b \in BOOLEAN
      PROVE  [x EXCEPT !.token = b] \in StageState
  BY DEF StageState
<1>2. ASSUME NEW x \in StageState, NEW h \in {"committed", "failed"}
      PROVE  [x EXCEPT !.tx = h] \in StageState
  BY DEF StageState
<1>3. ASSUME NEW x \in StageState, NEW h \in {"committing", "rolledBack"}
      PROVE  [x EXCEPT !.state = "closed", !.token = FALSE, !.tx = h] \in StageState
  BY DEF StageState
<1>4. CASE UNCHANGED svars
  BY <1>4 DEF svars, Shape
<1>5. ASSUME NEW t \in Task, NEW u \in Task, Spawn(t, u) PROVE Shape'
  BY <1>5 DEF Spawn, Shape
<1>6. ASSUME NEW t \in Task, ListBegin(t) \/ ListEnd(t) PROVE Shape'
  BY <1>6 DEF ListBegin, ListEnd, Shape
<1>7. ASSUME NEW t \in Task, NEW s \in Stage, Begin(t, s) PROVE Shape'
  <2>1. stage'[s] \in StageState
    BY <1>7 DEF Begin, Shape, Unborn, StageState, Value, Mutations, Mutation, Untouched
  <2> QED
    BY <1>7, <2>1 DEF Begin, Shape, Value
<1>8. ASSUME NEW t \in Task, NEW s \in Stage, Finish(t, s) PROVE Shape'
  <2>1. CASE \E how \in {"committing", "rolledBack"} : Close(t, s, how)
    <3>1. stage' \in [Stage -> StageState]
      <4>1. PICK how \in {"committing", "rolledBack"} : Close(t, s, how)
        BY <2>1
      <4> DEFINE x == [stage[s] EXCEPT !.state = "closed", !.token = FALSE, !.tx = how]
      <4>2. x \in StageState
        BY <1>3 DEF Shape
      <4>3. stage' = [stage EXCEPT ![s] = x]
        BY <4>1 DEF Close
      <4> QED
        BY <4>2, <4>3 DEF Shape
    <3>2. stage[s].outer \in Value
      BY DEF Shape, StageState, Value
    <3>3. open' \in [Task -> Value]
      BY <2>1, <3>2 DEF Close, GivesBack, Shape
    <3> QED
      BY <1>8, <3>1, <3>3 DEF Finish, Shape
  <2>2. CASE CloseRefused(t, s)
    <3>1. (stage[s].token /\ open[t] # s) \in BOOLEAN
      OBVIOUS
    <3>2. stage' \in [Stage -> StageState]
      BY <1>1, <2>2, <3>1 DEF CloseRefused, Shape
    <3> QED
      BY <1>8, <2>2, <3>2 DEF Finish, CloseRefused, Shape
  <2> QED
    BY <1>8, <2>1, <2>2 DEF Finish
<1>9. ASSUME NEW s \in Stage, Apply(s) \/ ApplyFails(s) PROVE Shape'
  <2>1. PICK h \in {"committed", "failed"} : stage' = [stage EXCEPT ![s].tx = h]
    BY <1>9 DEF Apply, ApplyFails
  <2> DEFINE x == [stage[s] EXCEPT !.tx = h]
  <2>2. x \in StageState
    BY <1>2 DEF Shape
  <2>3. stage' = [stage EXCEPT ![s] = x]
    BY <2>1
  <2> HIDE DEF x
  <2>4. stage' \in [Stage -> StageState]
    BY <2>2, <2>3 DEF Shape
  <2> QED
    BY <1>9, <2>4 DEF Apply, ApplyFails, Shape
<1> QED
  BY <1>4, <1>5, <1>6, <1>7, <1>8, <1>9, ShapeWrite DEF Next, Act

(* Every step, when only the task that began a transaction closes it.      *)
LEMMA InvNext ==
    ASSUME ~Shared, Inv, [Next]_svars PROVE Inv'
<1>1. Shape' /\ Shape
  BY ShapeRest DEF Inv
<1>2. CASE UNCHANGED svars
  BY <1>1, <1>2, InvQuiet DEF svars
<1>3. ASSUME NEW t \in Task, NEW u \in Task, Spawn(t, u) PROVE Inv'
  BY <1>3, InvSpawn
<1>4. ASSUME NEW t \in Task, ListBegin(t) \/ ListEnd(t) PROVE Inv'
  BY <1>1, <1>4, InvQuiet DEF ListBegin, ListEnd
<1>5. ASSUME NEW t \in Task, NEW s \in Stage, Begin(t, s) PROVE Inv'
  BY <1>5, InvBegin
<1>6. ASSUME NEW t \in Task, NEW s \in Stage, Finish(t, s) PROVE Inv'
  <2>1. CASE \E how \in {"committing", "rolledBack"} : Close(t, s, how)
    BY <1>6, <2>1, InvClose DEF Finish
  <2>2. CASE CloseRefused(t, s)
    <3>1. stage[s].owner = t /\ UNCHANGED <<live, inherited, open>>
      BY <1>6, <2>2 DEF Finish, CloseRefused
    <3>2. (stage[s].token /\ open[t] # s) = stage[s].token
      BY <1>1, <2>2, <3>1 DEF CloseRefused, Shape, StageState
    <3>3. stage' = [stage EXCEPT ![s].token = stage[s].token]
      BY <2>2, <3>2 DEF CloseRefused
    <3>4. stage' = stage
      BY <1>1, <3>3 DEF Shape, StageState
    <3> QED
      BY <1>1, <3>1, <3>4, InvQuiet
  <2> QED
    BY <1>6, <2>1, <2>2 DEF Finish
<1>7. ASSUME NEW t \in Task, NEW k \in Key, NEW m \in Mutation, Write(t, k, m)
      PROVE  Inv'
  <2>1. /\ Current(t) \in Stage
        /\ stage' = [stage EXCEPT ![Current(t)].staged[k] = m]
    BY <1>1, <1>7, ShapeWrite
  <2>2. \A s \in Stage : /\ stage'[s].state = stage[s].state
                         /\ stage'[s].owner = stage[s].owner
                         /\ stage'[s].outer = stage[s].outer
                         /\ stage'[s].token = stage[s].token
    BY <1>1, <2>1 DEF Shape, StageState
  <2>3. UNCHANGED <<live, inherited, open>>
    BY <1>7 DEF Write
  <2> QED
    BY <1>1, <2>2, <2>3, InvQuiet
<1>8. ASSUME NEW s \in Stage, Apply(s) \/ ApplyFails(s) PROVE Inv'
  <2>1. \A r \in Stage : /\ stage'[r].state = stage[r].state
                         /\ stage'[r].owner = stage[r].owner
                         /\ stage'[r].outer = stage[r].outer
                         /\ stage'[r].token = stage[r].token
    BY <1>1, <1>8 DEF Apply, ApplyFails, Shape, StageState
  <2>2. UNCHANGED <<live, inherited, open>>
    BY <1>8 DEF Apply, ApplyFails
  <2> QED
    BY <1>1, <2>1, <2>2, InvQuiet
<1> QED
  BY <1>2, <1>3, <1>4, <1>5, <1>6, <1>7, <1>8 DEF Next, Act

-----------------------------------------------------------------------------
(* While every transaction is closed by the task that began it, a stage    *)
(* that is open can be closed: no refusal has spent its token              *)
(* (_StageRegistry.leave).                                                 *)
THEOREM StagesCanClose ==
    ASSUME ~Shared PROVE Spec => []OpenStageCanClose
<1>1. Inv => OpenStageCanClose
  BY DEF Inv
<1> QED
  BY <1>1, InvInit, InvNext, PTL DEF Spec

(* In the same circumstances closing gives each task back the stage it was *)
(* in before, however transactions nest and wherever tasks are started.    *)
THEOREM EnclosingIsGivenBack ==
    ASSUME ~Shared PROVE Spec => []EnclosingGivenBack
<1>1. Inv => EnclosingGivenBack
  BY DEF Inv, Nested, Given, Mine, EnclosingGivenBack
<1> QED
  BY <1>1, InvInit, InvNext, PTL DEF Spec

(* Whoever may close it, a batch is fixed from the moment its stage is     *)
(* closed: no branch that still holds the stage adds to what is applied.   *)
THEOREM BatchesAreFinal == Spec => BatchIsFinal
<1> DEFINE Kept == \A s \in Stage : stage[s].state = "closed" =>
                     stage'[s].staged = stage[s].staged
<1>1. Init => Shape
  BY InvInit DEF Inv
<1>2. ASSUME Shape, [Next]_svars PROVE [Kept]_svars
  <2> SUFFICES ASSUME NEW s \in Stage, stage[s].state = "closed", Next
               PROVE  stage'[s].staged = stage[s].staged
    BY <1>2
  <2>1. ASSUME NEW t \in Task, NEW r \in Stage, Begin(t, r)
        PROVE  stage'[s].staged = stage[s].staged
    BY <1>2, <2>1 DEF Begin, Shape
  <2>2. ASSUME NEW t \in Task, NEW r \in Stage, Finish(t, r)
        PROVE  stage'[s].staged = stage[s].staged
    <3>1. CASE \E how \in {"committing", "rolledBack"} : Close(t, r, how)
      <4>1. PICK how \in {"committing", "rolledBack"} : Close(t, r, how)
        BY <3>1
      <4>2. stage'[r].staged = stage[r].staged
        BY <1>2, <4>1 DEF Close, Shape, StageState
      <4>3. r # s => stage'[s] = stage[s]
        BY <1>2, <4>1 DEF Close, Shape
      <4> QED
        BY <4>2, <4>3
    <3>2. CASE CloseRefused(t, r)
      BY <1>2, <3>2 DEF CloseRefused, Shape, StageState
    <3> QED
      BY <2>2, <3>1, <3>2 DEF Finish
  <2>3. ASSUME NEW t \in Task, NEW k \in Key, NEW m \in Mutation, Write(t, k, m)
        PROVE  stage'[s].staged = stage[s].staged
    BY <1>2, <2>3, ShapeWrite DEF Shape
  <2>4. ASSUME NEW r \in Stage, Apply(r) \/ ApplyFails(r)
        PROVE  stage'[s].staged = stage[s].staged
    BY <1>2, <2>4 DEF Apply, ApplyFails, Shape, StageState
  <2>5. ASSUME NEW t \in Task, ListBegin(t) \/ ListEnd(t) \/ \E u \in Task : Spawn(t, u)
        PROVE  stage'[s].staged = stage[s].staged
    BY <2>5 DEF ListBegin, ListEnd, Spawn
  <2> QED
    BY <2>1, <2>2, <2>3, <2>4, <2>5 DEF Next, Act
<1> QED
  BY <1>1, <1>2, ShapeRest, PTL DEF Spec, BatchIsFinal

-----------------------------------------------------------------------------
(* Of whoever closes them: a stage that was begun stays begun, by the same *)
(* task and inside the same stage, and what it has staged is not unstaged. *)
LEMMA StageKept ==
    ASSUME Shape, [Next]_svars, NEW s \in Stage, stage[s].state # "unborn"
    PROVE  /\ stage'[s].state # "unborn"
           /\ stage'[s].owner = stage[s].owner /\ stage'[s].outer = stage[s].outer
           /\ stage[s].tx = "committed" => stage'[s].tx = "committed"
           /\ \A k \in Key : stage[s].staged[k] # "none" => stage'[s].staged[k] # "none"
<1> DEFINE Goal == /\ stage'[s].state # "unborn"
                   /\ stage'[s].owner = stage[s].owner /\ stage'[s].outer = stage[s].outer
                   /\ stage[s].tx = "committed" => stage'[s].tx = "committed"
                   /\ \A k \in Key : stage[s].staged[k] # "none" => stage'[s].staged[k] # "none"
<1>1. ASSUME stage'[s] = stage[s] PROVE Goal
  BY <1>1
<1>s. stage \in [Stage -> StageState] /\ stage[s] \in StageState
  BY DEF Shape
<1>2. ASSUME NEW t \in Task, NEW r \in Stage, Begin(t, r) PROVE Goal
  <2>1. r # s /\ stage'[s] = stage[s]
    BY <1>2, <1>s DEF Begin
  <2> QED
    BY <1>1, <2>1
<1>3. ASSUME NEW t \in Task, NEW r \in Stage, Finish(t, r) PROVE Goal
  <2>1. CASE r # s
    <3>1. stage'[s] = stage[s]
      BY <1>3, <1>s, <2>1 DEF Finish, Close, CloseRefused
    <3> QED
      BY <1>1, <3>1
  <2>2. CASE r = s
    <3>1. stage[s].tx = "begun"
      BY <1>3, <2>2 DEF Finish
    <3>2. CASE \E how \in {"committing", "rolledBack"} : Close(t, s, how)
      <4>1. PICK how \in {"committing", "rolledBack"} : Close(t, s, how)
        BY <3>2
      <4>2. stage'[s] = [stage[s] EXCEPT !.state = "closed", !.token = FALSE, !.tx = how]
        BY <1>s, <4>1 DEF Close
      <4> QED
        BY <1>s, <3>1, <4>2 DEF StageState
    <3>3. CASE CloseRefused(t, s)
      <4>1. stage'[s] = [stage[s] EXCEPT !.token = stage[s].token /\ open[t] # s]
        BY <1>s, <3>3 DEF CloseRefused
      <4> QED
        BY <1>s, <4>1 DEF StageState
    <3> QED
      BY <1>3, <2>2, <3>2, <3>3 DEF Finish
  <2> QED
    BY <2>1, <2>2
<1>4. ASSUME NEW t \in Task, NEW k \in Key, NEW m \in Mutation, Write(t, k, m) PROVE Goal
  <2>1. PICK c : c = Current(t)
    OBVIOUS
  <2>2. c \in Stage /\ stage' = [stage EXCEPT ![c].staged[k] = m] /\ m # "none"
    BY <1>4, <2>1, ShapeWrite DEF Write
  <2>3. CASE c # s
    <3>1. stage'[s] = stage[s]
      BY <1>s, <2>2, <2>3
    <3> QED
      BY <1>1, <3>1
  <2>4. CASE c = s
    <3>1. stage'[s] = [stage[s] EXCEPT !.staged = [stage[s].staged EXCEPT ![k] = m]]
      BY <1>s, <2>2, <2>4
    <3>2. stage[s].staged \in [Key -> Mutation]
      BY <1>s DEF StageState, Mutations
    <3>3. /\ stage'[s].state = stage[s].state /\ stage'[s].owner = stage[s].owner
          /\ stage'[s].outer = stage[s].outer /\ stage'[s].tx = stage[s].tx
          /\ stage'[s].staged = [stage[s].staged EXCEPT ![k] = m]
      BY <1>s, <3>1 DEF StageState
    <3>4. \A j \in Key : stage'[s].staged[j] \in {m, stage[s].staged[j]}
      BY <3>2, <3>3
    <3> QED
      BY <2>2, <3>3, <3>4
  <2> QED
    BY <2>3, <2>4
<1>5. ASSUME NEW r \in Stage, Apply(r) \/ ApplyFails(r) PROVE Goal
  <2>1. PICK h \in {"committed", "failed"} : stage' = [stage EXCEPT ![r].tx = h]
    BY <1>5 DEF Apply, ApplyFails
  <2>2. stage[r].tx = "committing"
    BY <1>5 DEF Apply, ApplyFails
  <2>3. CASE r # s
    <3>1. stage'[s] = stage[s]
      BY <1>s, <2>1, <2>3
    <3> QED
      BY <1>1, <3>1
  <2>4. CASE r = s
    <3>1. stage'[s] = [stage[s] EXCEPT !.tx = h]
      BY <1>s, <2>1, <2>4
    <3> QED
      BY <1>s, <2>2, <2>4, <3>1 DEF StageState
  <2> QED
    BY <2>3, <2>4
<1>6. ASSUME NEW t \in Task, ListBegin(t) \/ ListEnd(t) \/ \E u \in Task : Spawn(t, u) PROVE Goal
  BY <1>1, <1>6 DEF ListBegin, ListEnd, Spawn
<1>7. CASE UNCHANGED svars
  BY <1>1, <1>7 DEF svars
<1> QED
  BY <1>2, <1>3, <1>4, <1>5, <1>6, <1>7 DEF Next, Act

-----------------------------------------------------------------------------
(* What a task has open it began itself or came with, and so for the stage *)
(* that each of its stages was opened inside.                              *)
HeldBy(t, s) == s # None => stage[s].owner = t \/ inherited[t] = s

Contexts ==
    /\ \A t \in Task : Known(open[t]) /\ HeldBy(t, open[t])
    /\ \A s \in Stage :
        IF stage[s].state = "unborn" THEN stage[s].tx = "none"
        ELSE /\ stage[s].owner \in live
             /\ Known(stage[s].outer) /\ HeldBy(stage[s].owner, stage[s].outer)

(* What is committed, a transaction that has committed has saved.          *)
Committed ==
    /\ store \in [Key -> Value]
    /\ \A k \in Key : store[k] # None => stage[store[k]].tx = "committed"

LEMMA KnownKept ==
    ASSUME Shape, [Next]_svars, NEW s \in Value, Known(s)
    PROVE  Known(s)' /\ (s # None => stage'[s].owner = stage[s].owner)
<1>1. CASE s = None
  BY <1>1 DEF Known
<1>2. CASE s # None
  <2>1. s \in Stage /\ stage[s].state # "unborn"
    BY <1>2 DEF Known, Value
  <2>2. stage'[s].state # "unborn" /\ stage'[s].owner = stage[s].owner
    BY <2>1, StageKept
  <2> QED
    BY <2>2 DEF Known
<1> QED
  BY <1>1, <1>2

(* How the context of a task can change.                                   *)
LEMMA OpenStep ==
    ASSUME Shape, [Next]_svars, NEW t \in Task
    PROVE  \/ open'[t] = open[t] /\ inherited'[t] = inherited[t]
           \/ /\ t \notin live /\ open'[t] = inherited'[t]
              /\ \E q \in Task : open'[t] = open[q]
           \/ /\ inherited'[t] = inherited[t] /\ t \in live
              /\ \E s \in Stage : Begin(t, s)
           \/ /\ inherited'[t] = inherited[t] /\ open[t] \in Stage
              /\ stage[open[t]].owner = t /\ open'[t] = stage[open[t]].outer
<1> DEFINE Same == open'[t] = open[t] /\ inherited'[t] = inherited[t]
           Copied == /\ t \notin live /\ open'[t] = inherited'[t]
                     /\ \E q \in Task : open'[t] = open[q]
           Begins == /\ inherited'[t] = inherited[t] /\ t \in live
                     /\ \E s \in Stage : Begin(t, s)
           Closes == /\ inherited'[t] = inherited[t] /\ open[t] \in Stage
                     /\ stage[open[t]].owner = t /\ open'[t] = stage[open[t]].outer
<1>s. open \in [Task -> Value] /\ inherited \in [Task -> Value]
  BY DEF Shape
<1>1. ASSUME UNCHANGED <<open, inherited>> PROVE Same
  BY <1>1
<1>2. ASSUME NEW q \in Task, NEW u \in Task, Spawn(q, u) PROVE Same \/ Copied
  BY <1>2, <1>s DEF Spawn
<1>3. ASSUME NEW q \in Task, NEW s \in Stage, Begin(q, s) PROVE Same \/ Begins
  BY <1>3, <1>s DEF Begin, Ready
<1>4. ASSUME NEW q \in Task, NEW s \in Stage, Finish(q, s) PROVE Same \/ Closes
  <2>1. inherited' = inherited
    BY <1>4 DEF Finish
  <2>2. CASE CloseRefused(q, s)
    BY <2>1, <2>2 DEF CloseRefused
  <2>3. CASE \E how \in {"committing", "rolledBack"} : Close(q, s, how)
    <3>1. open[q] = s /\ stage[s].owner = q /\ open' = [open EXCEPT ![q] = stage[s].outer]
      BY <2>3 DEF Close, GivesBack
    <3> QED
      BY <1>s, <2>1, <3>1
  <2> QED
    BY <1>4, <2>2, <2>3 DEF Finish
<1>5. ASSUME NEW q \in Task, ListBegin(q) \/ ListEnd(q) PROVE Same
  BY <1>5 DEF ListBegin, ListEnd
<1>6. ASSUME NEW q \in Task, NEW k \in Key, NEW m \in Mutation, Write(q, k, m) PROVE Same
  BY <1>6 DEF Write
<1>7. ASSUME NEW s \in Stage, Apply(s) \/ ApplyFails(s) PROVE Same
  BY <1>7 DEF Apply, ApplyFails
<1>8. ASSUME UNCHANGED svars PROVE Same
  BY <1>8 DEF svars
<1>9. Act \/ UNCHANGED svars
  BY DEF Next
<1>10. Same \/ Copied \/ Begins \/ Closes
  <2> HIDE DEF Same, Copied, Begins, Closes
  <2>1. ASSUME Act PROVE Same \/ Copied \/ Begins \/ Closes
    BY <1>2, <1>3, <1>4, <1>5, <1>6, <1>7, <2>1 DEF Act
  <2> QED
    BY <1>8, <1>9, <2>1
<1> QED
  BY <1>10

(* Which steps change what. *)
LEMMA Changes ==
    ASSUME Next
    PROVE  /\ backend' = backend
           /\ (\E t, u \in Task : Spawn(t, u)) \/ UNCHANGED <<live, inherited>>
           /\ store' = store \/ \E s \in Stage : Apply(s)
           /\ list' = list \/ \E t \in Task : ListBegin(t) \/ ListEnd(t)
<1> DEFINE Spawns == \E t, u \in Task : Spawn(t, u)
           Applies == \E s \in Stage : Apply(s)
           Enumerates == \E t \in Task : ListBegin(t) \/ ListEnd(t)
           Goal == /\ backend' = backend
                   /\ Spawns \/ UNCHANGED <<live, inherited>>
                   /\ store' = store \/ Applies
                   /\ list' = list \/ Enumerates
<1>1. ASSUME Spawns PROVE UNCHANGED <<backend, store, list>>
  BY <1>1 DEF Spawn
<1>2. ASSUME Enumerates PROVE UNCHANGED <<backend, live, inherited, store>>
  BY <1>2 DEF ListBegin, ListEnd
<1>3. ASSUME Applies PROVE UNCHANGED <<backend, live, inherited, list>>
  BY <1>3 DEF Apply
<1>4. ASSUME NEW s \in Stage, ApplyFails(s) \/ \E t \in Task : Begin(t, s) \/ Finish(t, s)
      PROVE  UNCHANGED <<backend, live, inherited, store, list>>
  BY <1>4 DEF ApplyFails, Begin, Finish
<1>5. ASSUME NEW t \in Task, NEW k \in Key, NEW m \in Mutation, Write(t, k, m)
      PROVE  UNCHANGED <<backend, live, inherited, store, list>>
  BY <1>5 DEF Write
<1>6. Spawns \/ Enumerates \/ Applies \/ UNCHANGED <<backend, live, inherited, store, list>>
  BY <1>4, <1>5 DEF Next, Act
<1>7. Goal
  <2> HIDE DEF Spawns, Enumerates, Applies
  <2> QED
    BY <1>1, <1>2, <1>3, <1>6
<1> QED
  BY <1>7

(* A stage that is not begun stays so, or is begun now.                    *)
LEMMA UnbornStep ==
    ASSUME Shape, Contexts, [Next]_svars, NEW s \in Stage, stage[s].state = "unborn"
    PROVE  stage'[s] = stage[s] \/ \E t \in Task : Begin(t, s)
<1>s. stage \in [Stage -> StageState] /\ stage[s].tx = "none"
  BY DEF Shape, Contexts
<1>1. ASSUME NEW t \in Task, NEW r \in Stage, Begin(t, r)
      PROVE  stage'[s] = stage[s] \/ \E q \in Task : Begin(q, s)
  <2>1. CASE r = s
    BY <1>1, <2>1
  <2>2. CASE r # s
    BY <1>1, <1>s, <2>2 DEF Begin
  <2> QED
    BY <2>1, <2>2
<1>2. ASSUME NEW t \in Task, NEW r \in Stage, Finish(t, r) PROVE stage'[s] = stage[s]
  <2>1. r # s
    BY <1>2, <1>s DEF Finish
  <2> QED
    BY <1>2, <1>s, <2>1 DEF Finish, Close, CloseRefused
<1>3. ASSUME NEW t \in Task, NEW k \in Key, NEW m \in Mutation, Write(t, k, m)
      PROVE  stage'[s] = stage[s]
  <2>1. PICK c : c = Current(t)
    OBVIOUS
  <2>2. c \in Stage /\ stage' = [stage EXCEPT ![c].staged[k] = m]
    BY <1>3, <2>1, ShapeWrite
  <2>3. c = open[t] /\ Known(open[t])
    BY <2>1, <2>2, StagingAssumption DEF Current, Contexts
  <2>4. c # s
    BY <2>2, <2>3, StagingAssumption DEF Known
  <2> QED
    BY <1>s, <2>2, <2>4
<1>4. ASSUME NEW r \in Stage, Apply(r) \/ ApplyFails(r) PROVE stage'[s] = stage[s]
  <2>1. r # s
    BY <1>4, <1>s DEF Apply, ApplyFails
  <2> QED
    BY <1>4, <1>s, <2>1 DEF Apply, ApplyFails
<1>5. ASSUME NEW t \in Task, ListBegin(t) \/ ListEnd(t) \/ \E u \in Task : Spawn(t, u)
      PROVE  stage'[s] = stage[s]
  BY <1>5 DEF ListBegin, ListEnd, Spawn
<1>6. CASE UNCHANGED svars
  BY <1>6 DEF svars
<1> QED
  BY <1>1, <1>2, <1>3, <1>4, <1>5, <1>6 DEF Next, Act

LEMMA LiveKept ==
    ASSUME Shape, [Next]_svars, NEW t \in live
    PROVE  t \in live' /\ inherited'[t] = inherited[t]
<1>1. t \in Task
  BY DEF Shape
<1>2. ASSUME NEW q \in Task, NEW u \in Task, Spawn(q, u)
      PROVE  t \in live' /\ inherited'[t] = inherited[t]
  BY <1>1, <1>2 DEF Spawn, Shape
<1>3. (\E q, u \in Task : Spawn(q, u)) \/ UNCHANGED <<live, inherited>>
  BY Changes DEF svars
<1> QED
  BY <1>2, <1>3

LEMMA ContextsNext ==
    ASSUME Shape, Contexts, [Next]_svars PROVE Contexts'
<1>s. Shape' /\ open \in [Task -> Value] /\ stage \in [Stage -> StageState] /\ live \subseteq Task
  BY ShapeRest DEF Shape
<1>1. ASSUME NEW t \in Task PROVE Known(open[t])' /\ HeldBy(t, open[t])'
  <2>o. open[t] \in Value /\ Known(open[t]) /\ HeldBy(t, open[t])
    BY <1>s DEF Contexts
  <2>1. CASE open'[t] = open[t] /\ inherited'[t] = inherited[t]
    <3> PICK c : c = open[t]
      OBVIOUS
    <3>1. /\ stage'[c].state # "unborn" \/ c = None
          /\ c # None => stage'[c].owner = stage[c].owner
      BY <2>o, KnownKept DEF Known
    <3> QED
      BY <2>o, <2>1, <3>1 DEF Known, HeldBy
  <2>2. CASE t \notin live /\ open'[t] = inherited'[t] /\ \E q \in Task : open'[t] = open[q]
    <3>1. PICK q \in Task : open'[t] = open[q]
      BY <2>2
    <3> PICK c : c = open[q]
      OBVIOUS
    <3>2. c \in Value /\ Known(c)
      BY <1>s DEF Contexts
    <3>3. c # None => stage'[c].state # "unborn"
      BY <3>2, KnownKept DEF Known
    <3> QED
      BY <2>2, <3>1, <3>3 DEF Known, HeldBy
  <2>3. CASE \E s \in Stage : Begin(t, s)
    <3>1. PICK s \in Stage : Begin(t, s)
      BY <2>3
    <3>2. open'[t] = s /\ stage'[s].owner = t /\ stage'[s].state = "open"
      BY <1>s, <3>1 DEF Begin, Unborn
    <3> QED
      BY <3>2 DEF Known, HeldBy
  <2>4. CASE /\ inherited'[t] = inherited[t] /\ open[t] \in Stage
             /\ stage[open[t]].owner = t /\ open'[t] = stage[open[t]].outer
    <3> PICK s : s = open[t]
      OBVIOUS
    <3> PICK c : c = stage[s].outer
      OBVIOUS
    <3>1. s \in Stage /\ stage[s].state # "unborn" /\ stage[s].owner = t
      BY <2>o, <2>4, StagingAssumption DEF Known
    <3>2. Known(c) /\ HeldBy(t, c) /\ c \in Value
      BY <1>s, <3>1 DEF Contexts, StageState, Value
    <3>3. /\ c # None => stage'[c].state # "unborn"
          /\ c # None => stage'[c].owner = stage[c].owner
      BY <3>2, KnownKept DEF Known
    <3> QED
      BY <2>4, <3>2, <3>3 DEF Known, HeldBy
  <2> QED
    BY <2>1, <2>2, <2>3, <2>4, OpenStep
<1>2. ASSUME NEW s \in Stage, stage'[s].state = "unborn" PROVE stage'[s].tx = "none"
  <2>1. stage[s].state = "unborn"
    BY <1>2, StageKept
  <2>2. ~\E t \in Task : Begin(t, s)
    BY <1>2, <1>s DEF Begin, Unborn
  <2> QED
    BY <2>1, <2>2, UnbornStep DEF Contexts
<1>3. ASSUME NEW s \in Stage, stage'[s].state # "unborn"
      PROVE  /\ stage'[s].owner \in live'
             /\ Known(stage[s].outer)' /\ HeldBy(stage[s].owner, stage[s].outer)'
  <2>1. PICK w, c : w = stage'[s].owner /\ c = stage'[s].outer
    OBVIOUS
  <2>2. w \in live /\ c \in Value /\ Known(c) /\ HeldBy(w, c)
    <3>1. CASE stage[s].state # "unborn"
      BY <1>s, <2>1, <3>1, StageKept DEF Contexts, StageState, Value
    <3>2. CASE stage[s].state = "unborn"
      <4>1. PICK t \in Task : Begin(t, s)
        BY <1>3, <3>2, UnbornStep
      <4>2. stage'[s].owner = t /\ stage'[s].outer = open[t] /\ t \in live
        BY <1>s, <4>1 DEF Begin, Ready, Unborn
      <4> QED
        BY <1>s, <2>1, <4>2 DEF Contexts
    <3> QED
      BY <3>1, <3>2
  <2>3. w \in live' /\ inherited'[w] = inherited[w]
    BY <2>2, LiveKept
  <2>4. /\ c # None => stage'[c].state # "unborn"
        /\ c # None => stage'[c].owner = stage[c].owner
    BY <2>2, KnownKept DEF Known
  <2> QED
    BY <2>1, <2>2, <2>3, <2>4 DEF Known, HeldBy
<1> QED
  BY <1>1, <1>2, <1>3 DEF Contexts

LEMMA CommittedNext ==
    ASSUME Shape, Contexts, Committed, [Next]_svars PROVE Committed'
<1>s. stage \in [Stage -> StageState] /\ store \in [Key -> Value]
  BY DEF Shape, Committed
<1>1. ASSUME NEW v \in Value, v # None, stage[v].tx = "committed"
      PROVE  stage'[v].tx = "committed"
  <2>1. v \in Stage /\ stage[v].state # "unborn"
    BY <1>1 DEF Value, Contexts
  <2> QED
    BY <1>1, <2>1, StageKept
<1>2. CASE store' = store
  <2>1. ASSUME NEW k \in Key, store[k] # None PROVE stage'[store[k]].tx = "committed"
    <3> PICK v : v = store[k]
      OBVIOUS
    <3>1. v \in Value /\ v # None /\ stage[v].tx = "committed"
      BY <1>s, <2>1 DEF Committed
    <3> QED
      BY <1>1, <3>1
  <2> QED
    BY <1>2, <1>s, <2>1 DEF Committed
<1>3. ASSUME NEW s \in Stage, Apply(s) PROVE Committed'
  <2>1. /\ store' = Overlay(store, stage[s].staged, s)
        /\ stage'[s].tx = "committed" /\ s \in Value
    BY <1>3, <1>s DEF Apply, StageState, Value
  <2>2. store' \in [Key -> Value] /\ \A k \in Key : store'[k] \in {s, None, store[k]}
    BY <1>s, <2>1 DEF Overlay, Value
  <2>3. ASSUME NEW k \in Key, store'[k] # None PROVE stage'[store'[k]].tx = "committed"
    <3> PICK v : v = store'[k]
      OBVIOUS
    <3>1. v = s \/ (v \in Value /\ v # None /\ stage[v].tx = "committed")
      BY <1>s, <2>2, <2>3 DEF Committed
    <3> QED
      BY <1>1, <2>1, <3>1
  <2> QED
    BY <2>2, <2>3 DEF Committed
<1>4. store' = store \/ \E s \in Stage : Apply(s)
  BY Changes DEF svars
<1> QED
  BY <1>2, <1>3, <1>4

Sees == Shape /\ Contexts /\ Committed

LEMMA SeesInit == Init => Sees
<1> SUFFICES ASSUME Init PROVE Sees
  OBVIOUS
<1>1. Shape
  BY InvInit DEF Inv
<1>2. \A s \in Stage : stage[s].state = "unborn" /\ stage[s].tx = "none"
  BY DEF Init, Unborn
<1> QED
  BY <1>1, <1>2 DEF Init, Sees, Contexts, Committed, Known, HeldBy, Value

LEMMA SeesNext == Sees /\ [Next]_svars => Sees'
BY ShapeRest, ContextsNext, CommittedNext DEF Sees

(* What a task reads is committed, or staged in a stage that is open and   *)
(* that it, or the task it comes from, began, whoever may close it: never  *)
(* from a batch that was rolled back or is being written (staging.py).     *)
THEOREM ReadsAreNotDiscarded == Spec => []NoDiscardedRead
<1>1. ASSUME Sees, NEW t \in Task, NEW k \in Key, Seen(t)[k] # None
      PROVE  \/ stage[Seen(t)[k]].tx = "committed"
             \/ /\ stage[Seen(t)[k]].state = "open"
                /\ open[t] = Seen(t)[k]
                /\ stage[Seen(t)[k]].owner = t \/ inherited[t] = Seen(t)[k]
  <2>1. Seen(t)[k] = CASE StagedBy(Current(t))[k] = "save" -> Current(t)
                       [] StagedBy(Current(t))[k] = "delete" -> None
                       [] OTHER -> store[k]
    BY DEF Seen, Overlay
  <2>2. CASE Seen(t)[k] = store[k]
    BY <1>1, <2>2 DEF Sees, Committed
  <2>3. CASE Seen(t)[k] = Current(t)
    <3>1. PICK c : c = Current(t)
      OBVIOUS
    <3>2. c \in Stage /\ c = open[t] /\ stage[c].state # "closed"
      BY <1>1, <2>3, <3>1, StagingAssumption DEF Current, Sees, Shape, Value
    <3>3. stage[c].state = "open" /\ (stage[c].owner = t \/ inherited[t] = c)
      BY <3>2, StagingAssumption, <1>1 DEF Sees, Contexts, Shape, StageState, Known, HeldBy
    <3> QED
      BY <2>3, <3>1, <3>2, <3>3
  <2> QED
    BY <1>1, <2>1, <2>2, <2>3
<1>2. Sees => NoDiscardedRead
  BY <1>1 DEF NoDiscardedRead
<1> QED
  BY <1>2, SeesInit, SeesNext, PTL DEF Spec

-----------------------------------------------------------------------------
(* Enumerations.  Halfway, what was read at the start has been met, and    *)
(* what was staged at the start either has been met too or is still staged.*)
Halfway(t) ==
    /\ list[t].held \in Value /\ Known(list[t].held)
    /\ Met(t) \subseteq window[t]
    /\ backend = "sqlite" =>
        \A k \in Key :
            /\ list[t].staged[k] = "none" => k \notin list[t].own
            /\ list[t].staged[k] = "save" => <<k, list[t].held>> \in window[t]
            /\ list[t].staged[k] = "delete" => <<k, None>> \in window[t]
    /\ backend = "file" =>
        \A k \in Key : IF k \in list[t].own THEN StagedBy(list[t].held)[k] # "none"
                       ELSE <<k, list[t].committed[k]>> \in window[t]

Listed(t) ==
    /\ list[t].state = "half" => Halfway(t)
    /\ list[t].state = "done" => \A k \in Key : <<k, list[t].committed[k]>> \in window[t]

Lists ==
    /\ backend \in {"file", "sqlite"}
    /\ list \in [Task -> ListState]
    /\ \A t \in Task : Listed(t)

(* What the history keeps of an enumeration. *)
LEMMA WindowStep ==
    ASSUME Next, NEW t \in Task
    PROVE  /\ list'[t].state = "half" => Met(t)' \subseteq window'[t]
           /\ list[t].state = "half" /\ list'[t].state # "torn" => window[t] \subseteq window'[t]
           /\ list'[t].state = "done" => window'[t] = window[t]
<1>1. window'[t] = CASE list'[t].state = "half" ->
                           Met(t)' \cup IF list[t].state = "half" THEN window[t] ELSE {}
                     [] list'[t].state = "torn" -> {}
                     [] OTHER -> window[t]
  BY DEF Next
<1> PICK met : met = Met(t)'
  OBVIOUS
<1>2. window'[t] = CASE list'[t].state = "half" ->
                           met \cup IF list[t].state = "half" THEN window[t] ELSE {}
                     [] list'[t].state = "torn" -> {}
                     [] OTHER -> window[t]
  BY <1>1
<1>3. CASE list'[t].state = "half"
  BY <1>2, <1>3
<1>4. CASE list'[t].state = "torn"
  BY <1>2, <1>4
<1>5. CASE list'[t].state \notin {"half", "torn"}
  <2>1. window'[t] = window[t]
    BY <1>2, <1>5
  <2> QED
    BY <1>5, <2>1
<1> QED
  BY <1>3, <1>4, <1>5

LEMMA StagedByType ==
    ASSUME Shape, NEW s \in Value
    PROVE  /\ StagedBy(s) \in Mutations
           /\ \A k \in Key : StagedBy(s)[k] \in Mutation
<1>1. CASE s = None
  BY <1>1 DEF StagedBy, Untouched, Mutations, Mutation
<1>2. CASE s # None
  BY <1>2 DEF StagedBy, Shape, Value, StageState, Mutations
<1> QED
  BY <1>1, <1>2

LEMMA CurrentType ==
    ASSUME Shape, Contexts, NEW t \in Task
    PROVE  Current(t) \in Value /\ Known(Current(t))
BY DEF Shape, Contexts, Current, Known, Value

LEMMA OverlayOf ==
    ASSUME NEW recs, NEW muts, NEW s, NEW k \in Key, muts[k] \in Mutation
    PROVE  /\ muts[k] = "none" => Overlay(recs, muts, s)[k] = recs[k]
           /\ muts[k] = "save" => Overlay(recs, muts, s)[k] = s
           /\ muts[k] = "delete" => Overlay(recs, muts, s)[k] = None
BY DEF Overlay

(* An enumeration that another task's step does not touch.                 *)
LEMMA ListedKept ==
    ASSUME Sees, Lists, Next, backend' = backend, NEW t \in Task, list'[t] = list[t]
    PROVE  Listed(t)'
<1>1. Listed(t) /\ list[t] \in ListState
  BY DEF Lists
<1>2. CASE list[t].state = "half"
  <2> PICK l : l = list[t]
    OBVIOUS
  <2>1. /\ Halfway(t) /\ window[t] \subseteq window'[t] /\ Met(t)' \subseteq window'[t]
        /\ list'[t] = l
    BY <1>1, <1>2, WindowStep DEF Listed
  <2>2. l.held \in Value /\ Known(l.held)
    BY <2>1 DEF Halfway
  <2>3. l.held # None => stage'[l.held].state # "unborn"
    BY <2>2, KnownKept DEF Known, Sees
  <2>4. ASSUME NEW k \in Key, StagedBy(l.held)[k] # "none" PROVE StagedBy(l.held)'[k] # "none"
    <3>1. l.held # None /\ l.held \in Stage /\ stage[l.held].staged[k] # "none"
      BY <2>2, <2>4 DEF StagedBy, Untouched, Value
    <3>2. stage'[l.held].staged[k] # "none"
      BY <2>2, <3>1, StageKept DEF Known, Sees
    <3> QED
      BY <3>1, <3>2 DEF StagedBy
  <2>5. /\ list'[t].held \in Value /\ (list'[t].held # None => stage'[list'[t].held].state # "unborn")
        /\ Met(t)' \subseteq window'[t]
    BY <2>1, <2>2, <2>3
  <2>6. ASSUME backend = "sqlite", NEW k \in Key
        PROVE  /\ l.staged[k] = "none" => k \notin l.own
               /\ l.staged[k] = "save" => <<k, l.held>> \in window'[t]
               /\ l.staged[k] = "delete" => <<k, None>> \in window'[t]
    BY <2>1, <2>6 DEF Halfway
  <2>7. ASSUME backend = "file", NEW k \in Key
        PROVE  IF k \in l.own THEN StagedBy(l.held)'[k] # "none"
               ELSE <<k, l.committed[k]>> \in window'[t]
    BY <2>1, <2>4, <2>7 DEF Halfway
  <2>8. StagedBy(list[t].held)' = StagedBy(l.held)'
    BY <2>1 DEF StagedBy
  <2>9. Halfway(t)'
    BY <2>1, <2>5, <2>6, <2>7, <2>8 DEF Halfway, Known
  <2> QED
    BY <1>2, <2>9 DEF Listed
<1>3. CASE list[t].state = "done"
  BY <1>1, <1>3, WindowStep DEF Listed
<1>4. CASE list[t].state \notin {"half", "done"}
  BY <1>4 DEF Listed
<1> QED
  BY <1>2, <1>3, <1>4

LEMMA ListedBegin ==
    ASSUME Sees, Lists, Next, NEW t \in Task, ListBegin(t)
    PROVE  list' \in [Task -> ListState] /\ Listed(t)'
<1> PICK c : c = Current(t)
  OBVIOUS
<1> PICK muts : muts = StagedBy(c)
  OBVIOUS
<1> DEFINE own == {k \in Key : muts[k] # "none"}
           recs == IF backend = "file" THEN store ELSE [k \in Key |-> None]
           held == IF backend = "sqlite" THEN muts ELSE Untouched
           l == [Unlisted EXCEPT !.state = "half", !.held = c, !.own = own,
                                 !.committed = recs, !.staged = held]
<1>1. c \in Value /\ Known(c) /\ muts \in Mutations /\ \A k \in Key : muts[k] \in Mutation
  BY CurrentType, StagedByType DEF Sees
<1>2. Unlisted.committed = [k \in Key |-> None] /\ Unlisted.staged = Untouched
  BY DEF Unlisted
<1>3. list' = [list EXCEPT ![t] = l] /\ UNCHANGED <<backend, open, stage, store>>
  BY <1>2 DEF ListBegin
<1>4. recs \in [Key -> Value] /\ held \in Mutations
  BY <1>1 DEF Sees, Committed, Value, Untouched, Mutations, Mutation
<1>5. l \in ListState
  BY <1>1, <1>4 DEF ListState, Unlisted, Value
<1>6. l.state = "half" /\ l.held = c /\ l.own = own /\ l.committed = recs /\ l.staged = held
  BY DEF Unlisted
<1> HIDE DEF l
<1>7. list' \in [Task -> ListState] /\ list'[t] = l
  BY <1>3, <1>5 DEF Lists
<1>8. Met(t)' \subseteq window'[t]
  BY <1>6, <1>7, WindowStep
<1>9. Current(t)' = c /\ StagedBy(c)' = muts /\ Seen(t)' = Overlay(store, muts, c)
  BY <1>3 DEF Current, StagedBy, Seen
<1>10. \A k \in Key : /\ <<k, Overlay(store, muts, c)[k]>> \in window'[t]
                      /\ k \notin own => <<k, store[k]>> \in window'[t]
  <2> TAKE k \in Key
  <2>1. <<k, Seen(t)'[k]>> \in Met(t)'
    BY DEF Met
  <2>2. k \notin own => <<k, store[k]>> \in Met(t)'
    BY <1>3, <1>6, <1>7 DEF Met
  <2> QED
    BY <1>8, <1>9, <2>1, <2>2
<1>11. ASSUME backend = "sqlite", NEW k \in Key
       PROVE  /\ muts[k] = "none" => k \notin own
              /\ muts[k] = "save" => <<k, c>> \in window'[t]
              /\ muts[k] = "delete" => <<k, None>> \in window'[t]
  <2>1. /\ muts[k] = "save" => Overlay(store, muts, c)[k] = c
        /\ muts[k] = "delete" => Overlay(store, muts, c)[k] = None
    BY <1>1, <1>11, OverlayOf
  <2>2. <<k, Overlay(store, muts, c)[k]>> \in window'[t]
    BY <1>10, <1>11
  <2> QED
    BY <2>1, <2>2
<1>12. c # None => stage'[c].state # "unborn"
  BY <1>1, <1>3 DEF Known
<1>13. StagedBy(list[t].held)' = muts
  BY <1>6, <1>7, <1>9 DEF StagedBy
<1>14. Halfway(t)'
  BY <1>1, <1>3, <1>6, <1>7, <1>8, <1>10, <1>11, <1>12, <1>13 DEF Halfway, Known
<1> QED
  BY <1>6, <1>7, <1>14 DEF Listed

LEMMA ListedEnd ==
    ASSUME Sees, Lists, Next, NEW t \in Task, ListEnd(t)
    PROVE  list' \in [Task -> ListState] /\ Listed(t)'
<1> PICK c, l : c = Current(t) /\ l = list[t]
  OBVIOUS
<1> DEFINE recs == IF backend = "sqlite" THEN store ELSE l.committed
           muts == IF backend = "file" THEN StagedBy(c) ELSE l.staged
           done == [Unlisted EXCEPT !.state = "done", !.committed = Overlay(recs, muts, l.held)]
           torn == [Unlisted EXCEPT !.state = "torn"]
<1>1. /\ l \in ListState /\ l.state = "half" /\ Halfway(t)
      /\ store \in [Key -> Value] /\ c \in Value
  BY CurrentType DEF ListEnd, Lists, Listed, Sees, Committed
<1>2. list' = [list EXCEPT ![t] = IF c = l.held THEN done ELSE torn]
  BY DEF ListEnd
<1>3. recs \in [Key -> Value] /\ muts \in Mutations /\ \A k \in Key : muts[k] \in Mutation
  BY <1>1, StagedByType DEF ListState, Sees, Mutations
<1> HIDE DEF recs, muts
<1>4. Overlay(recs, muts, l.held) \in [Key -> Value]
  BY <1>1, <1>3 DEF Overlay, ListState, Value
<1>5. Unlisted \in ListState
  BY DEF Unlisted, ListState, Value, Untouched, Mutations, Mutation
<1>6. done \in ListState /\ torn \in ListState
  BY <1>4, <1>5 DEF ListState
<1>7. done.state = "done" /\ done.committed = Overlay(recs, muts, l.held) /\ torn.state = "torn"
  BY DEF Unlisted
<1> HIDE DEF done, torn
<1>8. list' \in [Task -> ListState] /\ list'[t] = IF c = l.held THEN done ELSE torn
  BY <1>2, <1>6 DEF Lists
<1>9. CASE c # l.held
  BY <1>7, <1>8, <1>9 DEF Listed
<1>10. CASE c = l.held
  <2>1. window'[t] = window[t]
    BY <1>7, <1>8, <1>10, WindowStep
  <2>2. ASSUME NEW k \in Key PROVE <<k, Overlay(recs, muts, l.held)[k]>> \in window[t]
    <3>1. /\ <<k, Overlay(store, StagedBy(c), c)[k]>> \in window[t]
          /\ k \notin l.own => <<k, store[k]>> \in window[t]
      BY <1>1 DEF Halfway, Met, Seen
    <3>2. CASE backend = "sqlite"
      <4>1. recs = store /\ muts = l.staged
        BY <3>2 DEF recs, muts
      <4>2. /\ muts[k] = "none" => k \notin l.own
            /\ muts[k] = "save" => <<k, l.held>> \in window[t]
            /\ muts[k] = "delete" => <<k, None>> \in window[t]
        BY <1>1, <3>2, <4>1 DEF Halfway
      <4> QED
        BY <1>3, <3>1, <4>1, <4>2, OverlayOf DEF Mutation
    <3>3. CASE backend = "file"
      <4>1. recs = l.committed /\ muts = StagedBy(c)
        BY <3>3 DEF recs, muts
      <4>2. IF k \in l.own THEN muts[k] # "none" ELSE <<k, recs[k]>> \in window[t]
        BY <1>1, <1>10, <3>3, <4>1 DEF Halfway
      <4>3. CASE muts[k] = "none"
        BY <1>3, <4>2, <4>3, OverlayOf
      <4>4. CASE muts[k] # "none"
        <5>1. Overlay(recs, muts, l.held)[k] = Overlay(store, muts, c)[k]
          BY <1>3, <1>10, <4>4, OverlayOf DEF Mutation
        <5> QED
          BY <3>1, <4>1, <5>1
      <4> QED
        BY <4>3, <4>4
    <3> QED
      BY <3>2, <3>3 DEF Lists
  <2> QED
    BY <1>7, <1>8, <1>10, <2>1, <2>2 DEF Listed
<1> QED
  BY <1>9, <1>10

LEMMA ListsNext ==
    ASSUME Sees, Lists, [Next]_svars PROVE Lists'
<1>1. CASE Next
  <2>1. backend' = backend
    BY <1>1, Changes
  <2>2. CASE list' = list
    BY <1>1, <2>1, <2>2, ListedKept DEF Lists
  <2>3. ASSUME NEW t \in Task, ListBegin(t) \/ ListEnd(t) PROVE Lists'
    <3>1. list' \in [Task -> ListState] /\ Listed(t)'
      BY <1>1, <2>3, ListedBegin, ListedEnd
    <3>2. ASSUME NEW u \in Task, u # t PROVE Listed(u)'
      <4>1. list'[u] = list[u]
        BY <2>3, <3>2 DEF ListBegin, ListEnd, Lists
      <4> QED
        BY <1>1, <2>1, <4>1, ListedKept
    <3> QED
      BY <2>1, <3>1, <3>2 DEF Lists
  <2>4. list' = list \/ \E t \in Task : ListBegin(t) \/ ListEnd(t)
    BY <1>1, Changes
  <2> QED
    BY <2>2, <2>3, <2>4
<1>2. CASE UNCHANGED svars
  <2>1. UNCHANGED <<backend, live, inherited, open, stage, store, list, window>>
    BY <1>2 DEF svars
  <2> QED
    BY <2>1 DEF Lists, Listed, Halfway, Met, Seen, Current, StagedBy, Known
<1> QED
  BY <1>1, <1>2

LEMMA ListsInit == Init => Lists
<1> SUFFICES ASSUME Init PROVE Lists
  OBVIOUS
<1>1. Unlisted \in ListState /\ Unlisted.state = "none"
  BY DEF Unlisted, ListState, Value, Untouched, Mutations, Mutation
<1> QED
  BY <1>1 DEF Init, Lists, Listed

(* Whoever may close the transactions: every record that an enumeration    *)
(* returns was there for its caller at some moment of it, whichever of the *)
(* repositories enumerates (_interfaces.py, executions).                   *)
THEOREM ListedWasThere == Spec => []ListedWasVisible
<1>1. Lists => ListedWasVisible
  BY DEF Lists, Listed, ListedWasVisible
<1>2. Sees /\ Lists /\ [Next]_svars => (Sees /\ Lists)'
  BY SeesNext, ListsNext
<1> QED
  BY <1>1, <1>2, SeesInit, ListsInit, PTL DEF Spec

LEMMA MetType == Sees => \A t \in Task : Met(t) \subseteq Key \X Value
<1> SUFFICES ASSUME Sees, NEW t \in Task PROVE Met(t) \subseteq Key \X Value
  OBVIOUS
<1>1. Current(t) \in Value /\ store \in [Key -> Value]
  BY CurrentType DEF Sees, Committed
<1>2. \A k \in Key : Seen(t)[k] \in Value
  BY <1>1 DEF Seen, Overlay, Value
<1> QED
  BY <1>1, <1>2 DEF Met

(* Every state has its type, whoever closes the transactions (Staging).    *)
THEOREM StagingTypes == Spec => []TypeOK
<1> DEFINE Windows == window \in [Task -> SUBSET (Key \X Value)]
           Types == Sees /\ Lists /\ Windows
<1>1. ASSUME Types, Next PROVE Windows'
  <2>1. Sees'
    BY <1>1, SeesNext
  <2>2. (\A t \in Task : Met(t) \subseteq Key \X Value)'
    BY <2>1, MetType, PTL
  <2> QED
    BY <1>1, <2>2 DEF Next
<1>2. Types /\ [Next]_svars => Types'
  <2> SUFFICES ASSUME Types, [Next]_svars PROVE Types'
    OBVIOUS
  <2>1. CASE UNCHANGED svars
    BY <2>1, SeesNext, ListsNext DEF svars
  <2> QED
    BY <1>1, <2>1, SeesNext, ListsNext
<1>3. Init => Types
  BY SeesInit, ListsInit DEF Init
<1>4. Types => TypeOK
  BY DEF Sees, Shape, Committed, Lists, TypeOK
<1> QED
  BY <1>2, <1>3, <1>4, PTL DEF Spec

=============================================================================
