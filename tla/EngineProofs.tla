---------------------------- MODULE EngineProofs ----------------------------
(***************************************************************************)
(* Engine, for every number of attempts, runs, contents, keys and depths.  *)
(***************************************************************************)
EXTENDS Engine, SequenceTheorems, TLAPS

-----------------------------------------------------------------------------
(* An identity is a non-empty sequence of at most MaxDepth frames. *)
LEMMA IdIsSeq ==
    ASSUME NEW i \in Id
    PROVE  i \in Seq(Frame) /\ Len(i) \in 1..MaxDepth
<1>1. PICK n \in 1..MaxDepth : i \in [1..n -> Frame]
  BY DEF Id
<1> QED
  BY <1>1, EngineAssumption

LEMMA SeqIsId ==
    ASSUME NEW i \in Seq(Frame), Len(i) \in 1..MaxDepth
    PROVE  i \in Id
<1>1. i \in [1..Len(i) -> Frame]
  BY LenProperties
<1> QED
  BY <1>1 DEF Id

(* A frame appended to a parent that is not at the bound is an identity. *)
LEMMA AppendIsId ==
    ASSUME NEW p \in Id \cup {Root}, Len(p) < MaxDepth, NEW f \in Frame
    PROVE  Append(p, f) \in Id
<1>1. p \in Seq(Frame) /\ Len(p) \in 0..MaxDepth
  <2>1. CASE p \in Id
    BY <2>1, IdIsSeq, EngineAssumption
  <2>2. CASE p = Root
    BY <2>2, EmptySeq, EngineAssumption DEF Root
  <2> QED
    BY <2>1, <2>2
<1>2. Append(p, f) \in Seq(Frame) /\ Len(Append(p, f)) = Len(p) + 1
  BY <1>1, AppendProperties
<1>3. Len(Append(p, f)) \in 1..MaxDepth
  BY <1>1, <1>2, EngineAssumption
<1> QED
  BY <1>2, <1>3, SeqIsId

(* The ordinal a call takes makes a frame, and the frame an identity. *)
LEMMA NextIdIsId ==
    ASSUME TypeOK, NEW r \in Run, NEW c \in Content, NEW p \in Id \cup {Root},
           Len(p) < MaxDepth, counter[r][<<p, c>>] < MaxOrdinal
    PROVE  /\ <<p, c>> \in Scope
           /\ counter[r][<<p, c>>] \in 0..(MaxOrdinal - 1)
           /\ NextId(r, p, c) \in Id
<1>1. <<p, c>> \in Scope
  BY DEF Scope
<1>2. counter[r][<<p, c>>] \in 0..(MaxOrdinal - 1)
  BY <1>1, EngineAssumption DEF TypeOK
<1>3. [content |-> c, seq |-> counter[r][<<p, c>>]] \in Frame
  BY <1>2 DEF Frame
<1> QED
  BY <1>1, <1>2, <1>3, AppendIsId DEF NextId

-----------------------------------------------------------------------------
(* The records the actions write are records. *)
LEMMA RecordShapes ==
    /\ Absent \in Record /\ Started \in Record
    /\ \A rec \in Record, a \in Attempt : Complete(rec, a) \in Record
    /\ \A rec \in Record, k \in Key : SetMetadata(rec, k) \in Record
<1> USE DEF Record, Status
<1>1. Absent \in Record /\ Started \in Record
  BY DEF Absent, Started
<1>2. ASSUME NEW rec \in Record, NEW a \in Attempt
      PROVE  Complete(rec, a) \in Record
  BY DEF Complete
<1>3. ASSUME NEW rec \in Record, NEW k \in Key
      PROVE  SetMetadata(rec, k) \in Record
  BY DEF SetMetadata
<1> QED
  BY <1>1, <1>2, <1>3

LEMMA IdleShape == Idle \in AttemptState
BY RecordShapes DEF Idle, AttemptState

(* Changing the locals of one attempt within their types keeps the type. *)
LEMMA LeaveShape ==
    ASSUME att \in [Attempt -> AttemptState], NEW a \in Attempt,
           NEW end \in Ended, NEW ret \in Attempt \cup {None}
    PROVE  Leave(a, end, ret) \in [Attempt -> AttemptState]
<1> DEFINE new == [att[a] EXCEPT !.pc = end, !.ret = ret, !.staged = Absent,
                                 !.found = Absent, !.doomed = {}]
<1>1. att[a] \in AttemptState /\ Absent \in Record
  BY RecordShapes
<1>2. new \in AttemptState
  BY <1>1 DEF AttemptState
<1>3. Leave(a, end, ret) = [att EXCEPT ![a] = new]
  BY DEF Leave
<1> HIDE DEF new
<1> QED
  BY <1>2, <1>3

LEMMA PersistShape ==
    ASSUME TypeOK, NEW a \in Attempt, att[a].id \in Id
    PROVE  Persist(a) \in [Id -> Record]
BY DEF Persist, TypeOK, AttemptState

LEMMA VisibleShape ==
    ASSUME TypeOK, NEW a \in Attempt, att[a].id \in Id
    PROVE  Visible(a) \in Record
BY DEF Visible, TypeOK, AttemptState

-----------------------------------------------------------------------------
(* TypeOK alone is not inductive: an attempt that has begun must also have *)
(* the identity and the run whose records and counters its steps address.  *)
Identified ==
    \A a \in Attempt : att[a].pc # "idle" \/ a \in entered =>
        att[a].id \in Id /\ att[a].run \in Run

Typed == TypeOK /\ Identified

LEMMA TypedInit == Init => Typed
<1> SUFFICES ASSUME Init PROVE Typed
  OBVIOUS
<1>1. counter \in [Run -> [Scope -> 0..MaxOrdinal]]
  BY EngineAssumption DEF Init
<1>2. att \in [Attempt -> AttemptState] /\ Identified
  BY IdleShape DEF Init, Identified, Idle
<1>3. setter \in [Attempt -> [Key -> SetterState]]
  BY RecordShapes DEF Init, Unset, SetterState
<1> QED
  BY <1>1, <1>2, <1>3, RecordShapes DEF Init, Typed, TypeOK

(* What the steps of one attempt have in common: the locals of a change    *)
(* within their types, and it keeps its identity and its run.              *)
LEMMA TypedLocals ==
    ASSUME Typed, NEW a \in Attempt, NEW new \in AttemptState,
           att[a].pc # "idle" \/ a \in entered,
           new.id = att[a].id, new.run = att[a].run,
           att' = [att EXCEPT ![a] = new], entered' \subseteq entered \cup {a}
    PROVE  att' \in [Attempt -> AttemptState] /\ Identified'
BY DEF Typed, TypeOK, Identified

LEMMA TypedGoto ==
    ASSUME Typed, NEW a \in Attempt, att[a].pc # "idle", NEW pc \in Live,
           att' = Goto(a, pc), entered' \subseteq entered \cup {a}
    PROVE  att' \in [Attempt -> AttemptState] /\ Identified'
<1> DEFINE new == [att[a] EXCEPT !.pc = pc]
<1>1. att[a] \in AttemptState
  BY DEF Typed, TypeOK
<1>2. new \in AttemptState /\ new.id = att[a].id /\ new.run = att[a].run
  BY <1>1 DEF AttemptState
<1>3. att' = [att EXCEPT ![a] = new]
  BY DEF Goto
<1> HIDE DEF new
<1> QED
  BY <1>2, <1>3, TypedLocals

LEMMA TypedStage ==
    ASSUME Typed, NEW a \in Attempt, att[a].pc # "idle", NEW pc \in Live,
           NEW rec \in Record, att' = Stage(a, pc, rec),
           entered' \subseteq entered \cup {a}
    PROVE  att' \in [Attempt -> AttemptState] /\ Identified'
<1> DEFINE new == [att[a] EXCEPT !.pc = pc, !.staged = rec]
<1>1. att[a] \in AttemptState
  BY DEF Typed, TypeOK
<1>2. new \in AttemptState /\ new.id = att[a].id /\ new.run = att[a].run
  BY <1>1 DEF AttemptState
<1>3. att' = [att EXCEPT ![a] = new]
  BY DEF Stage
<1> HIDE DEF new
<1> QED
  BY <1>2, <1>3, TypedLocals

LEMMA TypedLeave ==
    ASSUME Typed, NEW a \in Attempt, att[a].pc # "idle", NEW end \in Ended,
           NEW ret \in Attempt \cup {None}, att' = Leave(a, end, ret),
           entered' = entered
    PROVE  att' \in [Attempt -> AttemptState] /\ Identified'
<1>1. att \in [Attempt -> AttemptState]
  BY DEF Typed, TypeOK
<1>2. att' \in [Attempt -> AttemptState]
  BY <1>1, LeaveShape
<1>3. \A b \in Attempt : att'[b].id = att[b].id /\ att'[b].run = att[b].run
                         /\ (att[b].pc = "idle" => att'[b].pc = "idle")
  BY <1>1 DEF Leave, AttemptState
<1> QED
  BY <1>2, <1>3 DEF Typed, Identified

LEMMA TypedRuns ==
    ASSUME Typed, NEW r \in Run, OpenRun(r) \/ CloseRun(r) \/ Crash(r)
    PROVE  Typed'
<1> USE DEF Typed, TypeOK, Identified
<1>1. CASE OpenRun(r)
  <2>1. [s \in Scope |-> 0] \in [Scope -> 0..MaxOrdinal]
    BY EngineAssumption
  <2> QED
    BY <1>1, <2>1 DEF OpenRun, history
<1>2. CASE CloseRun(r)
  BY <1>2 DEF CloseRun, history
<1>3. CASE Crash(r)
  <2>1. \A a \in Attempt : Leave(a, "crashed", None) \in [Attempt -> AttemptState]
    BY LeaveShape DEF Ended
  <2>2. att' \in [Attempt -> AttemptState]
    BY <1>3, <2>1 DEF Crash
  <2>3. \A a \in Attempt : /\ Leave(a, "crashed", None)[a].id = att[a].id
                           /\ Leave(a, "crashed", None)[a].run = att[a].run
    BY DEF Leave, AttemptState
  <2>4. ASSUME NEW a \in Attempt
        PROVE  /\ att'[a].id = att[a].id
               /\ att'[a].run = att[a].run
               /\ (att'[a].pc # "idle" => att[a].pc # "idle")
    <3>1. CASE att[a].run = r /\ IsLive(a)
      <4>1. att'[a] = Leave(a, "crashed", None)[a]
        BY <1>3, <3>1 DEF Crash
      <4>2. att[a].pc # "idle"
        BY <3>1 DEF IsLive, Live, StageOpen
      <4> QED
        BY <2>3, <4>1, <4>2
    <3>2. CASE ~(att[a].run = r /\ IsLive(a))
      <4>1. att'[a] = att[a]
        BY <1>3, <3>2 DEF Crash
      <4> QED
        BY <4>1
    <3> QED
      BY <3>1, <3>2
  <2>5. Identified'
    BY <1>3, <2>4 DEF Crash, history
  <2> QED
    BY <1>3, <2>2, <2>5 DEF Crash, history
<1> QED
  BY <1>1, <1>2, <1>3

LEMMA TypedEnter ==
    ASSUME Typed, NEW a \in Attempt, NEW r \in Run, NEW c \in Content,
           NEW caller \in Attempt \cup {None}, NEW p \in Id \cup {Root},
           Enter(a, r, caller, p, c)
    PROVE  Typed'
<1> DEFINE new == [Idle EXCEPT !.pc = "check", !.run = r,
                               !.id = NextId(r, p, c), !.caller = caller]
<1>1. /\ <<p, c>> \in Scope
      /\ counter[r][<<p, c>>] \in 0..(MaxOrdinal - 1)
      /\ NextId(r, p, c) \in Id
  BY NextIdIsId DEF Enter, Typed
<1>2. new \in AttemptState /\ new.id \in Id /\ new.run = r
  BY <1>1, IdleShape DEF Idle, AttemptState, Live
<1>3. att' = [att EXCEPT ![a] = new]
  BY DEF Enter
<1>4. counter' \in [Run -> [Scope -> 0..MaxOrdinal]]
  <2>1. counter[r][<<p, c>>] + 1 \in 0..MaxOrdinal
    BY <1>1, EngineAssumption
  <2> QED
    BY <1>1, <2>1 DEF Enter, Typed, TypeOK
<1> HIDE DEF new
<1>5. att' \in [Attempt -> AttemptState]
  BY <1>2, <1>3 DEF Typed, TypeOK
<1>6. Identified'
  <2>1. entered' = entered
    BY DEF Enter, history
  <2>2. \A b \in Attempt : b # a => att'[b] = att[b]
    BY <1>3 DEF Typed, TypeOK
  <2>3. att'[a] = new
    BY <1>3 DEF Typed, TypeOK
  <2> QED
    BY <1>2, <2>1, <2>2, <2>3 DEF Typed, Identified
<1> QED
  BY <1>4, <1>5, <1>6 DEF Enter, Typed, TypeOK, history

LEMMA TypedCheck ==
    ASSUME Typed, NEW a \in Attempt, Check(a) PROVE Typed'
<1>1. store[att[a].id].result \in Attempt \cup {None}
  BY DEF Check, Typed, TypeOK, Identified, Record
<1>2. att' \in [Attempt -> AttemptState] /\ Identified'
  <2>1. CASE store[att[a].id].status = "completed"
    BY <1>1, <2>1, TypedLeave DEF Check, Ended, history
  <2>2. CASE store[att[a].id].status # "completed"
    BY <2>2, TypedGoto DEF Check, Live, history
  <2> QED
    BY <2>1, <2>2
<1> QED
  BY <1>2 DEF Check, Typed, TypeOK, history

LEMMA TypedStart ==
    ASSUME Typed, NEW a \in Attempt, StartRead(a) \/ StartCommit(a) PROVE Typed'
<1>1. CASE StartRead(a)
  <2>1. counter' \in [Run -> [Scope -> 0..MaxOrdinal]]
    <3> DEFINE reset == [s \in Scope |-> IF s[1] = att[a].id THEN 0
                                        ELSE counter[att[a].run][s]]
    <3>1. counter' = [counter EXCEPT ![att[a].run] = reset]
      BY <1>1 DEF StartRead, ResetForCall
    <3>2. att[a].run \in Run
      BY <1>1 DEF StartRead, Typed, Identified
    <3>3. reset \in [Scope -> 0..MaxOrdinal]
      BY <3>2, EngineAssumption DEF Typed, TypeOK
    <3> HIDE DEF reset
    <3> QED
      BY <3>1, <3>3 DEF Typed, TypeOK
  <2>2. att' \in [Attempt -> AttemptState] /\ Identified'
    BY <1>1, RecordShapes, TypedStage DEF StartRead, Live, history
  <2> QED
    BY <1>1, <2>1, <2>2 DEF StartRead, Typed, TypeOK, history
<1>2. CASE StartCommit(a)
  <2>1. att' \in [Attempt -> AttemptState] /\ Identified'
    BY <1>2, RecordShapes, TypedStage DEF StartCommit, Live, StageOpen
  <2>2. store' \in [Id -> Record]
    BY <1>2, PersistShape DEF StartCommit, Typed, Identified
  <2> QED
    BY <1>2, <2>1, <2>2 DEF StartCommit, Typed, TypeOK
<1> QED
  BY <1>1, <1>2

LEMMA TypedMetadata ==
    ASSUME Typed, NEW a \in Attempt, NEW k \in Key,
           MetadataRead(a, k) \/ MetadataSave(a, k)
    PROVE  Typed'
<1>1. CASE MetadataRead(a, k)
  <2>1. Visible(a) \in Record
    BY <1>1, VisibleShape DEF MetadataRead, Typed, Identified
  <2>2. setter' \in [Attempt -> [Key -> SetterState]]
    BY <1>1, <2>1, RecordShapes DEF MetadataRead, Typed, TypeOK, SetterState
  <2> QED
    BY <1>1, <2>2 DEF MetadataRead, Typed, TypeOK, Identified, history
<1>2. CASE MetadataSave(a, k)
  <2>1. setter[a][k].snap \in Record
    BY DEF Typed, TypeOK, SetterState
  <2>2. setter' \in [Attempt -> [Key -> SetterState]]
    <3>1. /\ [state |-> "done", snap |-> Absent] \in SetterState
          /\ [state |-> "failed", snap |-> Absent] \in SetterState
      BY RecordShapes DEF SetterState
    <3>2. PICK w \in SetterState : setter' = [setter EXCEPT ![a][k] = w]
      BY <1>2, <3>1 DEF MetadataSave
    <3>3. setter \in [Attempt -> [Key -> SetterState]]
      BY DEF Typed, TypeOK
    <3> QED
      BY <3>2, <3>3
  <2>3. att' \in [Attempt -> AttemptState] /\ Identified'
    <3>1. CASE att[a].pc \in StageOpen
      <4>1. SetMetadata(setter[a][k].snap, k) \in Record
        BY <2>1, RecordShapes
      <4> QED
        BY <1>2, <3>1, <4>1, TypedStage
        DEF MetadataSave, StageOpen, Live, history
    <3>2. CASE att[a].pc \notin StageOpen
      BY <1>2, <3>2 DEF MetadataSave, Typed, TypeOK, Identified, history
    <3> QED
      BY <3>1, <3>2
  <2> QED
    BY <1>2, <2>2, <2>3 DEF MetadataSave, Typed, TypeOK, history
<1> QED
  BY <1>1, <1>2

LEMMA TypedEnd ==
    ASSUME Typed, NEW a \in Attempt,
           BodyReturn(a) \/ BodyRaise(a) \/ EmitFailed(a) \/ Abandon(a)
    PROVE  Typed'
<1>1. CASE BodyReturn(a)
  <2>1. att' \in [Attempt -> AttemptState] /\ Identified'
    <3>1. CASE Visible(a) = Absent
      BY <1>1, <3>1, TypedLeave DEF BodyReturn, Ended, history
    <3>2. CASE Visible(a) # Absent
      <4>1. Visible(a) \in Record
        BY <1>1, VisibleShape DEF BodyReturn, Typed, Identified
      <4> DEFINE new == [att[a] EXCEPT !.pc = "serialize", !.found = Visible(a)]
      <4>0. att[a] \in AttemptState
        BY DEF Typed, TypeOK
      <4>2. new \in AttemptState /\ new.id = att[a].id /\ new.run = att[a].run
        BY <4>0, <4>1 DEF AttemptState, Live, StageOpen
      <4>3. att' = [att EXCEPT ![a] = new]
        BY <1>1, <3>2 DEF BodyReturn
      <4> HIDE DEF new
      <4> QED
        BY <1>1, <4>2, <4>3, TypedLocals DEF BodyReturn, history
    <3> QED
      BY <3>1, <3>2
  <2> QED
    BY <1>1, <2>1 DEF BodyReturn, Typed, TypeOK, history
<1>2. CASE BodyRaise(a)
  <2>1. att' \in [Attempt -> AttemptState] /\ Identified'
    BY <1>2, RecordShapes, TypedStage DEF BodyRaise, Live, history
  <2> QED
    BY <1>2, <2>1 DEF BodyRaise, Typed, TypeOK, history
<1>3. CASE EmitFailed(a)
  <2>1. att' \in [Attempt -> AttemptState] /\ Identified'
    BY <1>3, TypedLeave DEF EmitFailed, Ended
  <2> QED
    BY <1>3, <2>1 DEF EmitFailed, Typed, TypeOK
<1>4. CASE Abandon(a)
  <2>1. att' \in [Attempt -> AttemptState] /\ Identified'
    BY <1>4, TypedLeave DEF Abandon, IsLive, Live, StageOpen, Ended, history
  <2> QED
    BY <1>4, <2>1 DEF Abandon, Typed, TypeOK, history
<1> QED
  BY <1>1, <1>2, <1>3, <1>4

LEMMA TypedComplete ==
    ASSUME Typed, NEW a \in Attempt, CompleteSave(a) \/ Commit(a) \/ Emit(a)
    PROVE  Typed'
<1>1. CASE CompleteSave(a)
  <2>1. att' \in [Attempt -> AttemptState] /\ Identified'
    <3>1. CASE att[a].found.status = "completed"
      BY <1>1, <3>1, TypedLeave DEF CompleteSave, Ended, history
    <3>2. CASE att[a].found.status # "completed"
      <4> DEFINE rec == Complete(att[a].found, a)
                 new == [att[a] EXCEPT !.pc = "commit", !.found = Absent,
                                       !.staged = rec]
      <4>0. att[a] \in AttemptState
        BY DEF Typed, TypeOK
      <4>1. rec \in Record /\ Absent \in Record
        BY <4>0, RecordShapes DEF AttemptState
      <4> HIDE DEF rec
      <4>2. new \in AttemptState /\ new.id = att[a].id /\ new.run = att[a].run
        BY <4>0, <4>1 DEF AttemptState, Live
      <4>3. att' = [att EXCEPT ![a] = new]
        BY <1>1, <3>2 DEF CompleteSave, rec
      <4> HIDE DEF new
      <4> QED
        BY <1>1, <4>2, <4>3, TypedLocals DEF CompleteSave, history
    <3> QED
      BY <3>1, <3>2
  <2> QED
    BY <1>1, <2>1 DEF CompleteSave, Typed, TypeOK, history
<1>2. CASE Commit(a)
  <2>1. att' \in [Attempt -> AttemptState] /\ Identified'
    BY <1>2, RecordShapes, TypedStage DEF Commit, Live
  <2>2. store' \in [Id -> Record]
    BY <1>2, PersistShape DEF Commit, Typed, Identified
  <2> QED
    BY <1>2, <2>1, <2>2 DEF Commit, Typed, TypeOK
<1>3. CASE Emit(a)
  <2>1. att' \in [Attempt -> AttemptState] /\ Identified'
    <3>1. CASE Pruning
      BY <1>3, <3>1, TypedGoto DEF Emit, Live
    <3>2. CASE ~Pruning
      BY <1>3, <3>2, TypedLeave DEF Emit, Ended
    <3> QED
      BY <3>1, <3>2
  <2> QED
    BY <1>3, <2>1 DEF Emit, Typed, TypeOK
<1> QED
  BY <1>1, <1>2, <1>3

LEMMA TypedPrune ==
    ASSUME Typed, NEW a \in Attempt,
           PruneRead(a) \/ PruneCommit(a) \/ PruneFails(a)
    PROVE  Typed'
<1>1. CASE PruneRead(a)
  <2>1. att' \in [Attempt -> AttemptState] /\ Identified'
    <3> DEFINE doomed == {i \in Id : Beneath(i, att[a].id) /\ store[i] # Absent}
               new == [att[a] EXCEPT !.pc = "pruneCommit", !.doomed = doomed]
    <3>1. doomed \in SUBSET Id /\ att' = [att EXCEPT ![a] = new]
      BY <1>1 DEF PruneRead
    <3> HIDE DEF doomed
    <3>0. att[a] \in AttemptState
      BY DEF Typed, TypeOK
    <3>2. new \in AttemptState /\ new.id = att[a].id /\ new.run = att[a].run
      BY <3>0, <3>1 DEF AttemptState, Live
    <3> HIDE DEF new
    <3> QED
      BY <1>1, <3>1, <3>2, TypedLocals DEF PruneRead, history
  <2> QED
    BY <1>1, <2>1 DEF PruneRead, Typed, TypeOK, history
<1>2. CASE PruneCommit(a)
  <2>1. att' \in [Attempt -> AttemptState] /\ Identified'
    BY <1>2, TypedLeave DEF PruneCommit, Ended, history
  <2>2. store' \in [Id -> Record]
    BY <1>2, RecordShapes DEF PruneCommit, Typed, TypeOK
  <2> QED
    BY <1>2, <2>1, <2>2 DEF PruneCommit, Typed, TypeOK, history
<1>3. CASE PruneFails(a)
  <2>1. att' \in [Attempt -> AttemptState] /\ Identified'
    BY <1>3, TypedLeave DEF PruneFails, Ended, history
  <2> QED
    BY <1>3, <2>1 DEF PruneFails, Typed, TypeOK, history
<1> QED
  BY <1>1, <1>2, <1>3

LEMMA TypedNext == Typed /\ [Next]_vars => Typed'
<1> SUFFICES ASSUME Typed, [Next]_vars PROVE Typed'
  OBVIOUS
<1>1. CASE UNCHANGED vars
  BY <1>1 DEF vars, Typed, TypeOK, Identified
<1>2. ASSUME NEW r \in Run, OpenRun(r) \/ CloseRun(r) \/ Crash(r) PROVE Typed'
  BY <1>2, TypedRuns
<1>3. ASSUME NEW a \in Attempt, CallFromSession(a) PROVE Typed'
  BY <1>3, TypedEnter DEF CallFromSession
<1>4. ASSUME NEW a \in Attempt, CallFromBody(a) PROVE Typed'
  <2>1. PICK b \in Attempt, c \in Content : Enter(a, att[b].run, b, att[b].id, c)
                                         /\ (att[b].pc = "body" \/ b \in entered)
    BY <1>4 DEF CallFromBody
  <2> QED
    BY <2>1, TypedEnter DEF Typed, Identified
<1>5. ASSUME NEW a \in Attempt, NEW k \in Key, MetadataRead(a, k) PROVE Typed'
  BY <1>5, TypedMetadata
<1>6. ASSUME NEW a \in Attempt, Progress(a) PROVE Typed'
  BY <1>6, TypedCheck, TypedStart, TypedMetadata, TypedEnd, TypedComplete,
     TypedPrune DEF Progress
<1>7. ASSUME NEW a \in Attempt, Abandon(a) PROVE Typed'
  BY <1>7, TypedEnd
<1> QED
  BY <1>1, <1>2, <1>3, <1>4, <1>5, <1>6, <1>7 DEF Next

(* The state of the engine keeps its types in every execution, whatever    *)
(* the interleaving, crashes and cancellations.                            *)
THEOREM EngineTypes == Spec => []TypeOK
<1>1. Spec => []Typed
  BY TypedInit, TypedNext, PTL DEF Spec
<1> QED
  BY <1>1, PTL DEF Typed

-----------------------------------------------------------------------------
(* Identities within a run.  The ordinal of a call is below the counter of *)
(* its scope; a scope that counted belongs to a call of the run; and a call *)
(* that has not started has counted nothing beneath itself.                *)
NotStarted == {"check", "startRead"}

Begun ==
    /\ \A a \in Attempt : IF att[a].pc = "idle" THEN att[a].id = Root
                          ELSE runs[att[a].run] # "new"
    /\ \A a \in Attempt : att[a].pc = "body" => a \in entered
    /\ \A a \in entered : att[a].pc \notin NotStarted \cup {"idle", "startCommit"}

Numbered ==
    \A a \in Attempt : att[a].pc # "idle" =>
        \E p \in Id \cup {Root}, c \in Content, n \in Nat :
            /\ Len(p) < MaxDepth
            /\ att[a].id = Append(p, [content |-> c, seq |-> n])
            /\ n < counter[att[a].run][<<p, c>>]

Witnessed ==
    \A r \in Run, p \in Id, c \in Content :
        Len(p) < MaxDepth /\ counter[r][<<p, c>>] # 0 =>
            \E b \in Attempt : att[b].pc # "idle" /\ att[b].run = r /\ att[b].id = p

Unused ==
    \A a \in Attempt : att[a].pc \in NotStarted =>
        \A c \in Content : Len(att[a].id) < MaxDepth =>
            counter[att[a].run][<<att[a].id, c>>] = 0

Sequenced == Begun /\ Numbered /\ Witnessed /\ Unused /\ IdsUniqueInRun

LEMMA SequencedInit == Init => Sequenced
<1> SUFFICES ASSUME Init PROVE Sequenced
  OBVIOUS
<1>1. \A a \in Attempt : att[a].pc = "idle" /\ att[a].id = Root
  BY DEF Init, Idle
<1>2. \A r \in Run, p \in Id, c \in Content :
        Len(p) < MaxDepth => counter[r][<<p, c>>] = 0
  BY DEF Init, Scope
<1> QED
  BY <1>1, <1>2 DEF Init, Sequenced, Begun, Numbered, Witnessed, Unused,
     IdsUniqueInRun, NotStarted

(* A step that neither calls nor counts keeps all of it. *)
Uncounted ==
    /\ counter' = counter
    /\ \A r \in Run : runs[r] # "new" => runs'[r] # "new"
    /\ \A b \in Attempt :
        /\ att'[b].id = att[b].id /\ att'[b].run = att[b].run
        /\ att'[b].pc = "idle" <=> att[b].pc = "idle"
        /\ att'[b].pc \in NotStarted => att[b].pc \in NotStarted
        /\ att'[b].pc = "body" => b \in entered'
        /\ b \in entered' => att'[b].pc \notin NotStarted \cup {"idle", "startCommit"}

LEMMA SequencedUncounted ==
    ASSUME Typed, Sequenced, Uncounted, entered' \subseteq Attempt
    PROVE  Sequenced'
<1> USE DEF Sequenced, Uncounted
<1>1. Begun'
  BY DEF Begun, Typed, Identified
<1>2. Numbered'
  BY DEF Numbered
<1>3. Witnessed'
  BY DEF Witnessed
<1>4. Unused'
  BY DEF Unused
<1>5. IdsUniqueInRun'
  BY DEF IdsUniqueInRun
<1> QED
  BY <1>1, <1>2, <1>3, <1>4, <1>5

(* The two ways an attempt can be followed in its locals. *)
LEMMA LocalsKept ==
    ASSUME Typed, NEW a \in Attempt
    PROVE  /\ \A pc, b : b \in Attempt =>
                /\ Goto(a, pc)[b].id = att[b].id /\ Goto(a, pc)[b].run = att[b].run
                /\ Goto(a, pc)[b].pc = IF b = a THEN pc ELSE att[b].pc
           /\ \A pc, rec, b : b \in Attempt =>
                /\ Stage(a, pc, rec)[b].id = att[b].id
                /\ Stage(a, pc, rec)[b].run = att[b].run
                /\ Stage(a, pc, rec)[b].pc = IF b = a THEN pc ELSE att[b].pc
           /\ \A end, ret, b : b \in Attempt =>
                /\ Leave(a, end, ret)[b].id = att[b].id
                /\ Leave(a, end, ret)[b].run = att[b].run
                /\ Leave(a, end, ret)[b].pc = IF b = a THEN end ELSE att[b].pc
<1>1. att \in [Attempt -> AttemptState]
  BY DEF Typed, TypeOK
<1> QED
  BY <1>1 DEF Goto, Stage, Leave, AttemptState

(* An attempt other than an idle one, whose pc changes as its code runs. *)
LEMMA UncountedStep ==
    ASSUME Typed, Sequenced, NEW a \in Attempt, att[a].pc # "idle",
           counter' = counter, runs' = runs,
           \A b \in Attempt : att'[b].id = att[b].id /\ att'[b].run = att[b].run,
           \A b \in Attempt : b # a => att'[b].pc = att[b].pc,
           att'[a].pc # "idle",
           att'[a].pc \in NotStarted => att[a].pc \in NotStarted,
           a \in entered => att'[a].pc \notin NotStarted \cup {"startCommit"},
           \/ entered' = entered /\ (att'[a].pc = "body" => att[a].pc = "body")
           \/ entered' = entered \cup {a} /\ att'[a].pc = "body"
    PROVE  Sequenced'
<1>1. entered' \subseteq Attempt
  BY DEF Typed, TypeOK
<1>2. Uncounted
  BY DEF Uncounted, Sequenced, Begun, NotStarted
<1> QED
  BY <1>1, <1>2, SequencedUncounted

LEMMA SequencedProgress ==
    ASSUME Typed, Sequenced, NEW a \in Attempt,
           Progress(a) \/ Abandon(a) \/ \E k \in Key : MetadataRead(a, k)
    PROVE  Sequenced'
<1> USE DEF history, NotStarted
<1>1. CASE Check(a)
  <2>1. \/ att' = Goto(a, "startRead")
        \/ att' = Leave(a, "returned", store[att[a].id].result)
    BY <1>1 DEF Check
  <2>2. a \notin entered
    BY <1>1 DEF Check, Sequenced, Begun
  <2>3. /\ counter' = counter /\ runs' = runs /\ entered' = entered
        /\ att[a].pc = "check"
    BY <1>1 DEF Check
  <2>4. /\ \A b \in Attempt : att'[b].id = att[b].id /\ att'[b].run = att[b].run
        /\ \A b \in Attempt : b # a => att'[b].pc = att[b].pc
    BY <2>1, LocalsKept
  <2>5. att'[a].pc \in {"startRead", "returned"}
    BY <2>1, LocalsKept
  <2>6. /\ att[a].pc # "idle" /\ att'[a].pc # "idle" /\ att'[a].pc # "body"
        /\ att[a].pc \in NotStarted
    BY <2>3, <2>5
  <2> HIDE DEF NotStarted
  <2> QED
    BY <2>2, <2>3, <2>4, <2>6, UncountedStep
<1>2. CASE StartRead(a)
  <2>1. counter' = counter
    <3>1. att[a].run \in Run /\ att[a].id \in Id
      BY <1>2 DEF StartRead, Typed, Identified
    <3>2. \A s \in Scope : s[1] = att[a].id => counter[att[a].run][s] = 0
      <4> SUFFICES ASSUME NEW s \in Scope, s[1] = att[a].id
                   PROVE  counter[att[a].run][s] = 0
        OBVIOUS
      <4>1. PICK p \in {Root} \cup {i \in Id : Len(i) < MaxDepth}, c \in Content :
              s = <<p, c>>
        BY DEF Scope
      <4>2. p = att[a].id /\ Len(p) < MaxDepth
        BY <3>1, <4>1, EngineAssumption, IdIsSeq DEF Root
      <4> QED
        BY <1>2, <4>1, <4>2 DEF StartRead, Sequenced, Unused
    <3>3. counter[att[a].run] \in [Scope -> 0..MaxOrdinal]
      BY <3>1 DEF Typed, TypeOK
    <3>4. [s \in Scope |-> IF s[1] = att[a].id THEN 0 ELSE counter[att[a].run][s]]
            = counter[att[a].run]
      BY <3>2, <3>3
    <3> QED
      BY <1>2, <3>1, <3>4 DEF StartRead, ResetForCall, Typed, TypeOK
  <2>2. a \notin entered
    BY <1>2 DEF StartRead, Sequenced, Begun
  <2> QED
    BY <1>2, <2>1, <2>2, LocalsKept, UncountedStep DEF StartRead
<1>3. CASE StartCommit(a)
  BY <1>3, LocalsKept, UncountedStep DEF StartCommit
<1>4. CASE \E k \in Key : MetadataSave(a, k)
  <2>1. CASE att[a].pc \in StageOpen
    <3>1. /\ UNCHANGED <<counter, runs, entered>>
          /\ \E rec : att' = Stage(a, att[a].pc, rec)
      BY <1>4, <2>1 DEF MetadataSave
    <3>2. att[a].pc \in {"body", "serialize"}
      BY <2>1 DEF StageOpen
    <3> QED
      BY <3>1, <3>2, LocalsKept, UncountedStep
  <2>2. CASE att[a].pc \notin StageOpen
    <3>1. UNCHANGED <<att, counter, runs, entered>>
      BY <1>4, <2>2 DEF MetadataSave
    <3>2. Uncounted /\ entered' \subseteq Attempt
      BY <3>1 DEF Uncounted, Sequenced, Begun, Typed, TypeOK
    <3> QED
      BY <3>2, SequencedUncounted
  <2> QED
    BY <2>1, <2>2
<1>5. CASE BodyReturn(a)
  <2>1. CASE Visible(a) = Absent
    BY <1>5, <2>1, LocalsKept, UncountedStep DEF BodyReturn
  <2>2. CASE Visible(a) # Absent
    <3>1. \A b \in Attempt :
            /\ att'[b].id = att[b].id /\ att'[b].run = att[b].run
            /\ att'[b].pc = IF b = a THEN "serialize" ELSE att[b].pc
      BY <1>5, <2>2 DEF BodyReturn, Typed, TypeOK, AttemptState
    <3> QED
      BY <1>5, <3>1, LocalsKept, UncountedStep DEF BodyReturn
  <2> QED
    BY <2>1, <2>2
<1>6. CASE BodyRaise(a)
  BY <1>6, LocalsKept, UncountedStep DEF BodyRaise
<1>7. CASE EmitFailed(a)
  BY <1>7, LocalsKept, UncountedStep DEF EmitFailed
<1>8. CASE CompleteSave(a)
  <2>1. CASE att[a].found.status = "completed"
    BY <1>8, <2>1, LocalsKept, UncountedStep DEF CompleteSave
  <2>2. CASE att[a].found.status # "completed"
    <3>1. \A b \in Attempt :
            /\ att'[b].id = att[b].id /\ att'[b].run = att[b].run
            /\ att'[b].pc = IF b = a THEN "commit" ELSE att[b].pc
      BY <1>8, <2>2 DEF CompleteSave, Typed, TypeOK, AttemptState
    <3> QED
      BY <1>8, <3>1, LocalsKept, UncountedStep DEF CompleteSave
  <2> QED
    BY <2>1, <2>2
<1>9. CASE Commit(a)
  BY <1>9, LocalsKept, UncountedStep DEF Commit
<1>10. CASE Emit(a)
  BY <1>10, LocalsKept, UncountedStep DEF Emit
<1>11. CASE PruneRead(a)
  <2>1. \A b \in Attempt :
          /\ att'[b].id = att[b].id /\ att'[b].run = att[b].run
          /\ att'[b].pc = IF b = a THEN "pruneCommit" ELSE att[b].pc
    BY <1>11 DEF PruneRead, Typed, TypeOK, AttemptState
  <2> QED
    BY <1>11, <2>1, LocalsKept, UncountedStep DEF PruneRead
<1>12. CASE PruneCommit(a)
  BY <1>12, LocalsKept, UncountedStep DEF PruneCommit
<1>13. CASE PruneFails(a)
  BY <1>13, LocalsKept, UncountedStep DEF PruneFails
<1>14. CASE Abandon(a)
  BY <1>14, LocalsKept, UncountedStep DEF Abandon, IsLive, Live, StageOpen
<1>15. CASE \E k \in Key : MetadataRead(a, k)
  <2>1. Uncounted /\ entered' \subseteq Attempt
    BY <1>15 DEF MetadataRead, Uncounted, Sequenced, Begun, Typed, TypeOK
  <2> QED
    BY <2>1, SequencedUncounted
<1> QED
  BY <1>1, <1>2, <1>3, <1>4, <1>5, <1>6, <1>7, <1>8, <1>9, <1>10, <1>11, <1>12,
     <1>13, <1>14, <1>15 DEF Progress

LEMMA SequencedRuns ==
    ASSUME Typed, Sequenced, NEW r \in Run, OpenRun(r) \/ CloseRun(r) \/ Crash(r)
    PROVE  Sequenced'
<1> USE DEF history, NotStarted
<1>1. CASE OpenRun(r)
  <2>1. \A a \in Attempt : att[a].pc # "idle" => att[a].run # r
    BY <1>1 DEF OpenRun, Sequenced, Begun
  <2>2. /\ att' = att /\ entered' = entered
        /\ \A q \in Run : runs[q] # "new" => runs'[q] # "new"
        /\ \A q \in Run : q # r => counter'[q] = counter[q]
        /\ counter'[r] = [s \in Scope |-> 0]
    BY <1>1 DEF OpenRun, Typed, TypeOK
  <2>3. Begun'
    BY <2>2 DEF Sequenced, Begun, Typed, Identified
  <2>4. Numbered'
    BY <2>1, <2>2 DEF Sequenced, Numbered, Typed, Identified
  <2>5. Witnessed'
    <3> SUFFICES ASSUME NEW q \in Run, NEW p \in Id, NEW c \in Content,
                        Len(p) < MaxDepth, counter'[q][<<p, c>>] # 0
                 PROVE  \E b \in Attempt : /\ att[b].pc # "idle"
                                           /\ att[b].run = q /\ att[b].id = p
      BY <2>2 DEF Witnessed
    <3>1. <<p, c>> \in Scope
      BY DEF Scope
    <3>2. q # r
      BY <2>2, <3>1
    <3> QED
      BY <2>2, <3>2 DEF Sequenced, Witnessed
  <2>6. Unused'
    BY <2>1, <2>2 DEF Sequenced, Unused, Typed, Identified
  <2>7. IdsUniqueInRun'
    BY <2>2 DEF Sequenced, IdsUniqueInRun
  <2> QED
    BY <2>3, <2>4, <2>5, <2>6, <2>7 DEF Sequenced
<1>2. CASE CloseRun(r)
  <2>1. Uncounted /\ entered' \subseteq Attempt
    BY <1>2 DEF CloseRun, Uncounted, Sequenced, Begun, Typed, TypeOK
  <2> QED
    BY <2>1, SequencedUncounted
<1>3. CASE Crash(r)
  <2>1. ASSUME NEW b \in Attempt
        PROVE  /\ att'[b].id = att[b].id /\ att'[b].run = att[b].run
               /\ \/ att'[b].pc = att[b].pc
                  \/ att'[b].pc = "crashed" /\ att[b].pc # "idle"
    <3>1. CASE att[b].run = r /\ IsLive(b)
      <4>1. att'[b] = Leave(b, "crashed", None)[b]
        BY <1>3, <3>1 DEF Crash
      <4> QED
        BY <3>1, <4>1, LocalsKept DEF IsLive, Live, StageOpen
    <3>2. CASE ~(att[b].run = r /\ IsLive(b))
      <4>1. att'[b] = att[b]
        BY <1>3, <3>2 DEF Crash
      <4> QED
        BY <4>1
    <3> QED
      BY <3>1, <3>2
  <2>2. counter' = counter /\ entered' = entered
        /\ \A q \in Run : runs[q] # "new" => runs'[q] # "new"
    BY <1>3 DEF Crash, Typed, TypeOK
  <2>3. Uncounted
    BY <2>1, <2>2 DEF Uncounted, Sequenced, Begun
  <2> QED
    BY <2>2, <2>3, SequencedUncounted DEF Typed, TypeOK
<1> QED
  BY <1>1, <1>2, <1>3

(* A new call: its ordinal is the counter of its scope, so it is no call   *)
(* the run has made, and nothing can have been counted beneath it.         *)
LEMMA SequencedEnter ==
    ASSUME Typed, Sequenced, NEW a \in Attempt, NEW r \in Run, runs[r] # "new",
           NEW c \in Content, NEW caller \in Attempt \cup {None},
           NEW p \in Id \cup {Root},
           p # Root => \E b \in entered : att[b].run = r /\ att[b].id = p,
           Enter(a, r, caller, p, c), entered \subseteq Attempt
    PROVE  Sequenced'
<1> DEFINE n == counter[r][<<p, c>>]
           i == NextId(r, p, c)
           new == [Idle EXCEPT !.pc = "check", !.run = r, !.id = i, !.caller = caller]
<1> USE DEF history, NotStarted
<1>1. /\ <<p, c>> \in Scope /\ n \in 0..(MaxOrdinal - 1) /\ i \in Id
      /\ i = Append(p, [content |-> c, seq |-> n])
  BY NextIdIsId DEF Enter, Typed, NextId
<1>2. /\ att' = [att EXCEPT ![a] = new]
      /\ counter' = [counter EXCEPT ![r][<<p, c>>] = n + 1]
      /\ runs' = runs /\ entered' = entered /\ att[a].pc = "idle"
      /\ Len(p) < MaxDepth
  BY DEF Enter
<1>3. new.pc = "check" /\ new.run = r /\ new.id = i
  BY DEF Idle
<1> HIDE DEF n, i, new
<1>4. /\ att'[a].pc = "check" /\ att'[a].run = r /\ att'[a].id = i
      /\ \A b \in Attempt : b # a => att'[b] = att[b]
  BY <1>2, <1>3 DEF Typed, TypeOK
<1>5. /\ counter'[r][<<p, c>>] = n + 1
      /\ \A q \in Run, s \in Scope :
            q # r \/ s # <<p, c>> => counter'[q][s] = counter[q][s]
  BY <1>1, <1>2 DEF Typed, TypeOK
<1>6. n = counter[r][<<p, c>>]
  BY DEF n
<1>7. a \notin entered
  BY <1>2 DEF Sequenced, Begun
<1>8. \A q \in Id \cup {Root}, d \in Content :
        Len(q) < MaxDepth => <<q, d>> \in Scope
  BY DEF Scope
<1>9. \A q \in Id \cup {Root}, d \in Content, m \in Nat :
        Append(q, [content |-> d, seq |-> m]) = i => q = p /\ d = c /\ m = n
  <2> SUFFICES ASSUME NEW q \in Id \cup {Root}, NEW d \in Content, NEW m \in Nat,
                      Append(q, [content |-> d, seq |-> m]) = i
               PROVE  q = p /\ d = c /\ m = n
    OBVIOUS
  <2> DEFINE F == [content : Content, seq : Nat]
             e == [content |-> d, seq |-> m]
             f == [content |-> c, seq |-> n]
  <2>1. p \in Seq(F) /\ q \in Seq(F)
    <3>1. ASSUME NEW x \in Id PROVE x \in Seq(F)
      <4>1. PICK k \in 1..MaxDepth : x \in [1..k -> Frame]
        BY DEF Id
      <4>2. \A g \in Frame : g \in F
        BY EngineAssumption DEF Frame
      <4> HIDE DEF F
      <4>3. x \in [1..k -> F]
        BY <4>1, <4>2
      <4> QED
        BY <4>3, EngineAssumption
    <3>2. Root \in Seq(F)
      BY EmptySeq DEF Root
    <3> QED
      BY <3>1, <3>2
  <2>2. e \in F /\ f \in F
    BY <1>1, EngineAssumption
  <2>3. Append(q, e) = Append(p, f)
    BY <1>1
  <2>4. q = p /\ e = f
    <3> HIDE DEF F, e, f
    <3> QED
      BY <2>1, <2>2, <2>3, AppendInjective
  <2> QED
    BY <2>4
<1>10. \A b \in Attempt : att[b].pc # "idle" /\ att[b].run = r => att[b].id # i
  <2> SUFFICES ASSUME NEW b \in Attempt, att[b].pc # "idle", att[b].run = r,
                      att[b].id = i
               PROVE  FALSE
    OBVIOUS
  <2>1. PICK q \in Id \cup {Root}, d \in Content, m \in Nat :
          /\ att[b].id = Append(q, [content |-> d, seq |-> m])
          /\ m < counter[r][<<q, d>>]
    BY DEF Sequenced, Numbered
  <2>2. q = p /\ d = c /\ m = n
    BY <1>9, <2>1
  <2> QED
    BY <1>1, <1>6, <2>1, <2>2, EngineAssumption
<1>11. Begun'
  BY <1>2, <1>4, <1>7 DEF Sequenced, Begun
<1>12. Numbered'
  <2> SUFFICES ASSUME NEW b \in Attempt, att'[b].pc # "idle"
               PROVE  \E q \in Id \cup {Root}, d \in Content, m \in Nat :
                        /\ Len(q) < MaxDepth
                        /\ att'[b].id = Append(q, [content |-> d, seq |-> m])
                        /\ m < counter'[att'[b].run][<<q, d>>]
    BY DEF Numbered
  <2>1. CASE b = a
    <3>1. n \in Nat /\ n < counter'[r][<<p, c>>]
      BY <1>1, <1>5, EngineAssumption
    <3>2. att'[b].run = r /\ att'[b].id = Append(p, [content |-> c, seq |-> n])
      BY <1>1, <1>4, <2>1
    <3> QED
      BY <1>2, <3>1, <3>2
  <2>2. CASE b # a
    <3>1. att[b].pc # "idle" /\ att'[b] = att[b] /\ att[b].run \in Run
      BY <1>4, <2>2 DEF Typed, Identified
    <3>2. PICK q \in Id \cup {Root}, d \in Content, m \in Nat :
            /\ Len(q) < MaxDepth
            /\ att[b].id = Append(q, [content |-> d, seq |-> m])
            /\ m < counter[att[b].run][<<q, d>>]
      BY <3>1 DEF Sequenced, Numbered
    <3>3. m < counter'[att[b].run][<<q, d>>]
      <4>1. CASE att[b].run = r /\ <<q, d>> = <<p, c>>
        BY <1>1, <1>5, <1>6, <3>2, <4>1, EngineAssumption
      <4>2. CASE ~(att[b].run = r /\ <<q, d>> = <<p, c>>)
        BY <1>5, <1>8, <3>1, <3>2, <4>2
      <4> QED
        BY <4>1, <4>2
    <3> QED
      BY <3>1, <3>2, <3>3
  <2> QED
    BY <2>1, <2>2
<1>13. Witnessed'
  <2> SUFFICES ASSUME NEW q \in Run, NEW j \in Id, NEW d \in Content,
                      Len(j) < MaxDepth, counter'[q][<<j, d>>] # 0
               PROVE  \E b \in Attempt : /\ att'[b].pc # "idle"
                                         /\ att'[b].run = q /\ att'[b].id = j
    BY DEF Witnessed
  <2>1. \E b \in Attempt : att[b].pc # "idle" /\ att[b].run = q /\ att[b].id = j
    <3>1. CASE q = r /\ j = p
      <4>1. j # Root
        BY IdIsSeq DEF Root
      <4> QED
        BY <3>1, <4>1 DEF Sequenced, Begun
    <3>2. CASE ~(q = r /\ j = p)
      <4>1. counter[q][<<j, d>>] # 0
        BY <1>5, <1>8, <3>2
      <4> QED
        BY <4>1 DEF Sequenced, Witnessed
    <3> QED
      BY <3>1, <3>2
  <2> QED
    BY <1>2, <1>4, <2>1
<1>14. Unused'
  <2> SUFFICES ASSUME NEW b \in Attempt, att'[b].pc \in NotStarted,
                      NEW d \in Content, Len(att'[b].id) < MaxDepth
               PROVE  counter'[att'[b].run][<<att'[b].id, d>>] = 0
    BY DEF Unused
  <2>1. CASE b = a
    <3>0. Len(i) < MaxDepth
      BY <1>4, <2>1
    <3>1. <<i, d>> \in Scope /\ i # p
      <4>1. Len(i) = Len(p) + 1 /\ Len(p) \in Nat
        <5>1. p \in Seq(Frame)
          BY IdIsSeq, EmptySeq DEF Root
        <5>2. [content |-> c, seq |-> n] \in Frame
          BY <1>1 DEF Frame
        <5> QED
          BY <1>1, <5>1, <5>2, AppendProperties, LenProperties
      <4>2. i # p
        BY <4>1
      <4> QED
        BY <1>1, <1>8, <3>0, <4>2
    <3>2. counter[r][<<i, d>>] = 0
      <4> SUFFICES ASSUME counter[r][<<i, d>>] # 0 PROVE FALSE
        OBVIOUS
      <4>1. i \in Id
        BY <1>1
      <4>2. PICK g \in Attempt :
              att[g].pc # "idle" /\ att[g].run = r /\ att[g].id = i
        BY <4>1, <3>0 DEF Sequenced, Witnessed
      <4> QED
        BY <1>10, <4>2
    <3> QED
      BY <1>4, <1>5, <2>1, <3>1, <3>2
  <2>2. CASE b # a
    <3>1. /\ att'[b] = att[b] /\ att[b].pc \in NotStarted
          /\ att[b].id \in Id /\ att[b].run \in Run
      BY <1>4, <2>2 DEF Typed, Identified
    <3>2. ~(att[b].run = r /\ att[b].id = p)
      <4> SUFFICES ASSUME att[b].run = r, att[b].id = p PROVE FALSE
        OBVIOUS
      <4>1. p # Root
        BY <3>1, IdIsSeq DEF Root
      <4>2. PICK e \in entered : att[e].run = r /\ att[e].id = p
        BY <4>1
      <4>3. e \in Attempt /\ e # b /\ att[e].pc # "idle"
        BY <3>1, <4>2 DEF Sequenced, Begun
      <4> QED
        BY <3>1, <4>2, <4>3 DEF Sequenced, IdsUniqueInRun
    <3> QED
      BY <1>5, <1>8, <3>1, <3>2 DEF Sequenced, Unused
  <2> QED
    BY <2>1, <2>2
<1>15. IdsUniqueInRun'
  <2> SUFFICES ASSUME NEW x \in Attempt, NEW y \in Attempt, x # y,
                      att'[x].pc # "idle", att'[x].run = att'[y].run,
                      att'[x].id = att'[y].id
               PROVE  FALSE
    BY DEF IdsUniqueInRun
  <2>1. CASE x # a /\ y # a
    BY <1>4, <2>1 DEF Sequenced, IdsUniqueInRun
  <2>2. CASE x = a
    <3>1. att[y].run = r /\ att[y].id = i
      BY <1>4, <2>2
    <3>2. att[y].pc = "idle"
      BY <1>10, <3>1
    <3> QED
      BY <3>1, <3>2, <1>1, IdIsSeq DEF Root, Sequenced, Begun
  <2>3. CASE y = a
    <3>1. att[x].run = r /\ att[x].id = i /\ att[x].pc # "idle"
      BY <1>4, <2>3
    <3> QED
      BY <1>10, <3>1
  <2> QED
    BY <2>1, <2>2, <2>3
<1> QED
  BY <1>11, <1>12, <1>13, <1>14, <1>15 DEF Sequenced

LEMMA SequencedNext == Typed /\ Sequenced /\ [Next]_vars => Sequenced'
<1> SUFFICES ASSUME Typed, Sequenced, [Next]_vars PROVE Sequenced'
  OBVIOUS
<1>1. CASE UNCHANGED vars
  <2>1. Uncounted /\ entered' \subseteq Attempt
    BY <1>1 DEF vars, Uncounted, Sequenced, Begun, Typed, TypeOK
  <2> QED
    BY <2>1, SequencedUncounted
<1>2. ASSUME NEW r \in Run, OpenRun(r) \/ CloseRun(r) \/ Crash(r) PROVE Sequenced'
  BY <1>2, SequencedRuns
<1>3. ASSUME NEW a \in Attempt, CallFromSession(a) PROVE Sequenced'
  <2>1. PICK r \in Run, c \in Content : runs[r] = "open" /\ Enter(a, r, None, Root, c)
    BY <1>3 DEF CallFromSession
  <2> QED
    BY <2>1, SequencedEnter DEF Typed, TypeOK
<1>4. ASSUME NEW a \in Attempt, CallFromBody(a) PROVE Sequenced'
  <2>1. PICK b \in Attempt, c \in Content :
          /\ att[b].pc = "body" \/ b \in entered
          /\ Enter(a, att[b].run, b, att[b].id, c)
    BY <1>4 DEF CallFromBody
  <2>2. b \in entered /\ att[b].pc # "idle"
    BY <2>1 DEF Sequenced, Begun
  <2>3. att[b].id \in Id /\ att[b].run \in Run /\ runs[att[b].run] # "new"
    BY <2>2 DEF Sequenced, Begun, Typed, Identified
  <2> QED
    BY <2>1, <2>2, <2>3, SequencedEnter DEF Typed, TypeOK
<1>5. ASSUME NEW a \in Attempt,
             Progress(a) \/ Abandon(a) \/ \E k \in Key : MetadataRead(a, k)
      PROVE  Sequenced'
  BY <1>5, SequencedProgress
<1> QED
  BY <1>1, <1>2, <1>3, <1>4, <1>5 DEF Next

(* The identities one run hands out are pairwise different, although equal *)
(* calls race for ordinals and every start resets counters.                *)
THEOREM IdentitiesAreUnique == Spec => []IdsUniqueInRun
<1>1. Spec => [](Typed /\ Sequenced)
  BY TypedInit, TypedNext, SequencedInit, SequencedNext, PTL DEF Spec
<1> QED
  BY <1>1, PTL DEF Sequenced

(* reset_for_call is a no-op in every run: a call that is about to start    *)
(* has no counter beneath it, since only its own body could have made one. *)
THEOREM ResetIsNoOp == Spec => []ResetFindsNothing
<1>1. Spec => [](Typed /\ Sequenced)
  BY TypedInit, TypedNext, SequencedInit, SequencedNext, PTL DEF Spec
<1>2. Sequenced => ResetFindsNothing
  BY DEF Sequenced, Unused, NotStarted, ResetFindsNothing
<1> QED
  BY <1>1, <1>2, PTL

-----------------------------------------------------------------------------
(* What Engine promises of its records: when bodies and sessions wait for  *)
(* the tasks they started (~Detached), with or without pruning; and, as far *)
(* as it still holds, when they do not, but nothing is pruned and no run is *)
(* entered before the tasks of the last one are done (~Overlap).            *)

(* Nesting of identities, frame by frame. *)

LEMMA BeneathPoints ==
    ASSUME NEW i \in Id, NEW j \in Id
    PROVE  Beneath(i, j) <=> Len(j) < Len(i) /\ \A n \in 1..Len(j) : j[n] = i[n]
<1>1. /\ i \in Seq(Frame) /\ j \in Seq(Frame)
      /\ Len(i) \in Nat /\ Len(j) \in Nat /\ 1 \in Int
  BY IdIsSeq, LenProperties
<1>2. SUFFICES ASSUME Len(j) < Len(i)
               PROVE  SubSeq(i, 1, Len(j)) = j <=> \A n \in 1..Len(j) : j[n] = i[n]
  BY DEF Beneath
<1> DEFINE s == SubSeq(i, 1, Len(j))
<1>3. \A n \in 1..Len(j) : i[n] \in Frame
  BY <1>1, <1>2, ElementOfSeq
<1>4. /\ s \in Seq(Frame)
      /\ Len(s) = IF 1 <= Len(j) THEN Len(j) - 1 + 1 ELSE 0
      /\ \A n \in 1..Len(j) - 1 + 1 : s[n] = i[1 + n - 1]
  BY <1>1, <1>3, SubSeqProperties
<1> HIDE DEF s
<1>5. Len(s) = Len(j) /\ \A n \in 1..Len(j) : s[n] = i[n]
  BY <1>1, <1>4
<1>6. (\A n \in 1..Len(s) : s[n] = j[n]) => s = j
  BY <1>1, <1>4, <1>5, SeqEqual
<1>7. s = j <=> \A n \in 1..Len(j) : j[n] = i[n]
  BY <1>5, <1>6
<1> QED
  BY <1>7 DEF s

LEMMA BeneathTransitive ==
    ASSUME NEW i \in Id, NEW j \in Id, NEW k \in Id, Beneath(i, j), Beneath(j, k)
    PROVE  Beneath(i, k)
<1>1. Len(i) \in Nat /\ Len(j) \in Nat /\ Len(k) \in Nat
  BY IdIsSeq, LenProperties
<1>2. Len(k) < Len(i) /\ 1..Len(k) \subseteq 1..Len(j)
  BY <1>1, BeneathPoints
<1> QED
  BY <1>2, BeneathPoints

LEMMA NotBeneathItself == ASSUME NEW i \in Id PROVE ~Beneath(i, i)
BY IdIsSeq, LenProperties DEF Beneath

(* A call is beneath its parent, what that is beneath, and nothing else.   *)
LEMMA ParentOfChild ==
    ASSUME NEW p \in Id \cup {Root}, NEW f \in Frame, Append(p, f) \in Id
    PROVE  /\ Parent(Append(p, f)) = p /\ Len(Append(p, f)) = Len(p) + 1
           /\ \A j \in Id : Beneath(Append(p, f), j) => p \in Id /\ (j = p \/ Beneath(p, j))
<1> DEFINE i == Append(p, f)
<1>1. p \in Seq(Frame) /\ Len(p) \in Nat
  BY IdIsSeq, EmptySeq, LenProperties DEF Root
<1>2. /\ i \in Seq(Frame) /\ Len(i) = Len(p) + 1
      /\ \A n \in 1..Len(p) : i[n] = p[n]
  BY <1>1, AppendProperties
<1> HIDE DEF i
<1>3. Parent(i) = p
  <2> DEFINE s == SubSeq(i, 1, Len(p))
  <2>1. /\ s \in Seq(Frame)
        /\ Len(s) = IF 1 <= Len(p) THEN Len(p) - 1 + 1 ELSE 0
        /\ \A n \in 1..Len(p) - 1 + 1 : s[n] = i[1 + n - 1]
    <3>1. \A n \in 1..Len(p) : i[n] \in Frame
      BY <1>1, <1>2, ElementOfSeq
    <3> QED
      BY <1>1, <3>1, SubSeqProperties
  <2> HIDE DEF s
  <2>2. Len(s) = Len(p) /\ \A n \in 1..Len(s) : s[n] = p[n]
    BY <1>1, <1>2, <2>1
  <2>3. s = p
    BY <1>1, <2>1, <2>2, SeqEqual
  <2>4. Len(i) - 1 = Len(p)
    BY <1>1, <1>2
  <2> QED
    BY <2>3, <2>4 DEF Parent, s
<1>4. ASSUME NEW j \in Id, Beneath(i, j)
      PROVE  p \in Id /\ (j = p \/ Beneath(p, j))
  <2>1. i \in Id
    BY DEF i
  <2>2. j \in Seq(Frame) /\ Len(j) \in 1..MaxDepth /\ Len(j) \in Nat
    BY IdIsSeq, LenProperties
  <2>3. Len(j) < Len(i) /\ \A n \in 1..Len(j) : j[n] = i[n]
    BY <1>4, <2>1, BeneathPoints
  <2>4. Len(j) <= Len(p) /\ \A n \in 1..Len(j) : j[n] = p[n]
    BY <1>1, <1>2, <2>2, <2>3
  <2>5. p \in Id
    BY <2>2, <2>4, EmptySeq DEF Root
  <2>6. CASE Len(j) = Len(p)
    BY <1>1, <2>2, <2>4, <2>5, <2>6, SeqEqual
  <2>7. CASE Len(j) # Len(p)
    BY <1>1, <2>2, <2>4, <2>5, <2>7, BeneathPoints
  <2> QED
    BY <2>5, <2>6, <2>7
<1> QED
  BY <1>2, <1>3, <1>4 DEF i

(* Below whatever a call is beneath there is a call to start with.         *)
LEMMA ChildTowards ==
    ASSUME NEW i \in Id, NEW j \in Id, Beneath(i, j)
    PROVE  \E k \in Id : Parent(k) = j /\ Len(k) # 1 /\ (k = i \/ Beneath(i, k))
<1> DEFINE n == Len(j) + 1
           k == SubSeq(i, 1, n)
<1>1. /\ i \in Seq(Frame) /\ j \in Seq(Frame) /\ Len(i) \in 1..MaxDepth
      /\ Len(j) \in 1..MaxDepth
  BY IdIsSeq
<1>2. /\ Len(j) < Len(i) /\ \A m \in 1..Len(j) : j[m] = i[m]
      /\ n \in 1..Len(i)
  BY <1>1, BeneathPoints, EngineAssumption
<1>3. \A m \in 1..n : i[m] \in Frame
  BY <1>1, <1>2, ElementOfSeq, EngineAssumption
<1>4. /\ k \in Seq(Frame)
      /\ Len(k) = IF 1 <= n THEN n - 1 + 1 ELSE 0
      /\ \A m \in 1..n - 1 + 1 : k[m] = i[1 + m - 1]
  BY <1>1, <1>2, <1>3, SubSeqProperties, EngineAssumption
<1> HIDE DEF k
<1>5. Len(k) = n /\ n # 1 /\ n \in 1..MaxDepth /\ \A m \in 1..n : k[m] = i[m]
  BY <1>1, <1>2, <1>4, EngineAssumption
<1>6. k \in Id
  BY <1>4, <1>5, SeqIsId
<1>7. Beneath(k, j)
  BY <1>1, <1>2, <1>5, <1>6, BeneathPoints, EngineAssumption
<1>8. Parent(k) = j
  BY <1>1, <1>5, <1>7, EngineAssumption DEF Parent, Beneath
<1>9. CASE n = Len(i)
  BY <1>1, <1>4, <1>5, <1>6, <1>8, <1>9, SeqEqual
<1>10. CASE n # Len(i)
  BY <1>1, <1>2, <1>5, <1>6, <1>8, <1>10, BeneathPoints, EngineAssumption
<1> QED
  BY <1>9, <1>10

-----------------------------------------------------------------------------
(* The tree of calls under way.  Live calls belong to the one open run,    *)
(* a call below the root to a caller of that run, and whatever a live call *)
(* is nested in is in its body.                                            *)
Opened ==
    /\ \A a \in Attempt : IsLive(a) => runs[att[a].run] = "open"
    /\ \A q, r \in Run : runs[q] = "open" /\ runs[r] = "open" => q = r

Called ==
    \A a \in Attempt : att[a].pc # "idle" /\ Len(att[a].id) # 1 =>
        LET b == att[a].caller IN
        /\ b \in Attempt /\ att[b].pc # "idle"
        /\ att[b].run = att[a].run /\ att[b].id = Parent(att[a].id)

Chained ==
    \A a \in Attempt, i \in Id : IsLive(a) /\ Beneath(att[a].id, i) =>
        \E b \in Attempt :
            att[b].pc = "body" /\ att[b].run = att[a].run /\ att[b].id = i

Tree == Opened /\ Called /\ Chained

(* Two calls of one identity in one run are one; so are two live ones.     *)
LEMMA LiveAreUnique ==
    ASSUME Typed, Sequenced, Tree, NEW a \in Attempt, NEW b \in Attempt, IsLive(a),
           att[a].id = att[b].id, IsLive(b) \/ att[a].run = att[b].run
    PROVE  a = b
<1>1. att[a].pc # "idle"
  BY DEF IsLive, Live, StageOpen
<1>2. att[a].run = att[b].run
  <2> SUFFICES ASSUME IsLive(b) PROVE att[a].run = att[b].run
    OBVIOUS
  <2>1. att[b].pc # "idle"
    BY DEF IsLive, Live, StageOpen
  <2>2. att[a].run \in Run /\ att[b].run \in Run
    BY <1>1, <2>1 DEF Typed, Identified
  <2> QED
    BY <2>2 DEF Tree, Opened
<1> QED
  BY <1>1, <1>2 DEF Sequenced, IdsUniqueInRun

(* What a live call is beneath, among the calls that are live or of its    *)
(* run, is in its body.                                                    *)
LEMMA AboveInBody ==
    ASSUME Typed, Sequenced, Tree, NEW a \in Attempt, NEW b \in Attempt, IsLive(a),
           att[b].pc # "idle", Beneath(att[a].id, att[b].id),
           IsLive(b) \/ att[a].run = att[b].run
    PROVE  att[b].pc = "body"
<1>1. att[b].id \in Id
  BY DEF Typed, Identified
<1>2. PICK c \in Attempt : /\ att[c].pc = "body" /\ att[c].run = att[a].run
                           /\ att[c].id = att[b].id
  BY <1>1 DEF Tree, Chained
<1>3. IsLive(c)
  BY <1>2 DEF IsLive, Live, StageOpen
<1>4. c = b
  BY <1>2, <1>3, LiveAreUnique
<1> QED
  BY <1>2, <1>4

(* A body that leaves no live call it made leaves none beneath itself.     *)
LEMMA NoneLiveBeneath ==
    ASSUME Typed, Sequenced, Tree, NEW a \in Attempt, IsLive(a),
           \A b \in Attempt : att[b].caller = a => ~IsLive(b)
    PROVE  \A b \in Attempt : IsLive(b) => ~Beneath(att[b].id, att[a].id)
<1> SUFFICES ASSUME NEW b \in Attempt, IsLive(b), Beneath(att[b].id, att[a].id)
             PROVE  FALSE
  OBVIOUS
<1>1. att[a].id \in Id /\ att[b].id \in Id /\ att[a].run \in Run /\ att[b].run \in Run
  BY DEF Typed, Identified, IsLive, Live, StageOpen
<1>2. att[a].run = att[b].run
  BY <1>1 DEF Tree, Opened
<1>3. PICK k \in Id : /\ Parent(k) = att[a].id /\ Len(k) # 1
                      /\ k = att[b].id \/ Beneath(att[b].id, k)
  BY <1>1, ChildTowards
<1>4. PICK c \in Attempt : IsLive(c) /\ att[c].id = k /\ att[c].run = att[a].run
  <2>1. CASE k = att[b].id
    BY <1>2, <2>1
  <2>2. CASE Beneath(att[b].id, k)
    BY <1>2, <2>2 DEF Tree, Chained, IsLive, Live, StageOpen
  <2> QED
    BY <1>3, <2>1, <2>2
<1>5. att[c].pc # "idle"
  BY <1>4 DEF IsLive, Live, StageOpen
<1> DEFINE d == att[c].caller
<1>6. d \in Attempt /\ att[d].run = att[a].run /\ att[d].id = att[a].id
  BY <1>3, <1>4, <1>5 DEF Tree, Called
<1>7. d = a
  BY <1>6, LiveAreUnique
<1> QED
  BY <1>4, <1>7

-----------------------------------------------------------------------------
(* The steps of one attempt after it was entered, as far as the tree goes. *)
Own(a) ==
    /\ runs' = runs
    /\ \A b \in Attempt : /\ att'[b].id = att[b].id /\ att'[b].run = att[b].run
                          /\ att'[b].caller = att[b].caller
                          /\ b # a => att'[b] = att[b]
    /\ att'[a].pc = "idle" <=> att[a].pc = "idle"
    /\ IsLive(a)' => IsLive(a)
    /\ ~Detached /\ att[a].pc = "body" /\ att'[a].pc # "body" =>
         \A b \in Attempt : att[b].caller = a => ~IsLive(b)

LEMMA OwnLocals ==
    ASSUME Typed, NEW a \in Attempt, NEW new, att' = [att EXCEPT ![a] = new],
           new.id = att[a].id, new.run = att[a].run, new.caller = att[a].caller,
           runs' = runs, new.pc \in Live \cup Ended, att[a].pc \in Live,
           att[a].pc = "body" => new.pc = "body" \/ Settled(a)
    PROVE  Own(a)
<1>1. att'[a] = new /\ \A b \in Attempt : b # a => att'[b] = att[b]
  BY DEF Typed, TypeOK
<1>2. new.pc # "idle" /\ att[a].pc # "idle"
  BY DEF Live, StageOpen, Ended
<1>3. ~Detached /\ new.pc # "body" /\ att[a].pc = "body" =>
        \A b \in Attempt : att[b].caller = a => ~IsLive(b)
  BY DEF Settled
<1>4. /\ \A b \in Attempt : /\ att'[b].id = att[b].id /\ att'[b].run = att[b].run
                            /\ att'[b].caller = att[b].caller
                            /\ b # a => att'[b] = att[b]
      /\ att'[a].pc = new.pc
  BY <1>1
<1> QED
  BY <1>2, <1>3, <1>4 DEF Own, IsLive

(* The records of locals that Goto, Stage and Leave put in place.          *)
LEMMA OwnRecords ==
    ASSUME Typed, NEW a \in Attempt
    PROVE  /\ \A pc : \E new : /\ Goto(a, pc) = [att EXCEPT ![a] = new]
                               /\ new.id = att[a].id /\ new.run = att[a].run
                               /\ new.caller = att[a].caller /\ new.pc = pc
           /\ \A pc, rec : \E new :
                /\ Stage(a, pc, rec) = [att EXCEPT ![a] = new]
                /\ new.id = att[a].id /\ new.run = att[a].run
                /\ new.caller = att[a].caller /\ new.pc = pc
           /\ \A end, ret : \E new :
                /\ Leave(a, end, ret) = [att EXCEPT ![a] = new]
                /\ new.id = att[a].id /\ new.run = att[a].run
                /\ new.caller = att[a].caller /\ new.pc = end
<1>0. att[a] \in AttemptState
  BY DEF Typed, TypeOK
<1>1. ASSUME NEW pc
      PROVE  \E new : /\ Goto(a, pc) = [att EXCEPT ![a] = new]
                      /\ new.id = att[a].id /\ new.run = att[a].run
                      /\ new.caller = att[a].caller /\ new.pc = pc
  <2> DEFINE x == [att[a] EXCEPT !.pc = pc]
  <2>1. x.id = att[a].id /\ x.run = att[a].run /\ x.caller = att[a].caller /\ x.pc = pc
    BY <1>0 DEF AttemptState
  <2>2. Goto(a, pc) = [att EXCEPT ![a] = x]
    BY DEF Goto
  <2> HIDE DEF x
  <2> QED
    BY <2>1, <2>2
<1>2. ASSUME NEW pc, NEW rec
      PROVE  \E new : /\ Stage(a, pc, rec) = [att EXCEPT ![a] = new]
                      /\ new.id = att[a].id /\ new.run = att[a].run
                      /\ new.caller = att[a].caller /\ new.pc = pc
  <2> DEFINE x == [att[a] EXCEPT !.pc = pc, !.staged = rec]
  <2>1. x.id = att[a].id /\ x.run = att[a].run /\ x.caller = att[a].caller /\ x.pc = pc
    BY <1>0 DEF AttemptState
  <2>2. Stage(a, pc, rec) = [att EXCEPT ![a] = x]
    BY DEF Stage
  <2> HIDE DEF x
  <2> QED
    BY <2>1, <2>2
<1>3. ASSUME NEW end, NEW ret
      PROVE  \E new : /\ Leave(a, end, ret) = [att EXCEPT ![a] = new]
                      /\ new.id = att[a].id /\ new.run = att[a].run
                      /\ new.caller = att[a].caller /\ new.pc = end
  <2> DEFINE x == [att[a] EXCEPT !.pc = end, !.ret = ret, !.staged = Absent,
                                 !.found = Absent, !.doomed = {}]
  <2>1. x.id = att[a].id /\ x.run = att[a].run /\ x.caller = att[a].caller /\ x.pc = end
    BY <1>0 DEF AttemptState
  <2>2. Leave(a, end, ret) = [att EXCEPT ![a] = x]
    BY DEF Leave
  <2> HIDE DEF x
  <2> QED
    BY <2>1, <2>2
<1> QED
  BY <1>1, <1>2, <1>3

LEMMA OwnMoves ==
    ASSUME Typed, NEW a \in Attempt, NEW pc \in Live \cup Ended, runs' = runs,
           \/ att' = Goto(a, pc)
           \/ \E rec : att' = Stage(a, pc, rec)
           \/ \E ret : att' = Leave(a, pc, ret),
           att[a].pc \in Live,
           att[a].pc = "body" => pc = "body" \/ Settled(a)
    PROVE  Own(a)
<1>1. PICK new : /\ att' = [att EXCEPT ![a] = new]
                 /\ new.id = att[a].id /\ new.run = att[a].run
                 /\ new.caller = att[a].caller /\ new.pc = pc
  BY OwnRecords
<1> QED
  BY <1>1, OwnLocals

LEMMA OwnStill ==
    ASSUME NEW a \in Attempt, att' = att, runs' = runs PROVE Own(a)
BY DEF Own, IsLive

LEMMA OwnStep ==
    ASSUME Typed, NEW a \in Attempt,
           Progress(a) \/ Abandon(a) \/ \E k \in Key : MetadataRead(a, k)
    PROVE  Own(a)
<1> USE DEF Live, Ended, StageOpen, history
<1>0. att[a] \in AttemptState
  BY DEF Typed, TypeOK
<1>1. CASE Check(a)
  BY <1>1, OwnMoves DEF Check
<1>2. CASE StartRead(a)
  BY <1>2, OwnMoves DEF StartRead
<1>3. CASE StartCommit(a)
  BY <1>3, OwnMoves DEF StartCommit
<1>4. CASE \E k \in Key : MetadataSave(a, k)
  <2>1. CASE att[a].pc \in StageOpen
    <3>1. (\E rec : att' = Stage(a, att[a].pc, rec)) /\ runs' = runs
      BY <1>4, <2>1 DEF MetadataSave
    <3> QED
      BY <2>1, <3>1, OwnMoves
  <2>2. CASE att[a].pc \notin StageOpen
    <3>1. att' = att /\ runs' = runs
      BY <1>4, <2>2 DEF MetadataSave
    <3> QED
      BY <3>1, OwnStill
  <2> QED
    BY <2>1, <2>2
<1>5. CASE BodyReturn(a)
  <2>1. CASE Visible(a) = Absent
    BY <1>5, <2>1, OwnMoves DEF BodyReturn
  <2>2. CASE Visible(a) # Absent
    <3> DEFINE x == [att[a] EXCEPT !.pc = "serialize", !.found = Visible(a)]
    <3>1. /\ x.id = att[a].id /\ x.run = att[a].run /\ x.caller = att[a].caller
          /\ x.pc = "serialize"
      BY <1>0 DEF AttemptState
    <3>2. /\ att' = [att EXCEPT ![a] = x] /\ runs' = runs /\ att[a].pc = "body"
          /\ Settled(a)
      BY <1>5, <2>2 DEF BodyReturn
    <3> HIDE DEF x
    <3> QED
      BY <3>1, <3>2, OwnLocals
  <2> QED
    BY <2>1, <2>2
<1>6. CASE BodyRaise(a)
  BY <1>6, OwnMoves DEF BodyRaise
<1>7. CASE EmitFailed(a)
  BY <1>7, OwnMoves DEF EmitFailed
<1>8. CASE CompleteSave(a)
  <2>1. CASE att[a].found.status = "completed"
    BY <1>8, <2>1, OwnMoves DEF CompleteSave
  <2>2. CASE att[a].found.status # "completed"
    <3> DEFINE x == [att[a] EXCEPT !.pc = "commit", !.found = Absent,
                                   !.staged = Complete(att[a].found, a)]
    <3>1. /\ x.id = att[a].id /\ x.run = att[a].run /\ x.caller = att[a].caller
          /\ x.pc = "commit"
      BY <1>0 DEF AttemptState
    <3>2. att' = [att EXCEPT ![a] = x] /\ runs' = runs /\ att[a].pc = "serialize"
      BY <1>8, <2>2 DEF CompleteSave
    <3> HIDE DEF x
    <3> QED
      BY <3>1, <3>2, OwnLocals
  <2> QED
    BY <2>1, <2>2
<1>9. CASE Commit(a)
  BY <1>9, OwnMoves DEF Commit
<1>10. CASE Emit(a)
  <2>1. att[a].pc = "emit" /\ runs' = runs
    BY <1>10 DEF Emit
  <2>2. att' = Goto(a, "pruneRead") \/ att' = Leave(a, "returned", a)
    BY <1>10 DEF Emit
  <2>3. CASE att' = Goto(a, "pruneRead")
    BY <2>1, <2>3, OwnMoves
  <2>4. CASE att' = Leave(a, "returned", a)
    BY <2>1, <2>4, OwnMoves
  <2> QED
    BY <2>2, <2>3, <2>4
<1>11. CASE PruneRead(a)
  <2> DEFINE doomed == {i \in Id : Beneath(i, att[a].id) /\ store[i] # Absent}
             x == [att[a] EXCEPT !.pc = "pruneCommit", !.doomed = doomed]
  <2>1. /\ x.id = att[a].id /\ x.run = att[a].run /\ x.caller = att[a].caller
        /\ x.pc = "pruneCommit"
    BY <1>0 DEF AttemptState
  <2>2. att' = [att EXCEPT ![a] = x] /\ runs' = runs /\ att[a].pc = "pruneRead"
    BY <1>11 DEF PruneRead
  <2> HIDE DEF x
  <2> QED
    BY <2>1, <2>2, OwnLocals
<1>12. CASE PruneCommit(a)
  <2>1. att[a].pc = "pruneCommit" /\ runs' = runs
    BY <1>12 DEF PruneCommit
  <2>2. att' = Leave(a, "returned", a) \/ att' = Leave(a, "raised", None)
    BY <1>12 DEF PruneCommit
  <2> QED
    BY <2>1, <2>2, OwnMoves
<1>13. CASE PruneFails(a)
  BY <1>13, OwnMoves DEF PruneFails
<1>14. CASE Abandon(a)
  BY <1>14, OwnMoves DEF Abandon, IsLive
<1>15. CASE \E k \in Key : MetadataRead(a, k)
  BY <1>15, OwnStill DEF MetadataRead
<1> QED
  BY <1>1, <1>2, <1>3, <1>4, <1>5, <1>6, <1>7, <1>8, <1>9, <1>10, <1>11, <1>12,
     <1>13, <1>14, <1>15 DEF Progress

LEMMA TreeOwn ==
    ASSUME Typed, Sequenced, ~Detached, Tree, NEW a \in Attempt, Own(a)
    PROVE  Tree'
<1>1. \A b \in Attempt : IsLive(b)' => IsLive(b)
  BY DEF Own, IsLive
<1>2. Opened'
  BY <1>1 DEF Tree, Opened, Own
<1>3. Called'
  BY DEF Tree, Called, Own
<1>4. Chained'
  <2> SUFFICES ASSUME NEW b \in Attempt, NEW i \in Id, IsLive(b)', Beneath(att'[b].id, i)
               PROVE  \E c \in Attempt : /\ att'[c].pc = "body" /\ att'[c].run = att'[b].run
                                         /\ att'[c].id = i
    BY DEF Chained
  <2>1. IsLive(b) /\ Beneath(att[b].id, i)
    BY <1>1 DEF Own
  <2>2. PICK c \in Attempt : /\ att[c].pc = "body" /\ att[c].run = att[b].run
                             /\ att[c].id = i
    BY <2>1 DEF Tree, Chained
  <2>3. att'[c].pc = "body"
    <3>1. SUFFICES ASSUME c = a, att'[a].pc # "body" PROVE FALSE
      BY <2>2 DEF Own
    <3>2. IsLive(a)
      BY <2>2, <3>1 DEF IsLive, Live, StageOpen
    <3>3. \A d \in Attempt : att[d].caller = a => ~IsLive(d)
      BY <2>2, <3>1 DEF Own
    <3> QED
      BY <2>1, <2>2, <3>1, <3>2, <3>3, NoneLiveBeneath
  <2> QED
    BY <2>2, <2>3 DEF Own
<1> QED
  BY <1>2, <1>3, <1>4 DEF Tree

LEMMA TreeRuns ==
    ASSUME Typed, ~Detached, Tree, NEW r \in Run, OpenRun(r) \/ CloseRun(r) \/ Crash(r)
    PROVE  Tree' /\ (\A a \in Attempt : ~IsLive(a)')
<1>1. \A a \in Attempt : IsLive(a) =>
         /\ att[a].run \in Run /\ runs[att[a].run] = "open"
         /\ runs[r] = "open" => att[a].run = r
  BY DEF Tree, Opened, Typed, Identified, IsLive, Live, StageOpen
<1>2. /\ \A b \in Attempt : /\ att'[b].id = att[b].id /\ att'[b].run = att[b].run
                            /\ att'[b].caller = att[b].caller
                            /\ att'[b].pc = "idle" <=> att[b].pc = "idle"
      /\ \A q, s \in Run : runs'[q] = "open" /\ runs'[s] = "open" => q = s
      /\ \A b \in Attempt : ~IsLive(b)'
  <2>1. CASE OpenRun(r)
    <3>1. att' = att /\ \A q \in Run : runs[q] # "open" /\ (q # r => runs'[q] = runs[q])
      BY <2>1 DEF OpenRun, Typed, TypeOK
    <3> QED
      BY <1>1, <3>1 DEF IsLive
  <2>2. CASE CloseRun(r)
    <3>1. /\ att' = att /\ runs[r] = "open"
          /\ \A a \in Attempt : att[a].run = r => ~IsLive(a)
          /\ \A q \in Run : runs'[q] = "open" => runs[q] = "open"
      BY <2>2 DEF CloseRun, Typed, TypeOK
    <3> QED
      BY <1>1, <3>1 DEF IsLive, Tree, Opened
  <2>3. CASE Crash(r)
    <3>1. /\ runs[r] = "closed" => \E a \in Attempt : att[a].run = r /\ IsLive(a)
          /\ runs[r] \in {"open", "closed"}
          /\ \A q \in Run : runs'[q] = "open" => runs[q] = "open"
      BY <2>3 DEF Crash, Typed, TypeOK
    <3>2. \A b \in Attempt : IsLive(b) => att[b].run = r
      BY <1>1, <3>1
    <3>3. ASSUME NEW b \in Attempt
          PROVE  /\ att'[b].id = att[b].id /\ att'[b].run = att[b].run
                 /\ att'[b].caller = att[b].caller
                 /\ att'[b].pc = "idle" <=> att[b].pc = "idle"
                 /\ ~IsLive(b)'
      <4>1. CASE IsLive(b)
        <5>1. att'[b] = Leave(b, "crashed", None)[b]
          BY <2>3, <3>2, <4>1 DEF Crash
        <5>2. PICK new : /\ Leave(b, "crashed", None) = [att EXCEPT ![b] = new]
                         /\ new.id = att[b].id /\ new.run = att[b].run
                         /\ new.caller = att[b].caller /\ new.pc = "crashed"
          BY OwnRecords
        <5>3. att'[b] = new
          BY <5>1, <5>2 DEF Typed, TypeOK
        <5> QED
          BY <4>1, <5>2, <5>3 DEF IsLive, Live, StageOpen
      <4>2. CASE ~IsLive(b)
        <5>1. att'[b] = att[b]
          BY <2>3, <4>2 DEF Crash
        <5> QED
          BY <4>2, <5>1 DEF IsLive
      <4> QED
        BY <4>1, <4>2
    <3>4. \A q, s \in Run : runs'[q] = "open" /\ runs'[s] = "open" => q = s
      BY <3>1 DEF Tree, Opened
    <3> QED
      BY <3>3, <3>4
  <2> QED
    BY <2>1, <2>2, <2>3
<1>3. Opened' /\ Chained'
  BY <1>2 DEF Opened, Chained
<1>4. Called'
  BY <1>2 DEF Tree, Called
<1> QED
  BY <1>2, <1>3, <1>4 DEF Tree

(* Where calls come from: the root of the open run, or a body of it.       *)
Asked(r, caller, p) ==
    /\ runs[r] = "open"
    /\ \/ p = Root
       \/ /\ caller \in Attempt /\ att[caller].pc = "body"
          /\ att[caller].run = r /\ att[caller].id = p

LEMMA CallIsAsked ==
    ASSUME Typed, ~Detached, Tree, NEW a \in Attempt, CallFromSession(a) \/ CallFromBody(a)
    PROVE  \E r \in Run, c \in Content, caller \in Attempt \cup {None}, p \in Id \cup {Root} :
              Asked(r, caller, p) /\ Enter(a, r, caller, p, c)
<1>1. CASE CallFromSession(a)
  BY <1>1 DEF CallFromSession, Asked
<1>2. CASE CallFromBody(a)
  <2>1. PICK b \in Attempt, c \in Content :
          att[b].pc = "body" /\ Enter(a, att[b].run, b, att[b].id, c)
    BY <1>2 DEF CallFromBody
  <2>2. IsLive(b) /\ att[b].id \in Id /\ att[b].run \in Run
    BY <2>1 DEF IsLive, Live, StageOpen, Typed, Identified
  <2>3. Asked(att[b].run, b, att[b].id)
    BY <2>1, <2>2 DEF Asked, Tree, Opened
  <2> QED
    BY <2>1, <2>2, <2>3
<1> QED
  BY <1>1, <1>2

(* What entering a call changes.                                           *)
LEMMA EnterShape ==
    ASSUME Typed, NEW a \in Attempt, NEW r \in Run, NEW c \in Content,
           NEW caller \in Attempt \cup {None}, NEW p \in Id \cup {Root},
           Enter(a, r, caller, p, c)
    PROVE  /\ att[a].pc = "idle" /\ att'[a].pc = "check"
           /\ att'[a].run = r /\ att'[a].caller = caller
           /\ att'[a].id = NextId(r, p, c) /\ att'[a].staged = Absent
           /\ att'[a].id \in Id /\ Parent(att'[a].id) = p
           /\ Len(att'[a].id) = Len(p) + 1
           /\ \A j \in Id : Beneath(att'[a].id, j) => p \in Id /\ (j = p \/ Beneath(p, j))
           /\ \A b \in Attempt : b # a => att'[b] = att[b]
           /\ UNCHANGED <<store, runs, setter, entered, durable, emitted, failed>>
<1> DEFINE new == [Idle EXCEPT !.pc = "check", !.run = r,
                               !.id = NextId(r, p, c), !.caller = caller]
<1>1. /\ new.pc = "check" /\ new.run = r /\ new.caller = caller
      /\ new.id = NextId(r, p, c) /\ new.staged = Absent
  BY DEF Idle
<1>2. att' = [att EXCEPT ![a] = new] /\ att[a].pc = "idle"
  BY DEF Enter
<1> HIDE DEF new
<1>3. att'[a] = new /\ \A b \in Attempt : b # a => att'[b] = att[b]
  BY <1>2 DEF Typed, TypeOK
<1>4. NextId(r, p, c) \in Id /\ counter[r][<<p, c>>] \in 0..(MaxOrdinal - 1)
  BY NextIdIsId DEF Enter, Typed
<1> DEFINE f == [content |-> c, seq |-> counter[r][<<p, c>>]]
<1>5. NextId(r, p, c) = Append(p, f) /\ f \in Frame
  BY <1>4 DEF NextId, Frame
<1> HIDE DEF f
<1>6. /\ Parent(NextId(r, p, c)) = p /\ Len(NextId(r, p, c)) = Len(p) + 1
      /\ \A j \in Id : Beneath(NextId(r, p, c), j) => p \in Id /\ (j = p \/ Beneath(p, j))
  BY <1>4, <1>5, ParentOfChild
<1>7. UNCHANGED <<store, runs, setter, entered, durable, emitted, failed>>
  BY DEF Enter, history
<1> QED
  BY <1>1, <1>2, <1>3, <1>4, <1>6, <1>7

LEMMA TreeEnter ==
    ASSUME Typed, Tree, NEW a \in Attempt, NEW r \in Run, NEW c \in Content,
           NEW caller \in Attempt \cup {None}, NEW p \in Id \cup {Root},
           Asked(r, caller, p), Enter(a, r, caller, p, c)
    PROVE  Tree'
<1>1. /\ att[a].pc = "idle" /\ att'[a].pc = "check" /\ att'[a].run = r
      /\ att'[a].caller = caller /\ att'[a].id \in Id /\ Parent(att'[a].id) = p
      /\ Len(att'[a].id) = Len(p) + 1
      /\ \A j \in Id : Beneath(att'[a].id, j) => p \in Id /\ (j = p \/ Beneath(p, j))
      /\ \A b \in Attempt : b # a => att'[b] = att[b]
      /\ runs' = runs
  BY EnterShape
<1>2. p # Root => /\ caller \in Attempt /\ caller # a /\ att[caller].pc = "body"
                  /\ att[caller].run = r /\ att[caller].id = p /\ IsLive(caller)
  BY <1>1 DEF Asked, IsLive, Live, StageOpen
<1>3. Opened'
  <2>1. runs[r] = "open"
    BY DEF Asked
  <2> QED
    BY <1>1, <2>1 DEF Tree, Opened, IsLive
<1>4. Called'
  <2> SUFFICES ASSUME NEW b \in Attempt, att'[b].pc # "idle", Len(att'[b].id) # 1
               PROVE  LET d == att'[b].caller IN
                      /\ d \in Attempt /\ att'[d].pc # "idle"
                      /\ att'[d].run = att'[b].run /\ att'[d].id = Parent(att'[b].id)
    BY DEF Called
  <2>1. CASE b = a
    <3>0. Len(Root) = 0
      BY EmptySeq DEF Root
    <3>1. p # Root
      <4> SUFFICES ASSUME p = Root PROVE FALSE
        OBVIOUS
      <4>1. Len(p) = 0
        BY <3>0
      <4>2. Len(att'[a].id) = Len(p) + 1 /\ Len(att'[a].id) # 1
        BY <1>1, <2>1
      <4> QED
        BY <4>1, <4>2
    <3> QED
      BY <1>1, <1>2, <2>1, <3>1
  <2>2. CASE b # a
    BY <1>1, <2>2 DEF Tree, Called
  <2> QED
    BY <2>1, <2>2
<1>5. Chained'
  <2> SUFFICES ASSUME NEW b \in Attempt, NEW i \in Id, IsLive(b)', Beneath(att'[b].id, i)
               PROVE  \E d \in Attempt : /\ att'[d].pc = "body" /\ att'[d].run = att'[b].run
                                         /\ att'[d].id = i
    BY DEF Chained
  <2>1. \A d \in Attempt : att[d].pc = "body" => att'[d] = att[d]
    BY <1>1
  <2>2. CASE b = a
    <3>1. p \in Id /\ (i = p \/ Beneath(p, i)) /\ p # Root
      BY <1>1, <2>2, IdIsSeq DEF Root
    <3>2. CASE i = p
      BY <1>1, <1>2, <2>1, <2>2, <3>1, <3>2
    <3>3. CASE Beneath(p, i)
      <4>1. PICK d \in Attempt : /\ att[d].pc = "body" /\ att[d].run = r /\ att[d].id = i
        BY <1>2, <3>1, <3>3 DEF Tree, Chained
      <4> QED
        BY <1>1, <2>1, <2>2, <4>1
    <3> QED
      BY <3>1, <3>2, <3>3
  <2>3. CASE b # a
    <3>1. att'[b] = att[b] /\ IsLive(b)
      BY <1>1, <2>3 DEF IsLive
    <3>2. PICK d \in Attempt : /\ att[d].pc = "body" /\ att[d].run = att[b].run
                               /\ att[d].id = i
      BY <3>1 DEF Tree, Chained
    <3> QED
      BY <2>1, <3>1, <3>2
  <2> QED
    BY <2>2, <2>3
<1> QED
  BY <1>3, <1>4, <1>5 DEF Tree

LEMMA TreeInit == Init => Tree
BY DEF Init, Idle, Tree, Opened, Called, Chained, IsLive, Live, StageOpen

LEMMA TreeNext ==
    ASSUME Typed, Sequenced, ~Detached, Tree, [Next]_vars
    PROVE  Tree'
<1>1. CASE \E r \in Run : OpenRun(r) \/ CloseRun(r) \/ Crash(r)
  BY <1>1, TreeRuns
<1>2. ASSUME NEW a \in Attempt, CallFromSession(a) \/ CallFromBody(a)
      PROVE  Tree'
  BY <1>2, CallIsAsked, TreeEnter
<1>3. ASSUME NEW a \in Attempt,
             Progress(a) \/ Abandon(a) \/ \E k \in Key : MetadataRead(a, k)
      PROVE  Tree'
  BY <1>3, OwnStep, TreeOwn
<1>4. CASE UNCHANGED vars
  BY <1>4 DEF vars, Tree, Opened, Called, Chained, IsLive
<1> QED
  BY <1>1, <1>2, <1>3, <1>4 DEF Next

-----------------------------------------------------------------------------
(* Where tasks may outlive the body or the session that started them, the  *)
(* calls under way form no tree; but unless runs overlap, one run at a     *)
(* time has live calls, the open one if there is one.                      *)
OneRunAtWork ==
    /\ \A a, b \in Attempt : IsLive(a) /\ IsLive(b) => att[a].run = att[b].run
    /\ \A a \in Attempt, r \in Run : IsLive(a) /\ runs[r] = "open" => att[a].run = r
    /\ \A q, r \in Run : runs[q] = "open" /\ runs[r] = "open" => q = r

(* Any call is made in some run, from its root or from a call of it.       *)
LEMMA CallIsMade ==
    ASSUME Typed, NEW a \in Attempt, CallFromSession(a) \/ CallFromBody(a)
    PROVE  \E r \in Run, c \in Content, caller \in Attempt \cup {None}, p \in Id \cup {Root} :
              /\ Enter(a, r, caller, p, c)
              /\ runs[r] = "open" \/ Overlap \/ Alone(r)
<1>1. CASE CallFromSession(a)
  BY <1>1 DEF CallFromSession
<1>2. CASE CallFromBody(a)
  <2>1. PICK b \in Attempt, c \in Content :
          /\ att[b].pc = "body" \/ b \in entered
          /\ Overlap \/ Alone(att[b].run)
          /\ Enter(a, att[b].run, b, att[b].id, c)
    BY <1>2 DEF CallFromBody
  <2>2. att[b].id \in Id /\ att[b].run \in Run
    BY <2>1 DEF Typed, Identified
  <2> QED
    BY <2>1, <2>2
<1> QED
  BY <1>1, <1>2

LEMMA OneRunInit == Init => OneRunAtWork
BY DEF Init, Idle, OneRunAtWork, IsLive, Live, StageOpen

LEMMA OneRunRuns ==
    ASSUME Typed, ~Overlap, OneRunAtWork, NEW r \in Run,
           OpenRun(r) \/ CloseRun(r) \/ Crash(r)
    PROVE  OneRunAtWork'
<1>1. \A b \in Attempt : IsLive(b)' => IsLive(b) /\ att'[b] = att[b]
  <2>1. CASE att' = att
    BY <2>1 DEF IsLive
  <2>2. CASE Crash(r)
    <3> SUFFICES ASSUME NEW b \in Attempt, IsLive(b)' PROVE IsLive(b) /\ att'[b] = att[b]
      OBVIOUS
    <3>1. Leave(b, "crashed", None)[b].pc = "crashed"
      BY DEF Leave, Typed, TypeOK, AttemptState
    <3>2. att'[b] = att[b]
      BY <2>2, <3>1 DEF Crash, IsLive, Live, StageOpen
    <3> QED
      BY <3>2 DEF IsLive
  <2> QED
    BY <2>1, <2>2 DEF OpenRun, CloseRun
<1>2. CASE OpenRun(r)
  <2>1. /\ \A b \in Attempt : IsLive(b) => att[b].run = r
        /\ \A q \in Run : runs'[q] = "open" => q = r
    BY <1>2 DEF OpenRun, Alone, Typed, TypeOK
  <2> QED
    BY <1>1, <2>1 DEF OneRunAtWork
<1>3. CASE CloseRun(r) \/ Crash(r)
  <2>1. \A q \in Run : runs'[q] = "open" => runs[q] = "open"
    BY <1>3 DEF CloseRun, Crash, Typed, TypeOK
  <2> QED
    BY <1>1, <2>1 DEF OneRunAtWork
<1> QED
  BY <1>2, <1>3

LEMMA OneRunNext ==
    ASSUME Typed, ~Overlap, OneRunAtWork, [Next]_vars
    PROVE  OneRunAtWork'
<1>1. CASE \E r \in Run : OpenRun(r) \/ CloseRun(r) \/ Crash(r)
  BY <1>1, OneRunRuns
<1>2. ASSUME NEW a \in Attempt, CallFromSession(a) \/ CallFromBody(a)
      PROVE  OneRunAtWork'
  <2>1. PICK r \in Run, c \in Content, caller \in Attempt \cup {None}, p \in Id \cup {Root} :
          /\ Enter(a, r, caller, p, c)
          /\ runs[r] = "open" \/ Alone(r)
    BY <1>2, CallIsMade
  <2>2. /\ att'[a].run = r /\ \A b \in Attempt : b # a => att'[b] = att[b]
        /\ runs' = runs
    BY <2>1, EnterShape
  <2>3. /\ \A b \in Attempt : IsLive(b) => att[b].run = r
        /\ \A q \in Run : runs[q] = "open" => q = r
    BY <2>1 DEF Alone, OneRunAtWork
  <2>4. \A b \in Attempt : IsLive(b)' => att'[b].run = r
    BY <2>2, <2>3 DEF IsLive
  <2> QED
    BY <2>2, <2>3, <2>4 DEF OneRunAtWork
<1>3. ASSUME NEW a \in Attempt,
             Progress(a) \/ Abandon(a) \/ \E k \in Key : MetadataRead(a, k)
      PROVE  OneRunAtWork'
  <2>1. /\ runs' = runs
        /\ \A b \in Attempt : att'[b].run = att[b].run /\ (IsLive(b)' => IsLive(b))
    BY <1>3, OwnStep DEF Own, IsLive
  <2> QED
    BY <2>1 DEF OneRunAtWork
<1>4. CASE UNCHANGED vars
  BY <1>4 DEF vars, OneRunAtWork, IsLive
<1> QED
  BY <1>1, <1>2, <1>3, <1>4 DEF Next

-----------------------------------------------------------------------------
(* What the records and the locals of every attempt amount to. *)

InFlight(rec) == rec.status = "started" /\ rec.result = None

(* A record is absent, what START wrote, or the committed work of a call.  *)
Recorded(i) ==
    \/ store[i] \in {Absent, Started}
    \/ /\ store[i].status = "completed" /\ store[i].result \in durable
       /\ att[store[i].result].id = i

(* Committed work is in its record, or pruned from beneath another one.    *)
Lasting(b) ==
    \/ store[att[b].id].status = "completed" /\ store[att[b].id].result = b
    \/ Pruning /\ \E i \in Id : Beneath(att[b].id, i) /\ store[i].status = "completed"

Past == {"emit", "pruneRead", "pruneCommit"}

Placed(a) ==
    /\ att[a].pc = "startRead" => store[att[a].id].status # "completed"
    /\ att[a].pc = "startCommit" =>
         \/ att[a].staged = Absent /\ store[att[a].id] = Started
         \/ att[a].staged = Started /\ store[att[a].id] = Absent
    /\ att[a].pc \in {"body", "serialize", "commit"} => store[att[a].id] = Started
    /\ att[a].pc \in StageOpen => att[a].staged = Absent \/ InFlight(att[a].staged)
    /\ att[a].pc = "serialize" => InFlight(att[a].found)
    /\ att[a].pc = "commit" =>
         att[a].staged.status = "completed" /\ att[a].staged.result = a
    /\ att[a].pc \in Past => a \in durable
    /\ att[a].pc \in {"pruneRead", "pruneCommit"} => Pruning
    /\ att[a].pc = "pruneCommit" =>
         /\ \A i \in att[a].doomed : Beneath(i, att[a].id)
         /\ \A i \in Id : Beneath(i, att[a].id) /\ store[i] # Absent
                          => i \in att[a].doomed
    /\ att[a].pc = "returned" =>
         att[a].ret \in durable /\ att[att[a].ret].id = att[a].id
    /\ a \in durable => att[a].pc \in Past \cup Ended /\ a \notin failed
    /\ a \in failed => att[a].pc = "raised"
    /\ \A k \in Key : setter[a][k].state = "read" => InFlight(setter[a][k].snap)

AllRecorded == \A i \in Id : Recorded(i)
AllLasting == \A b \in durable : Lasting(b)
OneCompletion == \A a, b \in durable : att[a].id = att[b].id => a = b
AllPlaced == \A a \in Attempt : Placed(a)

Kept == AllRecorded /\ AllLasting /\ OneCompletion /\ AllPlaced /\ emitted \subseteq durable

LEMMA KeptInit == Init => Kept
BY DEF Init, Idle, Unset, Kept, AllRecorded, AllLasting, OneCompletion, AllPlaced,
       Recorded, Placed, StageOpen, Past

(* The locals after Goto, Stage and Leave.                                 *)
LEMMA AfterGoto ==
    ASSUME Typed, NEW a \in Attempt, NEW pc, att' = Goto(a, pc)
    PROVE  /\ att'[a].pc = pc /\ att'[a].id = att[a].id /\ att'[a].staged = att[a].staged
           /\ att'[a].found = att[a].found /\ att'[a].doomed = att[a].doomed
           /\ att'[a].ret = att[a].ret
           /\ \A b \in Attempt : b # a => att'[b] = att[b]
BY DEF Typed, TypeOK, AttemptState, Goto

LEMMA AfterStage ==
    ASSUME Typed, NEW a \in Attempt, NEW pc, NEW rec, att' = Stage(a, pc, rec)
    PROVE  /\ att'[a].pc = pc /\ att'[a].id = att[a].id /\ att'[a].staged = rec
           /\ att'[a].found = att[a].found /\ att'[a].doomed = att[a].doomed
           /\ att'[a].ret = att[a].ret
           /\ \A b \in Attempt : b # a => att'[b] = att[b]
BY DEF Typed, TypeOK, AttemptState, Stage

LEMMA AfterLeave ==
    ASSUME Typed, NEW a \in Attempt, NEW pc, NEW ret, att' = Leave(a, pc, ret)
    PROVE  /\ att'[a].pc = pc /\ att'[a].id = att[a].id /\ att'[a].ret = ret
           /\ \A b \in Attempt : b # a => att'[b] = att[b]
BY DEF Typed, TypeOK, AttemptState, Leave

-----------------------------------------------------------------------------
(* A step of a, as the other attempts see it. *)
Aside(a) ==
    /\ \A b \in Attempt : b # a =>
         /\ att'[b] = att[b] /\ setter'[b] = setter[b]
         /\ b \in failed' <=> b \in failed
         /\ b \in durable' <=> b \in durable
    /\ durable \subseteq durable'
    /\ a \in durable => att'[a].id = att[a].id

LEMMA OthersPlaced ==
    ASSUME Typed, Kept, NEW a \in Attempt, Aside(a), NEW b \in Attempt, b # a,
           IsLive(b) => store'[att[b].id] = store[att[b].id],
           att[b].pc = "pruneCommit" =>
             \A i \in Id : Beneath(i, att[b].id) /\ store'[i] # Absent
                           => store[i] # Absent
    PROVE  Placed(b)'
<1>1. /\ Placed(b) /\ att'[b] = att[b] /\ setter'[b] = setter[b]
      /\ b \in failed' <=> b \in failed
      /\ b \in durable' <=> b \in durable
  BY DEF Kept, AllPlaced, Aside
<1>2. ASSUME att[b].pc = "returned"
      PROVE  att[b].ret \in durable' /\ att'[att[b].ret].id = att[b].id
  <2>1. att[b].ret \in durable /\ att[att[b].ret].id = att[b].id
    BY <1>1, <1>2 DEF Placed
  <2>2. att'[att[b].ret].id = att[att[b].ret].id
    BY <2>1 DEF Aside, Typed, TypeOK
  <2> QED
    BY <2>1, <2>2 DEF Aside
<1>3. ASSUME att[b].pc \in {"startRead", "startCommit", "body", "serialize", "commit"}
      PROVE  store'[att[b].id] = store[att[b].id]
  BY <1>3 DEF IsLive, Live, StageOpen
<1>4. /\ att'[b].pc = "startRead" => store'[att'[b].id].status # "completed"
      /\ att'[b].pc = "startCommit" =>
           \/ att'[b].staged = Absent /\ store'[att'[b].id] = Started
           \/ att'[b].staged = Started /\ store'[att'[b].id] = Absent
      /\ att'[b].pc \in {"body", "serialize", "commit"} => store'[att'[b].id] = Started
  BY <1>1, <1>3 DEF Placed
<1>5. att'[b].pc = "pruneCommit" =>
        /\ \A i \in att'[b].doomed : Beneath(i, att'[b].id)
        /\ \A i \in Id : Beneath(i, att'[b].id) /\ store'[i] # Absent
                         => i \in att'[b].doomed
  BY <1>1 DEF Placed
<1>6. /\ att'[b].pc \in StageOpen => att'[b].staged = Absent \/ InFlight(att'[b].staged)
      /\ att'[b].pc = "serialize" => InFlight(att'[b].found)
      /\ att'[b].pc = "commit" =>
           att'[b].staged.status = "completed" /\ att'[b].staged.result = b
      /\ att'[b].pc \in Past => b \in durable'
      /\ att'[b].pc \in {"pruneRead", "pruneCommit"} => Pruning
      /\ b \in durable' => att'[b].pc \in Past \cup Ended /\ b \notin failed'
      /\ b \in failed' => att'[b].pc = "raised"
      /\ \A k \in Key : setter'[b][k].state = "read" => InFlight(setter'[b][k].snap)
  BY <1>1 DEF Placed
<1> HIDE DEF InFlight
<1> QED
  BY <1>1, <1>2, <1>4, <1>5, <1>6 DEF Placed, InFlight

LEMMA KeptStill ==
    ASSUME Typed, Kept, NEW a \in Attempt, Aside(a), store' = store, durable' = durable,
           emitted' \subseteq durable, Placed(a)'
    PROVE  Kept'
<1>1. \A b \in durable : b \in Attempt /\ att'[b].id = att[b].id
  BY DEF Aside, Typed, TypeOK
<1>2. AllRecorded'
  BY <1>1 DEF Kept, AllRecorded, Recorded
<1>3. AllLasting'
  BY <1>1 DEF Kept, AllLasting, Lasting
<1>4. OneCompletion'
  BY <1>1 DEF Kept, OneCompletion
<1>5. AllPlaced'
  BY OthersPlaced DEF AllPlaced
<1> QED
  BY <1>2, <1>3, <1>4, <1>5 DEF Kept

(* A running body sees a STARTED record, whatever its metadata.            *)
LEMMA SeenInFlight ==
    ASSUME Typed, NEW a \in Attempt, Placed(a), att[a].pc \in StageOpen
    PROVE  Visible(a) # Absent /\ InFlight(Visible(a))
<1>1. att[a].pc \in {"body", "serialize", "commit"}
  BY DEF StageOpen
<1>2. store[att[a].id] = Started /\ (att[a].staged = Absent \/ InFlight(att[a].staged))
  BY <1>1 DEF Placed
<1>3. InFlight(Started) /\ Started # Absent
  BY DEF InFlight, Started, Absent
<1> QED
  BY <1>2, <1>3 DEF Visible

LEMMA PlacedCheck ==
    ASSUME Typed, Kept, NEW a \in Attempt, Check(a)
    PROVE  Placed(a)'
<1> DEFINE rec == store[att[a].id]
<1>1. /\ Placed(a) /\ att[a].pc = "check"
      /\ UNCHANGED <<store, setter, durable, failed>>
  BY DEF Check, Kept, AllPlaced, history
<1>2. att[a].id \in Id
  BY <1>1 DEF Typed, Identified
<1>3. /\ a \notin durable' /\ a \notin failed'
      /\ \A k \in Key : setter'[a][k].state = "read" => InFlight(setter'[a][k].snap)
  BY <1>1 DEF Placed, Past, Ended
<1>4. CASE rec.status = "completed"
  <2>1. att' = Leave(a, "returned", rec.result)
    BY <1>4 DEF Check
  <2>2. att'[a].pc = "returned" /\ att'[a].id = att[a].id /\ att'[a].ret = rec.result
        /\ \A b \in Attempt : b # a => att'[b] = att[b]
    BY <2>1, AfterLeave
  <2>3. Recorded(att[a].id)
    BY <1>2 DEF Kept, AllRecorded
  <2>4. rec.result \in durable /\ att[rec.result].id = att[a].id
    BY <1>4, <2>3 DEF Recorded, Absent, Started
  <2>5. rec.result \in Attempt /\ att'[rec.result].id = att[a].id
    BY <2>2, <2>4 DEF Typed, TypeOK
  <2>6. /\ att'[a].pc = "returned"
        /\ att'[a].ret \in durable' /\ att'[att'[a].ret].id = att'[a].id
    BY <1>1, <2>2, <2>4, <2>5
  <2> QED
    BY <1>3, <2>6 DEF Placed, StageOpen, Past, Ended
<1>5. CASE rec.status # "completed"
  <2>1. att' = Goto(a, "startRead")
    BY <1>5 DEF Check
  <2>2. att'[a].pc = "startRead" /\ att'[a].id = att[a].id
    BY <2>1, AfterGoto
  <2>3. store'[att'[a].id].status # "completed"
    BY <1>1, <1>5, <2>2
  <2> QED
    BY <1>3, <2>2, <2>3 DEF Placed, StageOpen, Past, Ended
<1> QED
  BY <1>4, <1>5

LEMMA PlacedStartRead ==
    ASSUME Typed, Kept, NEW a \in Attempt, StartRead(a)
    PROVE  Placed(a)'
<1> DEFINE rec == store[att[a].id]
           new == IF rec = Absent THEN Started ELSE Absent
<1>1. /\ Placed(a) /\ att[a].pc = "startRead" /\ att' = Stage(a, "startCommit", new)
      /\ UNCHANGED <<store, setter, durable, failed>>
  BY DEF StartRead, Kept, AllPlaced, history
<1>2. Recorded(att[a].id)
  BY <1>1 DEF Kept, AllRecorded, Typed, Identified
<1>3. rec \in {Absent, Started}
  BY <1>1, <1>2 DEF Recorded, Placed
<1>4. att'[a].pc = "startCommit" /\ att'[a].id = att[a].id /\ att'[a].staged = new
  BY <1>1, AfterStage
<1>5. \/ att'[a].staged = Absent /\ store'[att'[a].id] = Started
      \/ att'[a].staged = Started /\ store'[att'[a].id] = Absent
  BY <1>1, <1>3, <1>4
<1>6. /\ a \notin durable' /\ a \notin failed'
      /\ \A k \in Key : setter'[a][k].state = "read" => InFlight(setter'[a][k].snap)
  BY <1>1 DEF Placed, Past, Ended
<1> HIDE DEF rec, new
<1> QED
  BY <1>4, <1>5, <1>6 DEF Placed, StageOpen, Past, Ended

LEMMA PlacedSave ==
    ASSUME Typed, Kept, NEW a \in Attempt, NEW k \in Key, MetadataSave(a, k)
    PROVE  Placed(a)'
<1>1. /\ Placed(a) /\ setter[a][k].state = "read" /\ InFlight(setter[a][k].snap)
      /\ UNCHANGED <<store, durable, failed>>
  BY DEF MetadataSave, Kept, AllPlaced, Placed, history
<1>2. \A l \in Key : setter'[a][l].state = "read" => setter'[a][l] = setter[a][l]
  <2> DEFINE new == IF att[a].pc \in StageOpen THEN [state |-> "done", snap |-> Absent]
                    ELSE [state |-> "failed", snap |-> Absent]
  <2>1. new.state # "read"
    OBVIOUS
  <2>2. setter' = [setter EXCEPT ![a][k] = new]
    BY DEF MetadataSave
  <2> HIDE DEF new
  <2> QED
    BY <2>1, <2>2 DEF Typed, TypeOK
<1>3. \A l \in Key : setter'[a][l].state = "read" => InFlight(setter'[a][l].snap)
  BY <1>1, <1>2 DEF Placed
<1>4. CASE att[a].pc \in StageOpen
  <2> DEFINE new == SetMetadata(setter[a][k].snap, k)
  <2>1. att' = Stage(a, att[a].pc, new)
    BY <1>4 DEF MetadataSave
  <2>2. /\ att'[a].pc = att[a].pc /\ att'[a].id = att[a].id /\ att'[a].staged = new
        /\ att'[a].found = att[a].found
    BY <2>1, AfterStage
  <2>3. InFlight(new)
    <3>1. setter[a][k].snap \in Record
      BY DEF Typed, TypeOK, SetterState
    <3> QED
      BY <1>1, <3>1 DEF InFlight, SetMetadata, Record
  <2> HIDE DEF new
  <2>4. att[a].pc \in {"body", "serialize"}
    BY <1>4 DEF StageOpen
  <2>5. /\ store[att[a].id] = Started
        /\ att[a].pc = "serialize" => InFlight(att[a].found)
        /\ a \notin durable /\ a \notin failed
    BY <1>1, <2>4 DEF Placed, Past, Ended
  <2> HIDE DEF InFlight
  <2> QED
    BY <1>1, <1>3, <2>2, <2>3, <2>4, <2>5 DEF Placed, StageOpen, Past, Ended
<1>5. CASE att[a].pc \notin StageOpen
  <2>1. att' = att
    BY <1>5 DEF MetadataSave
  <2> HIDE DEF InFlight
  <2> QED
    BY <1>1, <1>3, <2>1 DEF Placed
<1> QED
  BY <1>4, <1>5

LEMMA PlacedRead ==
    ASSUME Typed, Kept, NEW a \in Attempt, NEW k \in Key, MetadataRead(a, k)
    PROVE  Placed(a)'
<1>1. Placed(a) /\ att[a].pc = "body" /\ UNCHANGED <<store, att, durable, failed>>
  BY DEF MetadataRead, Kept, AllPlaced, history
<1>2. Visible(a) # Absent /\ InFlight(Visible(a))
  BY <1>1, SeenInFlight DEF StageOpen
<1>3. setter' = [setter EXCEPT ![a][k] = [state |-> "read", snap |-> Visible(a)]]
  BY <1>2 DEF MetadataRead
<1>4. ASSUME NEW l \in Key, setter'[a][l].state = "read"
      PROVE  InFlight(setter'[a][l].snap)
  <2>1. CASE l = k
    <3>1. setter'[a][l].snap = Visible(a)
      BY <1>3, <2>1 DEF Typed, TypeOK
    <3> QED
      BY <1>2, <3>1
  <2>2. CASE l # k
    <3>1. setter'[a][l] = setter[a][l]
      BY <1>3, <2>2 DEF Typed, TypeOK
    <3> QED
      BY <1>1, <1>4, <3>1 DEF Placed
  <2> QED
    BY <2>1, <2>2
<1> HIDE DEF InFlight
<1> QED
  BY <1>1, <1>4 DEF Placed

LEMMA PlacedBodyEnds ==
    ASSUME Typed, Kept, NEW a \in Attempt, BodyReturn(a) \/ BodyRaise(a)
    PROVE  Placed(a)'
<1>1. /\ Placed(a) /\ att[a].pc = "body" /\ UNCHANGED <<store, setter, durable, failed>>
  BY DEF BodyReturn, BodyRaise, Kept, AllPlaced, history
<1>2. Visible(a) # Absent /\ InFlight(Visible(a))
  BY <1>1, SeenInFlight DEF StageOpen
<1>3. /\ store[att[a].id] = Started /\ a \notin durable /\ a \notin failed
      /\ att[a].staged = Absent \/ InFlight(att[a].staged)
  BY <1>1 DEF Placed, Past, Ended, StageOpen
<1>4. CASE BodyReturn(a)
  <2> DEFINE new == [att[a] EXCEPT !.pc = "serialize", !.found = Visible(a)]
  <2>1. att' = [att EXCEPT ![a] = new]
    BY <1>2, <1>4 DEF BodyReturn
  <2>2. /\ att'[a].pc = "serialize" /\ att'[a].id = att[a].id
        /\ att'[a].staged = att[a].staged /\ att'[a].found = Visible(a)
    BY <2>1 DEF Typed, TypeOK, AttemptState
  <2> HIDE DEF InFlight
  <2> QED
    BY <1>1, <1>2, <1>3, <2>2 DEF Placed, StageOpen, Past, Ended
<1>5. CASE BodyRaise(a)
  <2>1. att' = Stage(a, "emitFailed", Absent)
    BY <1>5 DEF BodyRaise
  <2>2. att'[a].pc = "emitFailed"
    BY <2>1, AfterStage
  <2> HIDE DEF InFlight
  <2> QED
    BY <1>1, <1>3, <2>2 DEF Placed, StageOpen, Past, Ended
<1> QED
  BY <1>4, <1>5

(* Leaving with an exception, whatever the attempt was about.              *)
LEMMA PlacedRaised ==
    ASSUME Typed, Kept, NEW a \in Attempt, att' = Leave(a, "raised", None),
           a \in durable => a \notin failed', UNCHANGED <<setter, durable>>
    PROVE  Placed(a)'
<1>1. Placed(a) /\ att'[a].pc = "raised"
  BY AfterLeave DEF Kept, AllPlaced
<1> HIDE DEF InFlight
<1> QED
  BY <1>1 DEF Placed, StageOpen, Past, Ended

LEMMA PlacedEmitFailed ==
    ASSUME Typed, Kept, NEW a \in Attempt, EmitFailed(a)
    PROVE  Placed(a)'
<1>1. Placed(a) /\ att[a].pc = "emitFailed"
  BY DEF EmitFailed, Kept, AllPlaced
<1>2. a \notin durable
  BY <1>1 DEF Placed, Past, Ended
<1> QED
  BY <1>2, PlacedRaised DEF EmitFailed

LEMMA PlacedAbandon ==
    ASSUME Typed, Kept, NEW a \in Attempt, Abandon(a)
    PROVE  Placed(a)'
<1>1. Placed(a)
  BY DEF Kept, AllPlaced
<1>2. a \in durable => a \notin failed
  BY <1>1 DEF Placed
<1> QED
  BY <1>2, PlacedRaised DEF Abandon, history

LEMMA PlacedCompleteSave ==
    ASSUME Typed, Kept, NEW a \in Attempt, CompleteSave(a)
    PROVE  Placed(a)'
<1>1. /\ Placed(a) /\ att[a].pc = "serialize" /\ UNCHANGED <<store, setter, durable, failed>>
  BY DEF CompleteSave, Kept, AllPlaced, history
<1>2. /\ store[att[a].id] = Started /\ a \notin durable /\ a \notin failed
      /\ att[a].found.status = "started"
  BY <1>1 DEF Placed, Past, Ended, InFlight
<1> DEFINE rec == Complete(att[a].found, a)
           new == [att[a] EXCEPT !.pc = "commit", !.found = Absent, !.staged = rec]
<1>3. att' = [att EXCEPT ![a] = new]
  BY <1>2 DEF CompleteSave
<1>4. rec.status = "completed" /\ rec.result = a
  <2>1. att[a].found \in Record
    BY DEF Typed, TypeOK, AttemptState
  <2> QED
    BY <2>1 DEF Complete, Record
<1> HIDE DEF rec
<1>5. att'[a].pc = "commit" /\ att'[a].id = att[a].id /\ att'[a].staged = rec
  BY <1>3 DEF Typed, TypeOK, AttemptState
<1> HIDE DEF InFlight
<1> QED
  BY <1>1, <1>2, <1>4, <1>5 DEF Placed, StageOpen, Past, Ended

(* Answering with what the attempt itself has committed.                   *)
LEMMA PlacedAnswered ==
    ASSUME Typed, Kept, NEW a \in Attempt, att' = Leave(a, "returned", a),
           att[a].pc \in Past, UNCHANGED <<setter, durable, failed>>
    PROVE  Placed(a)'
<1>1. Placed(a) /\ att'[a].pc = "returned" /\ att'[a].id = att[a].id /\ att'[a].ret = a
  BY AfterLeave DEF Kept, AllPlaced
<1>2. a \in durable /\ a \notin failed
  BY <1>1 DEF Placed
<1> HIDE DEF InFlight
<1> QED
  BY <1>1, <1>2 DEF Placed, StageOpen, Past, Ended

LEMMA PlacedEmit ==
    ASSUME Typed, Kept, NEW a \in Attempt, Emit(a)
    PROVE  Placed(a)' /\ emitted' \subseteq durable
<1>1. /\ Placed(a) /\ att[a].pc = "emit" /\ UNCHANGED <<store, setter, durable, failed>>
  BY DEF Emit, Kept, AllPlaced
<1>2. a \in durable /\ a \notin failed
  BY <1>1 DEF Placed, Past
<1>3. emitted' \subseteq durable
  BY <1>2 DEF Emit, Kept
<1>4. CASE Pruning
  <2>1. att' = Goto(a, "pruneRead")
    BY <1>4 DEF Emit
  <2>2. att'[a].pc = "pruneRead"
    BY <2>1, AfterGoto
  <2> HIDE DEF InFlight
  <2> QED
    BY <1>1, <1>2, <1>3, <1>4, <2>2 DEF Placed, StageOpen, Past, Ended
<1>5. CASE ~Pruning
  BY <1>1, <1>3, <1>5, PlacedAnswered DEF Emit, Past
<1> QED
  BY <1>4, <1>5

LEMMA PlacedPruneRead ==
    ASSUME Typed, Kept, NEW a \in Attempt, PruneRead(a)
    PROVE  Placed(a)'
<1> DEFINE doomed == {i \in Id : Beneath(i, att[a].id) /\ store[i] # Absent}
           new == [att[a] EXCEPT !.pc = "pruneCommit", !.doomed = doomed]
<1>1. /\ Placed(a) /\ att[a].pc = "pruneRead" /\ UNCHANGED <<store, setter, durable, failed>>
      /\ att' = [att EXCEPT ![a] = new]
  BY DEF PruneRead, Kept, AllPlaced, history
<1>2. a \in durable /\ a \notin failed /\ Pruning
  BY <1>1 DEF Placed, Past
<1> HIDE DEF doomed
<1>3. att'[a].pc = "pruneCommit" /\ att'[a].id = att[a].id /\ att'[a].doomed = doomed
  BY <1>1 DEF Typed, TypeOK, AttemptState
<1>4. /\ \A i \in doomed : Beneath(i, att[a].id)
      /\ \A i \in Id : Beneath(i, att[a].id) /\ store[i] # Absent => i \in doomed
  BY DEF doomed
<1> HIDE DEF InFlight
<1> QED
  BY <1>1, <1>2, <1>3, <1>4 DEF Placed, StageOpen, Past, Ended

(* The steps that leave the records alone.                                 *)
LEMMA AsideStep ==
    ASSUME Typed, NEW a \in Attempt,
           Progress(a) \/ Abandon(a) \/ \E k \in Key : MetadataRead(a, k)
    PROVE  Aside(a)
<1>1. \A b \in Attempt : /\ att'[b].id = att[b].id
                         /\ b # a => att'[b] = att[b]
  BY OwnStep DEF Own
<1>2. durable' \in {durable, durable \cup {a}} /\ failed' \in {failed, failed \cup {a}}
  BY DEF Progress, Check, StartRead, StartCommit, MetadataSave, BodyReturn, BodyRaise,
         EmitFailed, CompleteSave, Commit, Emit, PruneRead, PruneCommit, PruneFails,
         Abandon, MetadataRead, history
<1>3. ASSUME NEW b \in Attempt, b # a
      PROVE  setter'[b] = setter[b]
  <2>1. CASE setter' = setter
    BY <2>1
  <2>2. CASE \E k \in Key : \E new : setter' = [setter EXCEPT ![a][k] = new]
    BY <1>3, <2>2 DEF Typed, TypeOK
  <2>3. setter' = setter \/ \E k \in Key : \E new : setter' = [setter EXCEPT ![a][k] = new]
    BY DEF Progress, Check, StartRead, StartCommit, MetadataSave, BodyReturn, BodyRaise,
           EmitFailed, CompleteSave, Commit, Emit, PruneRead, PruneCommit, PruneFails,
           Abandon, MetadataRead
  <2> QED
    BY <2>1, <2>2, <2>3
<1> QED
  BY <1>1, <1>2, <1>3 DEF Aside

LEMMA KeptStep ==
    ASSUME Typed, Kept, NEW a \in Attempt,
           Progress(a) \/ Abandon(a) \/ \E k \in Key : MetadataRead(a, k),
           ~StartCommit(a), ~Commit(a), ~PruneCommit(a)
    PROVE  Kept'
<1>1. Aside(a)
  BY AsideStep
<1>2. store' = store /\ durable' = durable
  BY DEF Progress, Check, StartRead, MetadataSave, BodyReturn, BodyRaise,
         EmitFailed, CompleteSave, Emit, PruneRead, PruneFails,
         Abandon, MetadataRead, history
<1>3. CASE Emit(a)
  BY <1>1, <1>2, <1>3, PlacedEmit, KeptStill
<1>4. CASE ~Emit(a)
  <2>1. emitted' \subseteq durable
    BY <1>4 DEF Kept, Progress, Check, StartRead, MetadataSave, BodyReturn, BodyRaise,
         EmitFailed, CompleteSave, PruneRead, PruneFails, Abandon, MetadataRead, history
  <2>2. CASE PruneFails(a)
    <3>1. Placed(a)'
      BY <2>2, PlacedAnswered DEF PruneFails, Past, history
    <3> QED
      BY <1>1, <1>2, <2>1, <3>1, KeptStill
  <2>3. CASE ~PruneFails(a)
    <3>1. Placed(a)'
      BY <1>4, <2>3, PlacedCheck, PlacedStartRead, PlacedSave, PlacedRead, PlacedBodyEnds,
         PlacedEmitFailed, PlacedAbandon, PlacedCompleteSave, PlacedPruneRead DEF Progress
    <3> QED
      BY <1>1, <1>2, <2>1, <3>1, KeptStill
  <2> QED
    BY <2>2, <2>3
<1> QED
  BY <1>3, <1>4

LEMMA KeptEnter ==
    ASSUME Typed, Kept, NEW a \in Attempt, NEW r \in Run, NEW c \in Content,
           NEW caller \in Attempt \cup {None}, NEW p \in Id \cup {Root},
           Enter(a, r, caller, p, c)
    PROVE  Kept'
<1>1. /\ att[a].pc = "idle" /\ att'[a].pc = "check"
      /\ \A b \in Attempt : b # a => att'[b] = att[b]
      /\ UNCHANGED <<store, setter, durable, emitted, failed>>
  BY EnterShape
<1>2. Placed(a)
  BY DEF Kept, AllPlaced
<1>3. a \notin durable /\ a \notin failed
  BY <1>1, <1>2 DEF Placed, Past, Ended
<1>4. Aside(a)
  BY <1>1, <1>3 DEF Aside
<1>5. Placed(a)'
  <2> HIDE DEF InFlight
  <2> QED
    BY <1>1, <1>2, <1>3 DEF Placed, StageOpen, Past, Ended
<1> QED
  BY <1>1, <1>4, <1>5, KeptStill DEF Kept

LEMMA KeptRuns ==
    ASSUME Typed, Kept, NEW r \in Run, OpenRun(r) \/ CloseRun(r) \/ Crash(r)
    PROVE  Kept'
<1>2. UNCHANGED <<store, setter, durable, emitted, failed>>
  BY DEF OpenRun, CloseRun, Crash, history
<1>3. ASSUME NEW b \in Attempt
      PROVE  /\ att'[b].id = att[b].id /\ att'[b].ret \in {att[b].ret, None}
             /\ att'[b] = att[b] \/ (IsLive(b) /\ att'[b].pc = "crashed")
  <2>1. CASE att' = att
    BY <2>1
  <2>2. CASE Crash(r) /\ att[b].run = r /\ IsLive(b)
    <3>1. att'[b] = Leave(b, "crashed", None)[b]
      BY <2>2 DEF Crash
    <3>2. /\ Leave(b, "crashed", None)[b].pc = "crashed"
          /\ Leave(b, "crashed", None)[b].id = att[b].id
          /\ Leave(b, "crashed", None)[b].ret = None
      BY DEF Leave, Typed, TypeOK, AttemptState
    <3> QED
      BY <2>2, <3>1, <3>2
  <2>3. CASE Crash(r) /\ ~(att[b].run = r /\ IsLive(b))
    BY <2>3 DEF Crash
  <2> QED
    BY <2>1, <2>2, <2>3 DEF OpenRun, CloseRun
<1>4. \A b \in durable : b \in Attempt /\ att'[b].id = att[b].id
  BY <1>3 DEF Typed, TypeOK
<1>5. AllRecorded'
  BY <1>2, <1>4 DEF Kept, AllRecorded, Recorded
<1>6. AllLasting'
  BY <1>2, <1>4 DEF Kept, AllLasting, Lasting
<1>7. OneCompletion'
  BY <1>2, <1>4 DEF Kept, OneCompletion
<1>8. ASSUME NEW b \in Attempt PROVE Placed(b)'
  <2>1. Placed(b)
    BY DEF Kept, AllPlaced
  <2>2. \A k \in Key : setter'[b][k].state = "read" => InFlight(setter'[b][k].snap)
    BY <1>2, <2>1 DEF Placed
  <2>3. CASE att'[b] = att[b]
    <3>1. /\ att[b].pc = "returned" =>
               att[b].ret \in durable /\ att'[att[b].ret].id = att[b].id
          /\ b \in durable => att[b].pc \in Past \cup Ended /\ b \notin failed
          /\ b \in failed => att[b].pc = "raised"
      BY <1>4, <2>1 DEF Placed
    <3> HIDE DEF InFlight
    <3> QED
      BY <1>2, <2>1, <2>2, <2>3, <3>1 DEF Placed
  <2>4. CASE IsLive(b) /\ att'[b].pc = "crashed"
    <3>1. b \notin failed
      BY <2>1, <2>4 DEF Placed, IsLive, Live, StageOpen
    <3> HIDE DEF InFlight
    <3> QED
      BY <1>2, <2>2, <2>4, <3>1 DEF Placed, StageOpen, Past, Ended
  <2> QED
    BY <1>3, <2>3, <2>4
<1> QED
  BY <1>2, <1>5, <1>6, <1>7, <1>8 DEF Kept, AllPlaced

-----------------------------------------------------------------------------
(* The steps that commit.  In the tree, a record that changes is that of   *)
(* the one live attempt of its identity, and nothing above it is past its  *)
(* body.                                                                   *)
LEMMA Unobserved ==
    ASSUME Typed, Sequenced, Tree, NEW a \in Attempt, NEW b \in Attempt, b # a,
           IsLive(a), IsLive(b)
    PROVE  /\ att[b].id # att[a].id
           /\ att[b].pc # "body" => ~Beneath(att[a].id, att[b].id)
           /\ att[a].pc # "body" => ~Beneath(att[b].id, att[a].id)
<1>1. att[a].pc # "idle" /\ att[b].pc # "idle"
  BY DEF IsLive, Live, StageOpen
<1> QED
  BY <1>1, LiveAreUnique, AboveInBody

(* What a live call is nested in has not completed.                        *)
LEMMA NoneAbove ==
    ASSUME Typed, Tree, Kept, NEW a \in Attempt, IsLive(a), NEW i \in Id,
           Beneath(att[a].id, i)
    PROVE  store[i].status # "completed"
<1>1. PICK d \in Attempt : att[d].pc = "body" /\ att[d].id = i
  BY DEF Tree, Chained
<1>2. store[i] = Started
  BY <1>1 DEF Kept, AllPlaced, Placed
<1> QED
  BY <1>2 DEF Started

(* Live attempts have identities of their own, outside of what is about to *)
(* be deleted, and what they run nobody has completed.                     *)
Undisturbed ==
    /\ \A a, b \in Attempt : b # a /\ IsLive(a) /\ IsLive(b) =>
         /\ att[b].id # att[a].id
         /\ att[b].pc = "pruneCommit" => ~Beneath(att[a].id, att[b].id)
    /\ \A a \in Attempt, b \in durable :
         att[a].pc \in {"body", "serialize", "commit"} => att[b].id # att[a].id

LEMMA UndisturbedInTree ==
    ASSUME Typed, Sequenced, Tree, Kept
    PROVE  Undisturbed
<1>1. ASSUME NEW a \in Attempt, NEW b \in durable, att[b].id = att[a].id,
             att[a].pc \in {"body", "serialize", "commit"}
      PROVE  FALSE
  <2>1. store[att[a].id] = Started /\ IsLive(a)
    BY <1>1 DEF Kept, AllPlaced, Placed, IsLive, Live, StageOpen
  <2>2. Lasting(b)
    BY DEF Kept, AllLasting
  <2> QED
    BY <1>1, <2>1, <2>2, NoneAbove DEF Lasting, Started
<1> QED
  BY <1>1, Unobserved DEF Undisturbed

(* Where nothing is pruned, one run at work at a time is enough.           *)
LEMMA UndisturbedUnpruned ==
    ASSUME Typed, Sequenced, OneRunAtWork, Kept, ~Pruning
    PROVE  Undisturbed
<1>1. ASSUME NEW a \in Attempt, NEW b \in Attempt, b # a, IsLive(a), IsLive(b)
      PROVE  att[b].id # att[a].id /\ att[b].pc # "pruneCommit"
  <2>1. att[a].run = att[b].run /\ att[a].pc # "idle"
    BY <1>1 DEF OneRunAtWork, IsLive, Live, StageOpen
  <2>2. att[b].pc # "pruneCommit"
    BY DEF Kept, AllPlaced, Placed
  <2> QED
    BY <1>1, <2>1, <2>2 DEF Sequenced, IdsUniqueInRun
<1>2. ASSUME NEW a \in Attempt, NEW b \in durable, att[b].id = att[a].id,
             att[a].pc \in {"body", "serialize", "commit"}
      PROVE  FALSE
  <2>1. store[att[a].id] = Started
    BY <1>2 DEF Kept, AllPlaced, Placed
  <2>2. Lasting(b)
    BY DEF Kept, AllLasting
  <2> QED
    BY <1>2, <2>1, <2>2 DEF Lasting, Started
<1> QED
  BY <1>1, <1>2 DEF Undisturbed

LEMMA OthersPlacedSet ==
    ASSUME Typed, Undisturbed, Kept, NEW a \in Attempt, Aside(a), IsLive(a),
           NEW rec, store' = [store EXCEPT ![att[a].id] = rec]
    PROVE  \A b \in Attempt : b # a => Placed(b)'
<1> SUFFICES ASSUME NEW b \in Attempt, b # a PROVE Placed(b)'
  OBVIOUS
<1>1. \A i \in Id : i # att[a].id => store'[i] = store[i]
  BY DEF Typed, TypeOK
<1>2. IsLive(b) => store'[att[b].id] = store[att[b].id]
  BY <1>1 DEF Undisturbed, Typed, Identified, IsLive, Live, StageOpen
<1>3. att[b].pc = "pruneCommit" =>
        \A i \in Id : Beneath(i, att[b].id) /\ store'[i] # Absent => store[i] # Absent
  BY <1>1 DEF Undisturbed, IsLive, Live, StageOpen
<1> QED
  BY <1>2, <1>3, OthersPlaced

LEMMA KeptStartCommit ==
    ASSUME Typed, Undisturbed, Kept, NEW a \in Attempt, StartCommit(a)
    PROVE  Kept'
<1> DEFINE id == att[a].id
<1>1. /\ Placed(a) /\ att[a].pc = "startCommit" /\ IsLive(a)
      /\ UNCHANGED <<setter, durable, emitted, failed>>
      /\ att' = Stage(a, "body", Absent) /\ Aside(a)
  BY AsideStep DEF StartCommit, Kept, AllPlaced, IsLive, Live, Progress
<1>2. /\ id \in Id /\ store[id] \in {Absent, Started}
      /\ store' = [store EXCEPT ![id] = Started]
  <2>1. id \in Id /\ \/ att[a].staged = Absent /\ store[id] = Started
                     \/ att[a].staged = Started /\ store[id] = Absent
    BY <1>1 DEF Typed, Identified, Placed
  <2>2. Started # Absent
    BY DEF Started, Absent
  <2>3. store' = Persist(a) /\ store \in [Id -> Record]
    BY DEF StartCommit, Typed, TypeOK
  <2>4. store[id] = Started => store = [store EXCEPT ![id] = Started]
    BY <2>1, <2>3
  <2> QED
    BY <2>1, <2>2, <2>3, <2>4 DEF Persist
<1>3. /\ att'[a].pc = "body" /\ att'[a].id = id /\ att'[a].staged = Absent
      /\ \A b \in Attempt : att'[b].id = att[b].id
  BY <1>1, AfterStage
<1>4. /\ store'[id] = Started
      /\ \A i \in Id : i # id => store'[i] = store[i]
      /\ \A i \in Id : store[i].status = "completed" => i # id
  BY <1>2 DEF Typed, TypeOK, Absent, Started
<1>5. durable \subseteq Attempt
  BY DEF Typed, TypeOK
<1>6. AllRecorded'
  <2> SUFFICES ASSUME NEW i \in Id PROVE Recorded(i)'
    BY DEF AllRecorded
  <2>1. Recorded(i)
    BY DEF Kept, AllRecorded
  <2> QED
    BY <1>1, <1>3, <1>4, <1>5, <2>1 DEF Recorded
<1>7. AllLasting'
  <2> SUFFICES ASSUME NEW b \in durable PROVE Lasting(b)'
    BY <1>1 DEF AllLasting
  <2>1. Lasting(b)
    BY DEF Kept, AllLasting
  <2>2. att[b].id \in Id
    <3>1. Placed(b) /\ b \in Attempt
      BY <1>5 DEF Kept, AllPlaced
    <3> QED
      BY <3>1 DEF Placed, Past, Ended, Typed, Identified
  <2> QED
    BY <1>3, <1>4, <1>5, <2>1, <2>2 DEF Lasting
<1>8. OneCompletion'
  BY <1>1, <1>3, <1>5 DEF Kept, OneCompletion
<1>9. Placed(a)'
  <2>1. a \notin durable /\ a \notin failed
    BY <1>1 DEF Placed, Past, Ended
  <2> HIDE DEF InFlight
  <2> QED
    BY <1>1, <1>3, <1>4, <2>1 DEF Placed, StageOpen, Past, Ended
<1>10. AllPlaced'
  BY <1>1, <1>2, <1>9, OthersPlacedSet DEF AllPlaced
<1> QED
  BY <1>1, <1>6, <1>7, <1>8, <1>10 DEF Kept

(* Whoever has committed work was called, and has an identity.             *)
LEMMA DurableCalled ==
    ASSUME Typed, Kept, NEW b \in durable
    PROVE  b \in Attempt /\ att[b].pc # "idle" /\ att[b].id \in Id
<1>1. b \in Attempt
  BY DEF Typed, TypeOK
<1>2. Placed(b)
  BY <1>1 DEF Kept, AllPlaced
<1>3. att[b].pc # "idle"
  BY <1>2 DEF Placed, Past, Ended
<1> QED
  BY <1>1, <1>3 DEF Typed, Identified

LEMMA KeptCommit ==
    ASSUME Typed, Undisturbed, Kept, NEW a \in Attempt, Commit(a)
    PROVE  Kept'
<1> DEFINE id == att[a].id
           rec == att[a].staged
<1>1. /\ Placed(a) /\ att[a].pc = "commit" /\ IsLive(a)
      /\ durable' = durable \cup {a} /\ UNCHANGED <<setter, emitted, failed>>
      /\ att' = Stage(a, "emit", Absent) /\ Aside(a)
  BY AsideStep DEF Commit, Kept, AllPlaced, IsLive, Live, Progress
<1>2. /\ id \in Id /\ store[id] = Started
      /\ rec.status = "completed" /\ rec.result = a
  BY <1>1 DEF Placed, Typed, Identified
<1>3. store' = [store EXCEPT ![id] = rec]
  <2>1. rec # Absent
    BY <1>2 DEF Absent
  <2> QED
    BY <2>1 DEF Commit, Persist
<1>4. /\ att'[a].pc = "emit" /\ \A b \in Attempt : att'[b].id = att[b].id
  BY <1>1, AfterStage
<1>5. /\ store'[id] = rec
      /\ \A i \in Id : i # id => store'[i] = store[i]
      /\ \A i \in Id : store[i].status = "completed" => i # id
  BY <1>2, <1>3 DEF Typed, TypeOK, Started
<1>6. \A b \in durable : b \in Attempt /\ att[b].id \in Id
  BY DurableCalled
<1>7. \A b \in durable : att[b].id # id
  BY <1>1 DEF Undisturbed
<1>8. AllRecorded'
  <2> SUFFICES ASSUME NEW i \in Id PROVE Recorded(i)'
    BY DEF AllRecorded
  <2>1. Recorded(i)
    BY DEF Kept, AllRecorded
  <2>2. CASE i = id
    BY <1>1, <1>2, <1>4, <1>5, <2>2 DEF Recorded
  <2>3. CASE i # id
    BY <1>1, <1>4, <1>5, <1>6, <2>1, <2>3 DEF Recorded
  <2> QED
    BY <2>2, <2>3
<1>9. AllLasting'
  <2> SUFFICES ASSUME NEW b \in durable' PROVE Lasting(b)'
    BY DEF AllLasting
  <2>1. CASE b = a
    BY <1>2, <1>4, <1>5, <2>1 DEF Lasting
  <2>2. CASE b # a
    <3>1. b \in durable /\ Lasting(b)
      BY <1>1, <2>2 DEF Kept, AllLasting
    <3> QED
      BY <1>4, <1>5, <1>6, <3>1 DEF Lasting
  <2> QED
    BY <2>1, <2>2
<1>10. OneCompletion'
  BY <1>1, <1>4, <1>6, <1>7 DEF Kept, OneCompletion
<1>11. Placed(a)'
  <2>1. a \notin failed
    BY <1>1 DEF Placed
  <2> HIDE DEF InFlight
  <2> QED
    BY <1>1, <1>4, <2>1 DEF Placed, StageOpen, Past, Ended
<1>12. AllPlaced'
  BY <1>1, <1>3, <1>11, OthersPlacedSet DEF AllPlaced
<1>13. emitted' \subseteq durable'
  BY <1>1 DEF Kept
<1> QED
  BY <1>8, <1>9, <1>10, <1>12, <1>13 DEF Kept

LEMMA KeptPruneCommit ==
    ASSUME Typed, Sequenced, Tree, Kept, NEW a \in Attempt, PruneCommit(a)
    PROVE  Kept'
<1> DEFINE id == att[a].id
           doomed == att[a].doomed
<1>1. /\ Placed(a) /\ att[a].pc = "pruneCommit" /\ IsLive(a) /\ Aside(a)
      /\ UNCHANGED <<setter, durable, emitted, failed>>
      /\ att' = Leave(a, "returned", a) \/ att' = Leave(a, "raised", None)
  BY AsideStep DEF PruneCommit, Kept, AllPlaced, IsLive, Live, Progress, history
<1>2. /\ a \in durable /\ id \in Id /\ Pruning
      /\ \A i \in doomed : i \in Id /\ Beneath(i, id)
  <2>1. a \in durable /\ Pruning /\ \A i \in doomed : Beneath(i, id)
    BY <1>1 DEF Placed, Past
  <2>2. id \in Id /\ doomed \subseteq Id
    BY <1>1 DEF Typed, Identified, TypeOK, AttemptState
  <2> QED
    BY <2>1, <2>2
<1>3. \A i \in Id : store'[i] = IF i \in doomed THEN Absent ELSE store[i]
  BY DEF PruneCommit
<1>4. \A b \in Attempt : att'[b].id = att[b].id
  BY <1>1, AfterLeave
<1>5. \A b \in durable : b \in Attempt /\ att[b].id \in Id /\ att[b].pc # "idle"
  BY DurableCalled
<1>6. AllRecorded'
  <2> SUFFICES ASSUME NEW i \in Id PROVE Recorded(i)'
    BY DEF AllRecorded
  <2>1. Recorded(i)
    BY DEF Kept, AllRecorded
  <2> QED
    BY <1>1, <1>3, <1>4, <1>5, <2>1 DEF Recorded
<1>7. store[id].status = "completed" /\ id \notin doomed
  <2>1. Lasting(a)
    BY <1>2 DEF Kept, AllLasting
  <2>2. store[id].status = "completed"
    BY <1>1, <2>1, NoneAbove DEF Lasting
  <2> QED
    BY <1>2, <2>2, NotBeneathItself
<1>8. AllLasting'
  <2> SUFFICES ASSUME NEW b \in durable PROVE Lasting(b)'
    BY <1>1 DEF AllLasting
  <2>1. Lasting(b) /\ b \in Attempt /\ att[b].id \in Id
    BY <1>5 DEF Kept, AllLasting
  <2>2. CASE att[b].id \in doomed
    BY <1>2, <1>3, <1>4, <1>7, <2>1, <2>2 DEF Lasting
  <2>3. CASE /\ att[b].id \notin doomed
             /\ store[att[b].id].status = "completed" /\ store[att[b].id].result = b
    BY <1>3, <1>4, <2>1, <2>3 DEF Lasting
  <2>4. ASSUME NEW i \in Id, Beneath(att[b].id, i), store[i].status = "completed"
        PROVE  Lasting(b)'
    <3>1. CASE i \in doomed
      <4>1. Beneath(att[b].id, id)
        BY <1>2, <2>1, <2>4, <3>1, BeneathTransitive
      <4> QED
        BY <1>2, <1>3, <1>4, <1>7, <2>1, <4>1 DEF Lasting
    <3>2. CASE i \notin doomed
      BY <1>2, <1>3, <1>4, <2>1, <2>4, <3>2 DEF Lasting
    <3> QED
      BY <3>1, <3>2
  <2> QED
    BY <2>1, <2>2, <2>3, <2>4 DEF Lasting
<1>9. OneCompletion'
  BY <1>1, <1>4, <1>5 DEF Kept, OneCompletion
<1>10. Placed(a)'
  <2>1. CASE att' = Leave(a, "returned", a)
    BY <1>1, <2>1, PlacedAnswered DEF Past
  <2>2. CASE att' = Leave(a, "raised", None)
    <3>1. a \in durable => a \notin failed'
      BY <1>1 DEF Placed
    <3> QED
      BY <1>1, <2>2, <3>1, PlacedRaised
  <2> QED
    BY <1>1, <2>1, <2>2
<1>11. ASSUME NEW b \in Attempt, b # a
       PROVE  Placed(b)'
  <2>1. IsLive(b) => store'[att[b].id] = store[att[b].id]
    <3> SUFFICES ASSUME IsLive(b) PROVE store'[att[b].id] = store[att[b].id]
      OBVIOUS
    <3>1. att[b].id \in Id /\ ~Beneath(att[b].id, id)
      BY <1>1, <1>11, Unobserved DEF Typed, Identified, IsLive, Live, StageOpen
    <3> QED
      BY <1>2, <1>3, <3>1
  <2>2. \A i \in Id : store'[i] # Absent => store[i] # Absent
    BY <1>3
  <2> QED
    BY <1>1, <1>11, <2>1, <2>2, OthersPlaced
<1>12. AllPlaced'
  BY <1>10, <1>11 DEF AllPlaced
<1> QED
  BY <1>1, <1>6, <1>8, <1>9, <1>12 DEF Kept

-----------------------------------------------------------------------------
LEMMA KeptNext ==
    ASSUME Typed, Undisturbed, Kept, Pruning => Sequenced /\ Tree, [Next]_vars
    PROVE  Kept'
<1>1. CASE \E r \in Run : OpenRun(r) \/ CloseRun(r) \/ Crash(r)
  BY <1>1, KeptRuns
<1>2. ASSUME NEW a \in Attempt, CallFromSession(a) \/ CallFromBody(a)
      PROVE  Kept'
  BY <1>2, CallIsMade, KeptEnter
<1>3. ASSUME NEW a \in Attempt,
             Progress(a) \/ Abandon(a) \/ \E k \in Key : MetadataRead(a, k)
      PROVE  Kept'
  <2>1. CASE StartCommit(a)
    BY <2>1, KeptStartCommit
  <2>2. CASE Commit(a)
    BY <2>2, KeptCommit
  <2>3. CASE PruneCommit(a)
    <3>1. Pruning
      BY <2>3 DEF PruneCommit, Kept, AllPlaced, Placed
    <3> QED
      BY <2>3, <3>1, KeptPruneCommit
  <2> QED
    BY <1>3, <2>1, <2>2, <2>3, KeptStep
<1>4. CASE UNCHANGED vars
  BY <1>4 DEF vars, Kept, AllRecorded, AllLasting, OneCompletion, AllPlaced, Recorded,
     Lasting, Placed
<1> QED
  BY <1>1, <1>2, <1>3, <1>4 DEF Next

(* The inductive invariants the theorems below are read from: one where    *)
(* every body and session waits for the tasks it started, and one where    *)
(* nothing is pruned and runs do not overlap, whatever tasks are left.     *)
Orderly == Typed /\ Sequenced /\ Tree /\ Kept
Unpruned == Typed /\ Sequenced /\ OneRunAtWork /\ Kept

LEMMA OrderlyAlways == ASSUME ~Detached PROVE Spec => []Orderly
<1>1. Init => Orderly
  BY TypedInit, SequencedInit, TreeInit, KeptInit DEF Orderly
<1>2. Orderly /\ [Next]_vars => Orderly'
  BY TypedNext, SequencedNext, TreeNext, UndisturbedInTree, KeptNext DEF Orderly
<1> QED
  BY <1>1, <1>2, PTL DEF Spec

LEMMA UnprunedAlways == ASSUME ~Pruning, ~Overlap PROVE Spec => []Unpruned
<1>1. Init => Unpruned
  BY TypedInit, SequencedInit, OneRunInit, KeptInit DEF Unpruned
<1>2. Unpruned /\ [Next]_vars => Unpruned'
  BY TypedNext, SequencedNext, OneRunNext, UndisturbedUnpruned, KeptNext DEF Unpruned
<1> QED
  BY <1>1, <1>2, PTL DEF Spec

(* What they have in common. *)
Steady == Typed /\ Kept /\ Undisturbed

LEMMA SteadyAlways ==
    ASSUME ~Detached \/ (~Pruning /\ ~Overlap) PROVE Spec => []Steady
<1>1. CASE ~Detached
  <2>1. Orderly => Steady
    BY UndisturbedInTree DEF Orderly, Steady
  <2>2. Spec => []Orderly
    BY <1>1, OrderlyAlways
  <2> QED
    BY <2>1, <2>2, PTL
<1>2. CASE ~Pruning /\ ~Overlap
  <2>1. Unpruned => Steady
    BY <1>2, UndisturbedUnpruned DEF Unpruned, Steady
  <2>2. Spec => []Unpruned
    BY <1>2, UnprunedAlways
  <2> QED
    BY <2>1, <2>2, PTL
<1> QED
  BY <1>1, <1>2

-----------------------------------------------------------------------------
(* A running body's record is STARTED, so that its completion can neither  *)
(* miss the record nor find it completed, whatever the other branches do.  *)
THEOREM RunningIsStarted ==
    ASSUME ~Detached \/ (~Pruning /\ ~Overlap) PROVE Spec => []RunningRecordIsStarted
<1>1. Steady => RunningRecordIsStarted
  BY DEF Steady, Kept, AllPlaced, Placed, RunningRecordIsStarted, Started
<1> QED
  BY <1>1, SteadyAlways, PTL

(* Two askers of one call, in one run or over a restart, get one result.   *)
THEOREM AnswersAgree ==
    ASSUME ~Detached \/ (~Pruning /\ ~Overlap) PROVE Spec => []Agreement
<1>1. Steady => Agreement
  <2> SUFFICES ASSUME Steady, NEW a \in Attempt, NEW b \in Attempt,
                      att[a].pc = "returned", att[b].pc = "returned",
                      att[a].id = att[b].id
               PROVE  att[a].ret = att[b].ret
    BY DEF Agreement
  <2>1. /\ att[a].ret \in durable /\ att[att[a].ret].id = att[a].id
        /\ att[b].ret \in durable /\ att[att[b].ret].id = att[b].id
    BY DEF Steady, Kept, AllPlaced, Placed
  <2> QED
    BY <2>1 DEF Steady, Kept, OneCompletion
<1> QED
  BY <1>1, SteadyAlways, PTL

(* What a call answered with is recorded before it answers, and stays so   *)
(* until a completed call above it makes the record unreachable.           *)
THEOREM AnswersStayRecorded ==
    ASSUME ~Detached \/ (~Pruning /\ ~Overlap) PROVE Spec => []AnswersAreRecorded
<1>1. Steady => AnswersAreRecorded
  <2> SUFFICES ASSUME Steady, NEW a \in Attempt, att[a].pc = "returned" \/ a \in emitted
               PROVE  \/ /\ store[att[a].id].status = "completed"
                         /\ att[a].pc = "returned" => store[att[a].id].result = att[a].ret
                      \/ \E i \in Id : Beneath(att[a].id, i) /\ store[i].status = "completed"
    BY DEF AnswersAreRecorded
  <2>1. att[a].pc = "returned" => att[a].ret \in durable /\ att[att[a].ret].id = att[a].id
    BY DEF Steady, Kept, AllPlaced, Placed
  <2>2. a \in emitted => a \in durable
    BY DEF Steady, Kept
  <2>3. PICK b \in durable : att[b].id = att[a].id /\ (att[a].pc = "returned" => att[a].ret = b)
    <3>1. CASE att[a].pc = "returned"
      BY <2>1, <3>1
    <3>2. CASE att[a].pc # "returned"
      BY <2>2, <3>2
    <3> QED
      BY <3>1, <3>2
  <2>4. Lasting(b)
    BY DEF Steady, Kept, AllLasting
  <2> QED
    BY <2>3, <2>4 DEF Lasting
<1> QED
  BY <1>1, SteadyAlways, PTL

(* A call completes, and says so, once over all the runs of its session.   *)
THEOREM CompletedOnce ==
    ASSUME ~Detached \/ (~Pruning /\ ~Overlap) PROVE Spec => []OneCompletedEvent
<1>1. Steady => OneCompletedEvent
  BY DEF Steady, Kept, OneCompletion, OneCompletedEvent
<1> QED
  BY <1>1, SteadyAlways, PTL

(* No body is entered for a call that has completed, in this run or in any *)
(* before it, even where pruning has removed the record.                   *)
THEOREM NoRerun ==
    ASSUME ~Detached \/ (~Pruning /\ ~Overlap) PROVE Spec => []CompletedNeverRerun
<1>1. Steady => CompletedNeverRerun
  BY DEF Steady, Undisturbed, CompletedNeverRerun
<1> QED
  BY <1>1, SteadyAlways, PTL

(* A failed body leaves the record START wrote and nothing of its own.     *)
THEOREM FailureLeavesNothing ==
    ASSUME ~Detached \/ (~Pruning /\ ~Overlap) PROVE Spec => []FailurePersistsNothing
<1>1. Steady => FailurePersistsNothing
  <2> SUFFICES ASSUME Steady, NEW i \in Id
               PROVE  /\ store[i].status = "started" => store[i] = Started
                      /\ \A a \in failed : store[i].result # a
    BY DEF FailurePersistsNothing
  <2>1. Recorded(i)
    BY DEF Steady, Kept, AllRecorded
  <2>2. store[i].status = "started" => store[i] = Started
    BY <2>1 DEF Recorded, Absent
  <2>3. ASSUME NEW a \in failed
        PROVE  store[i].result # a
    <3>1. a \in Attempt /\ a # None /\ a \notin durable
      BY EngineAssumption DEF Steady, Typed, TypeOK, Kept, AllPlaced, Placed
    <3> QED
      BY <2>1, <3>1 DEF Recorded, Absent, Started
  <2> QED
    BY <2>2, <2>3
<1> QED
  BY <1>1, SteadyAlways, PTL

-----------------------------------------------------------------------------
(* The records of a session, read as the status and the value of Durable:  *)
(* START, COMPLETE and pruning are its three steps, the rest leaves them.  *)
Statuses == [i \in Id |-> store[i].status]
Values == [i \in Id |-> <<store[i].result, store[i].meta>>]

LEMMA PromiseStands ==
    ASSUME store' = store PROVE UNCHANGED Promise!dvars
BY DEF Promise!dvars

(* One record changes, and the two functions of it with it.                *)
LEMMA PromiseSets ==
    ASSUME Typed, NEW id \in Id, NEW rec, store' = [store EXCEPT ![id] = rec]
    PROVE  /\ Statuses[id] = store[id].status
           /\ Statuses' = [Statuses EXCEPT ![id] = rec.status]
           /\ Values' = [Values EXCEPT ![id] = <<rec.result, rec.meta>>]
<1>1. \A i \in Id : store'[i] = IF i = id THEN rec ELSE store[i]
  BY DEF Typed, TypeOK
<1>2. Statuses' = [Statuses EXCEPT ![id] = rec.status]
  <2>1. Statuses' = [i \in Id |-> IF i = id THEN rec.status ELSE Statuses[i]]
    BY <1>1 DEF Statuses
  <2>2. [Statuses EXCEPT ![id] = rec.status]
        = [i \in Id |-> IF i = id THEN rec.status ELSE Statuses[i]]
    BY DEF Statuses
  <2> QED
    BY <2>1, <2>2
<1>3. Values' = [Values EXCEPT ![id] = <<rec.result, rec.meta>>]
  <2> DEFINE v == <<rec.result, rec.meta>>
  <2>1. Values' = [i \in Id |-> IF i = id THEN v ELSE Values[i]]
    BY <1>1 DEF Values
  <2> HIDE DEF v
  <2>2. [Values EXCEPT ![id] = v] = [i \in Id |-> IF i = id THEN v ELSE Values[i]]
    BY DEF Values
  <2> QED
    BY <2>1, <2>2 DEF v
<1> QED
  BY <1>2, <1>3 DEF Statuses

LEMMA PromiseMoves ==
    ASSUME Typed, Sequenced, Tree, Kept, NEW a \in Attempt, IsLive(a)
    PROVE  att[a].id \in Id /\ Promise!InProgress(att[a].id)
<1>1. att[a].id \in Id
  BY DEF Typed, Identified, IsLive, Live, StageOpen
<1>2. ASSUME NEW i \in Above[att[a].id] PROVE store[i].status = "started" /\ i \in Id
  <2>1. i \in Id /\ Beneath(att[a].id, i)
    BY <1>1, <1>2 DEF Above
  <2>2. PICK d \in Attempt : att[d].pc = "body" /\ att[d].id = i
    BY <2>1 DEF Tree, Chained
  <2>3. store[i] = Started
    BY <2>2 DEF Kept, AllPlaced, Placed
  <2> QED
    BY <2>1, <2>3 DEF Started
<1> QED
  BY <1>1, <1>2 DEF Promise!InProgress

LEMMA PromiseStart ==
    ASSUME Typed, Sequenced, Tree, Kept, NEW a \in Attempt, StartCommit(a)
    PROVE  [Promise!DNext]_(Promise!dvars)
<1> PICK id : id = att[a].id
  OBVIOUS
<1>1. att[a].pc = "startCommit" /\ IsLive(a) /\ Placed(a) /\ store' = Persist(a)
  BY DEF StartCommit, IsLive, Live, Kept, AllPlaced
<1>2. id \in Id /\ Promise!InProgress(id)
  BY <1>1, PromiseMoves
<1>3. CASE att[a].staged = Absent
  BY <1>1, <1>3, PromiseStands DEF Persist
<1>4. CASE att[a].staged # Absent
  <2>1. /\ store[id] = Absent /\ store' = [store EXCEPT ![id] = Started]
        /\ store \in [Id -> Record]
    BY <1>1, <1>4 DEF Placed, Persist, Typed, TypeOK
  <2>2. /\ Statuses[id] = "absent" /\ Statuses' = [Statuses EXCEPT ![id] = "started"]
        /\ Values' = [Values EXCEPT ![id] = <<None, {}>>]
    <3>1. /\ Statuses[id] = store[id].status
          /\ Statuses' = [Statuses EXCEPT ![id] = Started.status]
          /\ Values' = [Values EXCEPT ![id] = <<Started.result, Started.meta>>]
      BY <1>2, <2>1, PromiseSets
    <3>2. /\ Absent.status = "absent" /\ Started.status = "started"
          /\ Started.result = None /\ Started.meta = {}
      BY DEF Absent, Started
    <3> QED
      BY <2>1, <3>1, <3>2
  <2>3. Values' = Values
    <3>1. Values[id] = <<None, {}>>
      BY <1>2, <2>1 DEF Values, Absent
    <3> QED
      BY <2>2, <3>1 DEF Values
  <2>4. Promise!Start(id)
    BY <1>2, <2>2, <2>3 DEF Promise!Start, Statuses, Values
  <2>5. Promise!DNext
    BY <1>2, <2>4 DEF Promise!DNext
  <2> QED
    BY <2>5
<1> QED
  BY <1>3, <1>4

LEMMA PromiseFinish ==
    ASSUME Typed, Sequenced, Tree, Kept, NEW a \in Attempt, Commit(a)
    PROVE  Promise!DNext
<1> PICK id, rec : id = att[a].id /\ rec = att[a].staged
  OBVIOUS
<1>1. /\ att[a].pc = "commit" /\ IsLive(a) /\ Placed(a) /\ store' = Persist(a)
      /\ store \in [Id -> Record] /\ rec \in Record
  BY DEF Commit, IsLive, Live, Kept, AllPlaced, Typed, TypeOK, AttemptState
<1>2. id \in Id /\ Promise!InProgress(id)
  BY <1>1, PromiseMoves
<1>3. store[id] = Started /\ rec.status = "completed" /\ rec.result = a
  BY <1>1 DEF Placed
<1>4. store' = [store EXCEPT ![id] = rec]
  BY <1>1, <1>3 DEF Persist, Absent
<1> DEFINE v == <<rec.result, rec.meta>>
<1>5. v \in Attempt \X SUBSET Key
  BY <1>1, <1>3 DEF Record
<1>6. Promise!Finish(id, v)
  <2>1. /\ Statuses[id] = "started" /\ Statuses' = [Statuses EXCEPT ![id] = "completed"]
        /\ Values' = [Values EXCEPT ![id] = v]
    <3>1. /\ Statuses[id] = store[id].status
          /\ Statuses' = [Statuses EXCEPT ![id] = rec.status]
          /\ Values' = [Values EXCEPT ![id] = v]
      BY <1>2, <1>4, PromiseSets
    <3>2. Started.status = "started"
      BY DEF Started
    <3> QED
      BY <1>3, <3>1, <3>2
  <2> HIDE DEF v
  <2> QED
    BY <1>2, <2>1 DEF Promise!Finish, Statuses, Values
<1> QED
  BY <1>2, <1>5, <1>6 DEF Promise!DNext

LEMMA PromisePrune ==
    ASSUME Typed, Sequenced, Tree, Kept, NEW a \in Attempt, PruneCommit(a)
    PROVE  Promise!DNext
<1> PICK id : id = att[a].id
  OBVIOUS
<1>1. att[a].pc = "pruneCommit" /\ IsLive(a) /\ Placed(a)
  BY DEF PruneCommit, IsLive, Live, Kept, AllPlaced
<1>2. id \in Id /\ a \in durable
  BY <1>1 DEF Placed, Past, Typed, Identified
<1>3. store[id].status = "completed"
  <2>1. Lasting(a)
    BY <1>2 DEF Kept, AllLasting
  <2> QED
    BY <1>1, <2>1, NoneAbove DEF Lasting
<1>4. \A i \in Id : store'[i] = IF id \in Above[i] THEN Absent ELSE store[i]
  <2> SUFFICES ASSUME NEW i \in Id
               PROVE  store'[i] = IF id \in Above[i] THEN Absent ELSE store[i]
    OBVIOUS
  <2>1. id \in Above[i] <=> Beneath(i, id)
    BY <1>2 DEF Above
  <2>2. store'[i] = IF i \in att[a].doomed THEN Absent ELSE store[i]
    BY DEF PruneCommit
  <2>3. /\ i \in att[a].doomed => Beneath(i, id)
        /\ Beneath(i, id) /\ store[i] # Absent => i \in att[a].doomed
    BY <1>1 DEF Placed
  <2> QED
    BY <2>1, <2>2, <2>3
<1>5. /\ Absent.status = "absent" /\ <<Absent.result, Absent.meta>> = <<None, {}>>
  BY DEF Absent
<1>6. Promise!Prune(id)
  <2>1. Statuses[id] = "completed"
    BY <1>2, <1>3 DEF Statuses
  <2>2. Statuses' = [i \in Id |-> IF id \in Above[i] THEN "absent" ELSE Statuses[i]]
    BY <1>4, <1>5 DEF Statuses
  <2>3. Values' = [i \in Id |-> IF id \in Above[i] THEN <<None, {}>> ELSE Values[i]]
    BY <1>4, <1>5 DEF Values
  <2> QED
    BY <2>1, <2>2, <2>3 DEF Promise!Prune, Statuses, Values
<1> QED
  BY <1>2, <1>6 DEF Promise!DNext

LEMMA PromiseStep ==
    ASSUME Orderly, [Next]_vars
    PROVE  [Promise!DNext]_(Promise!dvars)
<1>1. ASSUME NEW a \in Attempt, StartCommit(a) PROVE [Promise!DNext]_(Promise!dvars)
  BY <1>1, PromiseStart DEF Orderly
<1>2. ASSUME NEW a \in Attempt, Commit(a) PROVE [Promise!DNext]_(Promise!dvars)
  BY <1>2, PromiseFinish DEF Orderly
<1>3. ASSUME NEW a \in Attempt, PruneCommit(a) PROVE [Promise!DNext]_(Promise!dvars)
  BY <1>3, PromisePrune DEF Orderly
<1>4. CASE \A a \in Attempt : ~StartCommit(a) /\ ~Commit(a) /\ ~PruneCommit(a)
  <2>1. ASSUME NEW a \in Attempt,
               Progress(a) \/ Abandon(a) \/ \E k \in Key : MetadataRead(a, k)
        PROVE  store' = store
    <3>1. ~StartCommit(a) /\ ~Commit(a) /\ ~PruneCommit(a)
      BY <1>4
    <3> QED
      BY <2>1, <3>1 DEF Progress, Check, StartRead, MetadataSave, BodyReturn, BodyRaise,
         EmitFailed, CompleteSave, Emit, PruneRead, PruneFails, Abandon, MetadataRead
  <2>2. ASSUME NEW a \in Attempt, CallFromSession(a) \/ CallFromBody(a)
        PROVE  store' = store
    BY <2>2 DEF CallFromSession, CallFromBody, Enter
  <2>3. ASSUME NEW r \in Run, OpenRun(r) \/ CloseRun(r) \/ Crash(r)
        PROVE  store' = store
    BY <2>3 DEF OpenRun, CloseRun, Crash
  <2>4. store' = store
    BY <2>1, <2>2, <2>3 DEF Next, vars
  <2> QED
    BY <2>4, PromiseStands
<1> QED
  BY <1>1, <1>2, <1>3, <1>4

LEMMA PromiseInit == Init => Promise!DInit
BY DEF Init, Absent, Promise!DInit

(* Whatever branches, failures, cancellations and restarts there were, the *)
(* records of a session are as Durable describes them: engine and pruning  *)
(* handler implement the promise step by step.                             *)
THEOREM EngineKeepsPromise ==
    ASSUME ~Detached PROVE Spec => KeepsPromise
<1>1. Orderly /\ [Next]_vars => [Promise!DNext]_(Promise!dvars)
  BY PromiseStep
<1> QED
  BY <1>1, OrderlyAlways, PromiseInit, PTL DEF Spec, KeepsPromise, Promise!DSpec

-----------------------------------------------------------------------------
(* Metadata, when a body awaits one write before it makes the next: every  *)
(* copy of the record that is on its way into the store holds exactly what *)
(* the body was told it had set.                                           *)
Told(a) == {k \in Key : setter[a][k].state = "done"}
Quiet(a) == \A k \in Key : setter[a][k].state # "read"

NotBegun == {"idle", "check", "startRead", "startCommit"}

Marked(a) ==
    /\ att[a].pc \in NotBegun => \A k \in Key : setter[a][k].state = "none"
    /\ att[a].pc = "body" =>
         \A k \in Key : setter[a][k].state = "read" =>
            /\ setter[a][k].snap.meta = Told(a)
            /\ \A l \in Key : setter[a][l].state = "read" => l = k
    /\ att[a].pc \in StageOpen => Visible(a).meta = Told(a)
    /\ att[a].pc = "serialize" => att[a].found.meta = Told(a)
    /\ att[a].pc = "commit" => att[a].staged.meta = Told(a)
    /\ att[a].pc \notin {"body", "crashed"} => Quiet(a)
    /\ a \in durable => Quiet(a)

AllMarked == (\A a \in Attempt : Marked(a)) /\ MetadataWithResult

LEMMA MarkedInit == Init => AllMarked
BY DEF Init, Idle, Unset, Absent, AllMarked, Marked, Quiet, NotBegun, StageOpen,
       MetadataWithResult

LEMMA OthersMarked ==
    ASSUME NEW a \in Attempt, Aside(a), NEW b \in Attempt, b # a,
           Marked(b), Placed(b), Placed(b)'
    PROVE  Marked(b)'
<1>1. att'[b] = att[b] /\ setter'[b] = setter[b] /\ (b \in durable' => b \in durable)
  BY DEF Aside
<1>2. Told(b)' = Told(b) /\ Quiet(b)' = Quiet(b)
  BY <1>1 DEF Told, Quiet
<1>3. att[b].pc \in StageOpen => Visible(b)' = Visible(b)
  <2>1. att[b].pc \in StageOpen => store[att[b].id] = Started /\ store'[att[b].id] = Started
    BY <1>1 DEF Placed, StageOpen
  <2> QED
    BY <1>1, <2>1 DEF Visible
<1> QED
  BY <1>1, <1>2, <1>3 DEF Marked

(* An attempt that is past its body has no write under way.                *)
LEMMA MarkedPast ==
    ASSUME NEW a \in Attempt, Quiet(a), setter' = setter,
           att'[a].pc \in {"emit", "pruneRead", "pruneCommit", "emitFailed"} \cup Ended
    PROVE  Marked(a)'
<1>1. Quiet(a)'
  BY DEF Quiet
<1> QED
  BY <1>1 DEF Marked, NotBegun, StageOpen, Ended

(* The completed records keep the metadata of the attempts they are from.  *)
LEMMA MetadataStands ==
    ASSUME Typed, Kept, MetadataWithResult, NEW a \in Attempt, Aside(a),
           a \in durable => setter'[a] = setter[a],
           \A i \in Id : store'[i].status = "completed" =>
              \/ store'[i] = store[i]
              \/ store'[i].result = a /\ store'[i].meta = Told(a)'
    PROVE  MetadataWithResult'
<1> SUFFICES ASSUME NEW i \in Id, store'[i].status = "completed"
             PROVE  store'[i].meta
                      = {k \in Key : setter'[store'[i].result][k].state = "done"}
  BY DEF MetadataWithResult
<1>1. CASE store'[i] = store[i]
  <2> DEFINE b == store[i].result
  <2>1. Recorded(i)
    BY DEF Kept, AllRecorded
  <2>2. b \in durable /\ b \in Attempt
    BY <1>1, <2>1 DEF Recorded, Absent, Started, Typed, TypeOK
  <2>3. setter'[b] = setter[b]
    BY <2>2 DEF Aside
  <2>4. store[i].meta = Told(b)
    BY <1>1 DEF MetadataWithResult, Told
  <2> QED
    BY <1>1, <2>3, <2>4 DEF Told
<1>2. CASE store'[i].result = a /\ store'[i].meta = Told(a)'
  BY <1>2 DEF Told
<1> QED
  BY <1>1, <1>2

LEMMA MarkedRead ==
    ASSUME Typed, Kept, ~Concurrent, NEW a \in Attempt, Marked(a), NEW k \in Key,
           MetadataRead(a, k)
    PROVE  Marked(a)'
<1>1. /\ Placed(a) /\ att[a].pc = "body" /\ setter[a][k].state = "none"
      /\ UNCHANGED <<store, att, durable>>
      /\ \A l \in Key : setter[a][l].state # "read"
  BY DEF MetadataRead, Kept, AllPlaced, history
<1>2. Visible(a) # Absent
  BY <1>1, SeenInFlight DEF StageOpen
<1> DEFINE new == [state |-> "read", snap |-> Visible(a)]
<1>3. setter' = [setter EXCEPT ![a][k] = new]
  BY <1>2 DEF MetadataRead
<1>4. \A l \in Key : setter'[a][l] = IF l = k THEN new ELSE setter[a][l]
  BY <1>3 DEF Typed, TypeOK
<1>5. Told(a)' = Told(a)
  BY <1>1, <1>4 DEF Told
<1>6. Visible(a)' = Visible(a) /\ Visible(a).meta = Told(a)
  BY <1>1 DEF Visible, Marked, StageOpen
<1>7. ASSUME NEW l \in Key, setter'[a][l].state = "read"
      PROVE  l = k /\ setter'[a][l].snap.meta = Told(a)
  <2>1. l = k
    BY <1>1, <1>4, <1>7
  <2> QED
    BY <1>4, <1>6, <2>1
<1>8. a \notin durable
  BY <1>1 DEF Placed, Past, Ended
<1> HIDE DEF new
<1> QED
  BY <1>1, <1>5, <1>6, <1>7, <1>8 DEF Marked, NotBegun, StageOpen

LEMMA MarkedSave ==
    ASSUME Typed, Kept, NEW a \in Attempt, Marked(a), NEW k \in Key, MetadataSave(a, k)
    PROVE  Marked(a)' /\ a \notin durable
<1> DEFINE snap == setter[a][k].snap
           rec == SetMetadata(snap, k)
           new == [state |-> "done", snap |-> Absent]
<1>1. /\ Placed(a) /\ setter[a][k].state = "read" /\ att[a].pc # "crashed"
      /\ UNCHANGED <<store, durable>>
  BY DEF MetadataSave, Kept, AllPlaced, history
<1>2. att[a].pc = "body"
  BY <1>1 DEF Marked, Quiet
<1>3. /\ snap.meta = Told(a) /\ InFlight(snap) /\ snap \in Record
      /\ \A l \in Key : setter[a][l].state = "read" => l = k
  BY <1>1, <1>2 DEF Marked, Placed, Typed, TypeOK, SetterState
<1>4. /\ att' = Stage(a, "body", rec) /\ setter' = [setter EXCEPT ![a][k] = new]
  BY <1>2 DEF MetadataSave, StageOpen
<1>5. \A l \in Key : setter'[a][l] = IF l = k THEN new ELSE setter[a][l]
  BY <1>4 DEF Typed, TypeOK
<1>6. Told(a)' = Told(a) \cup {k}
  BY <1>5 DEF Told
<1>7. rec.meta = Told(a) \cup {k} /\ rec # Absent
  BY <1>3 DEF SetMetadata, Record, InFlight, Absent
<1>8. att'[a].pc = "body" /\ att'[a].staged = rec
  BY <1>4, AfterStage
<1>9. Visible(a)' = rec
  BY <1>7, <1>8 DEF Visible
<1>10. Quiet(a)'
  BY <1>3, <1>5 DEF Quiet
<1>11. a \notin durable
  BY <1>1, <1>2 DEF Placed, Past, Ended
<1> HIDE DEF rec, new, snap
<1> QED
  BY <1>1, <1>6, <1>7, <1>8, <1>9, <1>10, <1>11 DEF Marked, NotBegun, StageOpen, Quiet

(* The steps of an attempt that write no metadata.                         *)
LEMMA MarkedMoves ==
    ASSUME Typed, Kept, ~Detached, NEW a \in Attempt, Marked(a), Placed(a)',
           Progress(a) \/ Abandon(a), setter' = setter
    PROVE  Marked(a)'
<1>1. /\ Told(a)' = Told(a) /\ Quiet(a)' = Quiet(a) /\ Placed(a)
      /\ att[a].pc \notin {"body", "crashed"} => Quiet(a)
      /\ Settled(a) => Quiet(a)
  BY DEF Told, Quiet, Kept, AllPlaced, Settled, Marked
<1>2. CASE Check(a)
  <2>1. att[a].pc = "check" /\ att'[a].pc \in {"startRead", "returned"}
    BY <1>2, AfterLeave, AfterGoto DEF Check
  <2>2. Quiet(a)
    BY <1>1, <2>1
  <2> QED
    BY <1>1, <2>1, <2>2 DEF Marked, NotBegun, StageOpen
<1>3. CASE StartRead(a)
  <2>1. att[a].pc = "startRead" /\ \E rec : att' = Stage(a, "startCommit", rec)
    BY <1>3 DEF StartRead
  <2>2. att'[a].pc = "startCommit"
    BY <2>1, AfterStage
  <2> QED
    BY <1>1, <2>1, <2>2 DEF Marked, NotBegun, StageOpen
<1>4. CASE StartCommit(a)
  <2>1. /\ att[a].pc = "startCommit" /\ att'[a].pc = "body" /\ att'[a].staged = Absent
    BY <1>4, AfterStage DEF StartCommit
  <2>2. \A k \in Key : setter[a][k].state = "none"
    BY <2>1 DEF Marked, NotBegun
  <2>3. Told(a) = {} /\ Quiet(a)
    BY <2>2 DEF Told, Quiet
  <2>4. Visible(a)' = Started
    BY <2>1 DEF Visible, Placed
  <2> QED
    BY <1>1, <2>1, <2>2, <2>3, <2>4 DEF Marked, NotBegun, StageOpen, Started
<1>5. CASE BodyReturn(a)
  <2> DEFINE new == [att[a] EXCEPT !.pc = "serialize", !.found = Visible(a)]
  <2>1. att[a].pc = "body" /\ Quiet(a) /\ store' = store
    BY <1>1, <1>5 DEF BodyReturn
  <2>2. Visible(a) # Absent
    BY <1>1, <2>1, SeenInFlight DEF StageOpen
  <2>3. att' = [att EXCEPT ![a] = new]
    BY <1>5, <2>2 DEF BodyReturn
  <2>4. /\ att'[a].pc = "serialize" /\ att'[a].found = Visible(a)
        /\ att'[a].staged = att[a].staged /\ att'[a].id = att[a].id
    BY <2>3 DEF Typed, TypeOK, AttemptState
  <2>5. Visible(a)' = Visible(a) /\ Visible(a).meta = Told(a)
    BY <2>1, <2>4 DEF Visible, Marked, StageOpen
  <2> QED
    BY <1>1, <2>1, <2>4, <2>5 DEF Marked, NotBegun, StageOpen
<1>6. CASE CompleteSave(a) /\ att[a].found.status # "completed"
  <2> DEFINE rec == Complete(att[a].found, a)
             new == [att[a] EXCEPT !.pc = "commit", !.found = Absent, !.staged = rec]
  <2>1. att[a].pc = "serialize" /\ att[a].found \in Record
    BY <1>6 DEF CompleteSave, Typed, TypeOK, AttemptState
  <2>2. att' = [att EXCEPT ![a] = new]
    BY <1>6 DEF CompleteSave
  <2>3. rec.meta = Told(a)
    BY <2>1 DEF Complete, Record, Marked
  <2> HIDE DEF rec
  <2>4. att'[a].pc = "commit" /\ att'[a].staged = rec
    BY <2>2 DEF Typed, TypeOK, AttemptState
  <2> QED
    BY <1>1, <2>1, <2>3, <2>4 DEF Marked, NotBegun, StageOpen
<1>7. CASE \/ BodyRaise(a) \/ Abandon(a) \/ EmitFailed(a) \/ Commit(a) \/ Emit(a)
           \/ PruneRead(a) \/ PruneCommit(a) \/ PruneFails(a)
           \/ CompleteSave(a) /\ att[a].found.status = "completed"
  <2>1. Quiet(a)
    BY <1>1, <1>7 DEF BodyRaise, Abandon, EmitFailed, Commit, Emit, PruneRead,
       PruneCommit, PruneFails, CompleteSave, IsLive, Live, StageOpen
  <2>2. att'[a].pc \in {"emit", "pruneRead", "pruneCommit", "emitFailed"} \cup Ended
    <3>1. CASE PruneRead(a)
      BY <3>1 DEF PruneRead, Typed, TypeOK, AttemptState
    <3>2. CASE ~PruneRead(a)
      BY <1>7, <3>2, AfterStage, AfterGoto, AfterLeave DEF BodyRaise, Abandon, EmitFailed,
         Commit, Emit, PruneCommit, PruneFails, CompleteSave, Ended
    <3> QED
      BY <3>1, <3>2
  <2> QED
    BY <2>1, <2>2, MarkedPast
<1>8. CASE \E k \in Key : MetadataSave(a, k)
  BY <1>8, MarkedSave
<1> QED
  BY <1>2, <1>3, <1>4, <1>5, <1>6, <1>7, <1>8 DEF Progress

LEMMA MarkedStep ==
    ASSUME Typed, Kept, Kept', ~Detached, ~Concurrent, AllMarked, NEW a \in Attempt,
           Progress(a) \/ Abandon(a) \/ \E k \in Key : MetadataRead(a, k)
    PROVE  AllMarked'
<1>1. /\ Aside(a) /\ Marked(a) /\ MetadataWithResult
      /\ \A b \in Attempt : Marked(b) /\ Placed(b) /\ Placed(b)'
  BY AsideStep DEF AllMarked, Kept, AllPlaced
<1>2. \A b \in Attempt : b # a => Marked(b)'
  BY <1>1, OthersMarked
<1>3. setter' = setter \/ \E k \in Key : MetadataSave(a, k) \/ MetadataRead(a, k)
  BY DEF Progress, Check, StartRead, StartCommit, BodyReturn, BodyRaise, EmitFailed,
     CompleteSave, Commit, Emit, PruneRead, PruneCommit, PruneFails, Abandon
<1>4. Marked(a)'
  BY <1>1, <1>3, MarkedMoves, MarkedSave, MarkedRead
<1>5. a \in durable => setter'[a] = setter[a]
  <2>1. ASSUME NEW k \in Key, MetadataRead(a, k) PROVE a \notin durable
    BY <1>1, <2>1 DEF MetadataRead, Placed, Past, Ended
  <2> QED
    BY <1>1, <1>3, <2>1, MarkedSave
<1>6. ASSUME NEW i \in Id, store'[i].status = "completed"
      PROVE  store'[i] = store[i] \/ (store'[i].result = a /\ store'[i].meta = Told(a)')
  <2>1. CASE StartCommit(a)
    <3>1. att[a].pc = "startCommit" /\ store' = Persist(a)
      BY <2>1 DEF StartCommit
    <3>2. att[a].staged \in {Absent, Started}
      BY <1>1, <3>1 DEF Placed
    <3>3. store'[i] \in {store[i], Started}
      BY <3>1, <3>2 DEF Persist, Typed, TypeOK
    <3> QED
      BY <1>6, <3>3 DEF Started
  <2>2. CASE Commit(a)
    <3>1. /\ att[a].pc = "commit" /\ store' = Persist(a) /\ setter' = setter
      BY <2>2 DEF Commit
    <3>2. att[a].staged.result = a /\ att[a].staged.meta = Told(a)
      BY <1>1, <3>1 DEF Placed, Marked
    <3>3. store'[i] \in {store[i], att[a].staged}
      BY <3>1 DEF Persist, Typed, TypeOK
    <3>4. Told(a)' = Told(a)
      BY <3>1 DEF Told
    <3> QED
      BY <3>2, <3>3, <3>4
  <2>3. CASE PruneCommit(a)
    BY <1>6, <2>3 DEF PruneCommit, Absent
  <2>4. CASE ~StartCommit(a) /\ ~Commit(a) /\ ~PruneCommit(a)
    BY <2>4 DEF Progress, Check, StartRead, MetadataSave, BodyReturn, BodyRaise,
       EmitFailed, CompleteSave, Emit, PruneRead, PruneFails, Abandon, MetadataRead
  <2> QED
    BY <2>1, <2>2, <2>3, <2>4
<1>7. MetadataWithResult'
  BY <1>1, <1>5, <1>6, MetadataStands
<1> QED
  BY <1>2, <1>4, <1>7 DEF AllMarked

LEMMA MarkedEnter ==
    ASSUME Typed, Kept, Kept', AllMarked, NEW a \in Attempt, NEW r \in Run, NEW c \in Content,
           NEW caller \in Attempt \cup {None}, NEW p \in Id \cup {Root},
           Enter(a, r, caller, p, c)
    PROVE  AllMarked'
<1>1. /\ att[a].pc = "idle" /\ att'[a].pc = "check"
      /\ \A b \in Attempt : b # a => att'[b] = att[b]
      /\ UNCHANGED <<store, setter, durable, failed>>
  BY EnterShape
<1>2. \A b \in Attempt : Marked(b) /\ Placed(b) /\ Placed(b)'
  BY DEF AllMarked, Kept, AllPlaced
<1>3. a \notin durable
  BY <1>1, <1>2 DEF Placed, Past, Ended
<1>4. Aside(a)
  BY <1>1, <1>3 DEF Aside
<1>5. Quiet(a)' /\ Marked(a)'
  <2>1. \A k \in Key : setter'[a][k].state = "none"
    BY <1>1, <1>2 DEF Marked, NotBegun
  <2> QED
    BY <1>1, <2>1 DEF Marked, Quiet, NotBegun, StageOpen
<1>6. \A b \in Attempt : b # a => Marked(b)'
  BY <1>2, <1>4, OthersMarked
<1>7. MetadataWithResult'
  BY <1>1 DEF AllMarked, MetadataWithResult
<1> QED
  BY <1>5, <1>6, <1>7 DEF AllMarked

LEMMA MarkedRuns ==
    ASSUME Typed, ~Detached, Tree, AllMarked, NEW r \in Run,
           OpenRun(r) \/ CloseRun(r) \/ Crash(r)
    PROVE  AllMarked'
<1>1. \A b \in Attempt : ~IsLive(b)'
  BY TreeRuns
<1>2. UNCHANGED <<store, setter, durable>>
  BY DEF OpenRun, CloseRun, Crash, history
<1>3. ASSUME NEW b \in Attempt PROVE Marked(b)'
  <2>1. Marked(b) /\ Quiet(b)' = Quiet(b) /\ ~IsLive(b)'
    BY <1>1, <1>2, <1>3 DEF AllMarked, Quiet
  <2>2. att'[b] = att[b] \/ att'[b].pc = "crashed"
    <3>1. CASE att' = att
      BY <3>1
    <3>2. CASE Crash(r)
      <4>1. att'[b] \in {att[b], Leave(b, "crashed", None)[b]}
        BY <3>2 DEF Crash
      <4>2. Leave(b, "crashed", None)[b].pc = "crashed"
        BY DEF Leave, Typed, TypeOK, AttemptState
      <4> QED
        BY <4>1, <4>2
    <3> QED
      BY <3>1, <3>2 DEF OpenRun, CloseRun
  <2>3. CASE att'[b].pc = "crashed"
    BY <1>2, <2>1, <2>3 DEF Marked, NotBegun, StageOpen
  <2>4. CASE att'[b] = att[b] /\ att'[b].pc # "crashed"
    <3>1. Quiet(b)
      BY <2>1, <2>4 DEF Marked, IsLive, Live, StageOpen
    <3> QED
      BY <1>2, <2>1, <2>4, <3>1 DEF Marked, NotBegun, IsLive, Live, StageOpen
  <2> QED
    BY <2>2, <2>3, <2>4
<1>4. MetadataWithResult'
  BY <1>2 DEF AllMarked, MetadataWithResult
<1> QED
  BY <1>3, <1>4 DEF AllMarked

LEMMA MarkedNext ==
    ASSUME Orderly, Orderly', ~Detached, ~Concurrent, AllMarked, [Next]_vars
    PROVE  AllMarked'
<1>0. Typed /\ Sequenced /\ Tree /\ Kept /\ Kept'
  BY DEF Orderly
<1>1. CASE \E r \in Run : OpenRun(r) \/ CloseRun(r) \/ Crash(r)
  BY <1>0, <1>1, MarkedRuns
<1>2. ASSUME NEW a \in Attempt, CallFromSession(a) \/ CallFromBody(a)
      PROVE  AllMarked'
  BY <1>0, <1>2, CallIsAsked, MarkedEnter
<1>3. ASSUME NEW a \in Attempt,
             Progress(a) \/ Abandon(a) \/ \E k \in Key : MetadataRead(a, k)
      PROVE  AllMarked'
  BY <1>0, <1>3, MarkedStep
<1>4. CASE UNCHANGED vars
  BY <1>4 DEF vars, AllMarked, Marked, MetadataWithResult, Told, Quiet, Visible
<1> QED
  BY <1>1, <1>2, <1>3, <1>4 DEF Next

(* What a body was told it had set is in its completed record, and nothing *)
(* else is, when it awaits each metadata write before the next: over every *)
(* failure, crash and replay.                                              *)
THEOREM MetadataComesWithResult ==
    ASSUME ~Detached, ~Concurrent PROVE Spec => []MetadataWithResult
<1>1. Orderly /\ Orderly' /\ AllMarked /\ [Next]_vars => AllMarked'
  BY MarkedNext
<1>2. AllMarked => MetadataWithResult
  BY DEF AllMarked
<1> QED
  BY <1>1, <1>2, MarkedInit, OrderlyAlways, PTL DEF Spec

-----------------------------------------------------------------------------
(* The calls of a session are nested as Durable takes them to be, so what  *)
(* follows from the promise there holds of the engine's records.           *)
LEMMA EngineNests == Promise!Nested
<1>1. Above \in [Id -> SUBSET Id]
  BY DEF Above
<1>2. \A i \in Id : i \notin Above[i]
  BY NotBeneathItself DEF Above
<1>3. \A i \in Id : \A j \in Above[i] : Above[j] \subseteq Above[i]
  BY BeneathTransitive DEF Above
<1>4. <<None, {}>> \notin Attempt \X SUBSET Key
  BY EngineAssumption
<1> QED
  BY <1>1, <1>2, <1>3, <1>4 DEF Promise!Nested

Promised == INSTANCE DurableProofs WITH
    Call <- Id,
    Ancestors <- Above,
    Value <- Attempt \X SUBSET Key,
    NoValue <- <<None, {}>>,
    status <- [i \in Id |-> store[i].status],
    value <- [i \in Id |-> <<store[i].result, store[i].meta>>]

LEMMA EnginePromised ==
    ASSUME ~Detached PROVE Spec => Promised!DSpec
<1>1. Promise!DInit => Promised!DInit
  BY DEF Promise!DInit, Promised!DInit
<1>2. [Promise!DNext]_(Promise!dvars) => [Promised!DNext]_(Promised!dvars)
  BY DEF Promise!DNext, Promised!DNext, Promise!Start, Promised!Start, Promise!Finish,
     Promised!Finish, Promise!Prune, Promised!Prune, Promise!InProgress,
     Promised!InProgress, Promise!dvars, Promised!dvars
<1> QED
  BY <1>1, <1>2, EngineKeepsPromise, PTL DEF KeepsPromise, Promise!DSpec, Promised!DSpec

LEMMA EngineNested == Promised!Nested
BY EngineNests DEF Promise!Nested, Promised!Nested

(* A record never outlives those it is nested in, whatever was pruned or   *)
(* crashed: migration and pruning, which walk down from a recorded parent, *)
(* miss none.                                                              *)
THEOREM RecordsFormForest ==
    ASSUME ~Detached PROVE Spec => []Promised!AncestorsRecorded
<1>1. Promised!DSpec => []Promised!AncestorsRecorded
  BY EngineNested, Promised!ParentsStayRecorded
<1> QED
  BY <1>1, EnginePromised, PTL

(* The recorded result and metadata of a completed call never change, and  *)
(* go only with a completed call above it.                                 *)
THEOREM RecordsAreFinal ==
    ASSUME ~Detached PROVE Spec => Promised!CompletedIsFinal
<1>1. Promised!DSpec => Promised!CompletedIsFinal
  BY EngineNested, Promised!CompletionIsFinal
<1> QED
  BY <1>1, EnginePromised, PTL

(* What pruning deleted is not started again: nothing new is ever recorded *)
(* beneath a completed call.                                               *)
THEOREM PrunedStayAway ==
    ASSUME ~Detached PROVE Spec => Promised!NothingStartsBeneathCompleted
<1>1. Promised!DSpec => Promised!NothingStartsBeneathCompleted
  BY EngineNested, Promised!NoStartBeneathCompleted
<1> QED
  BY <1>1, EnginePromised, PTL

=============================================================================
