---------------------------- MODULE DurableProofs ----------------------------
(***************************************************************************)
(* What follows from the promise of Durable, for every set of calls.       *)
(***************************************************************************)
EXTENDS Durable, TLAPS

(* The state of the records keeps its shape. *)
THEOREM DurableTypes ==
    ASSUME Nested PROVE DSpec => []DTypeOK
<1> USE DEF DTypeOK
<1>1. DInit => DTypeOK
  BY DEF DInit
<1>2. DTypeOK /\ [DNext]_dvars => DTypeOK'
  <2> SUFFICES ASSUME DTypeOK, [DNext]_dvars PROVE DTypeOK'
    OBVIOUS
  <2>1. ASSUME NEW c \in Call, Start(c) PROVE DTypeOK'
    BY <2>1 DEF Start
  <2>2. ASSUME NEW c \in Call, Prune(c) PROVE DTypeOK'
    BY <2>2 DEF Prune
  <2>3. ASSUME NEW c \in Call, NEW v \in Value, Finish(c, v) PROVE DTypeOK'
    BY <2>3 DEF Finish
  <2>4. CASE UNCHANGED dvars
    BY <2>4 DEF dvars
  <2> QED
    BY <2>1, <2>2, <2>3, <2>4 DEF DNext
<1> QED
  BY <1>1, <1>2, PTL DEF DSpec

-----------------------------------------------------------------------------
(* Every record of a session is reachable through recorded ancestors: what *)
(* START, COMPLETE and pruning leave behind is always a forest, so a       *)
(* migration or an enumeration never meets an orphan.                      *)
THEOREM ParentsStayRecorded ==
    ASSUME Nested PROVE DSpec => []AncestorsRecorded
<1> USE DEF AncestorsRecorded
<1>1. DInit => AncestorsRecorded
  BY DEF DInit
<1>2. DTypeOK /\ AncestorsRecorded /\ [DNext]_dvars => AncestorsRecorded'
  <2> SUFFICES ASSUME DTypeOK, AncestorsRecorded, [DNext]_dvars
               PROVE  AncestorsRecorded'
    OBVIOUS
  <2> USE DEF DTypeOK, Nested
  <2>1. ASSUME NEW c \in Call, Start(c) PROVE AncestorsRecorded'
    BY <2>1 DEF Start, InProgress
  <2>2. ASSUME NEW c \in Call, Prune(c) PROVE AncestorsRecorded'
    <3> SUFFICES ASSUME NEW d \in Call, status'[d] # "absent",
                        NEW p \in Ancestors[d]
                 PROVE  status'[p] # "absent"
      OBVIOUS
    <3>1. c \notin Ancestors[d] /\ status[d] # "absent"
      BY <2>2 DEF Prune
    <3>2. p \in Call /\ c \notin Ancestors[p]
      BY <3>1
    <3> QED
      BY <2>2, <3>1, <3>2 DEF Prune
  <2>3. ASSUME NEW c \in Call, NEW v \in Value, Finish(c, v)
        PROVE  AncestorsRecorded'
    BY <2>3 DEF Finish
  <2>4. CASE UNCHANGED dvars
    BY <2>4 DEF dvars
  <2> QED
    BY <2>1, <2>2, <2>3, <2>4 DEF DNext
<1> QED
  BY <1>1, <1>2, DurableTypes, PTL DEF DSpec

(* Result and metadata are recorded with COMPLETED and only with it.       *)
THEOREM ValuesComeWithCompletion ==
    ASSUME Nested PROVE DSpec => []ValueWithCompletion
<1> USE DEF ValueWithCompletion
<1>1. DInit => ValueWithCompletion
  BY DEF DInit
<1>2. DTypeOK /\ ValueWithCompletion /\ [DNext]_dvars => ValueWithCompletion'
  <2> SUFFICES ASSUME DTypeOK, ValueWithCompletion, [DNext]_dvars
               PROVE  ValueWithCompletion'
    OBVIOUS
  <2> USE DEF DTypeOK, Nested
  <2>1. ASSUME NEW c \in Call, Start(c) PROVE ValueWithCompletion'
    BY <2>1 DEF Start
  <2>2. ASSUME NEW c \in Call, Prune(c) PROVE ValueWithCompletion'
    BY <2>2 DEF Prune
  <2>3. ASSUME NEW c \in Call, NEW v \in Value, Finish(c, v)
        PROVE  ValueWithCompletion'
    BY <2>3 DEF Finish
  <2>4. CASE UNCHANGED dvars
    BY <2>4 DEF dvars
  <2> QED
    BY <2>1, <2>2, <2>3, <2>4 DEF DNext
<1> QED
  BY <1>1, <1>2, DurableTypes, PTL DEF DSpec

-----------------------------------------------------------------------------
(* A completed call keeps its recorded result and metadata for good, until *)
(* it is deleted as the descendant of a completed call.                    *)
THEOREM CompletionIsFinal ==
    ASSUME Nested PROVE DSpec => CompletedIsFinal
<1> DEFINE Final ==
      \A c \in Call : status[c] = "completed" =>
         \/ status'[c] = "completed" /\ value'[c] = value[c]
         \/ /\ status'[c] = "absent"
            /\ \E p \in Ancestors[c] : status[p] = "completed"
<1>1. DTypeOK /\ [DNext]_dvars => [Final]_dvars
  <2> SUFFICES ASSUME DTypeOK, DNext PROVE Final
    OBVIOUS
  <2> USE DEF DTypeOK
  <2>1. ASSUME NEW c \in Call, Start(c) PROVE Final
    BY <2>1 DEF Start
  <2>2. ASSUME NEW c \in Call, Prune(c) PROVE Final
    BY <2>2 DEF Prune
  <2>3. ASSUME NEW c \in Call, NEW v \in Value, Finish(c, v) PROVE Final
    BY <2>3 DEF Finish
  <2> QED
    BY <2>1, <2>2, <2>3 DEF DNext
<1> QED
  BY <1>1, DurableTypes, PTL DEF DSpec, CompletedIsFinal

(* What pruning deleted beneath a completed call is not started again.     *)
THEOREM NoStartBeneathCompleted ==
    ASSUME Nested PROVE DSpec => NothingStartsBeneathCompleted
<1> DEFINE Quiet ==
      \A c \in Call :
         (status[c] = "absent" /\ status'[c] # "absent") =>
            \A p \in Ancestors[c] : status[p] # "completed"
<1>1. DTypeOK /\ [DNext]_dvars => [Quiet]_dvars
  <2> SUFFICES ASSUME DTypeOK, DNext PROVE Quiet
    OBVIOUS
  <2> USE DEF DTypeOK
  <2>1. ASSUME NEW c \in Call, Start(c) PROVE Quiet
    BY <2>1 DEF Start, InProgress
  <2>2. ASSUME NEW c \in Call, Prune(c) PROVE Quiet
    BY <2>2 DEF Prune
  <2>3. ASSUME NEW c \in Call, NEW v \in Value, Finish(c, v) PROVE Quiet
    BY <2>3 DEF Finish
  <2> QED
    BY <2>1, <2>2, <2>3 DEF DNext
<1> QED
  BY <1>1, DurableTypes, PTL DEF DSpec, NothingStartsBeneathCompleted

=============================================================================
