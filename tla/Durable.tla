------------------------------- MODULE Durable -------------------------------
(***************************************************************************)
(* What glyff promises of the records of one session, whatever branches,   *)
(* failures and restarts produced them: a call is recorded as started      *)
(* while every call above it is still in progress, becomes completed once  *)
(* and for good with one value, and disappears only together with          *)
(* everything else recorded beneath a completed call.                      *)
(***************************************************************************)
CONSTANTS
    Call,      \* identities of calls
    Ancestors, \* for each call, the calls it is nested in
    Value,     \* what a completed call is recorded with
    NoValue    \* what a call that is not completed is recorded with

(* Nesting is a strict order; every theorem about this module takes it.    *)
Nested ==
    /\ Ancestors \in [Call -> SUBSET Call]
    /\ \A c \in Call : c \notin Ancestors[c]
    /\ \A c \in Call : \A p \in Ancestors[c] : Ancestors[p] \subseteq Ancestors[c]
    /\ NoValue \notin Value

VARIABLES status, value

dvars == <<status, value>>

DTypeOK ==
    /\ status \in [Call -> {"absent", "started", "completed"}]
    /\ value \in [Call -> Value \cup {NoValue}]

DInit ==
    /\ status = [c \in Call |-> "absent"]
    /\ value = [c \in Call |-> NoValue]

InProgress(c) == \A p \in Ancestors[c] : status[p] = "started"

Start(c) ==
    /\ status[c] = "absent"
    /\ InProgress(c)
    /\ status' = [status EXCEPT ![c] = "started"]
    /\ value' = value

Finish(c, v) ==
    /\ status[c] = "started"
    /\ InProgress(c)
    /\ status' = [status EXCEPT ![c] = "completed"]
    /\ value' = [value EXCEPT ![c] = v]

Prune(c) ==
    /\ status[c] = "completed"
    /\ status' = [d \in Call |->
                    IF c \in Ancestors[d] THEN "absent" ELSE status[d]]
    /\ value' = [d \in Call |->
                    IF c \in Ancestors[d] THEN NoValue ELSE value[d]]

DNext ==
    \E c \in Call : Start(c) \/ Prune(c) \/ \E v \in Value : Finish(c, v)

DSpec == DInit /\ [][DNext]_dvars

-----------------------------------------------------------------------------
(* A record never outlives the records it is nested in: whoever walks the  *)
(* chain of a recorded call finds every frame of it (migration and pruning *)
(* enumerate by that chain).                                               *)
AncestorsRecorded ==
    \A c \in Call : status[c] # "absent" =>
        \A p \in Ancestors[c] : status[p] # "absent"

(* A value is recorded exactly with completion, never beside STARTED.      *)
ValueWithCompletion ==
    \A c \in Call : value[c] # NoValue <=> status[c] = "completed"

(* A completed call keeps its value, or goes with a completed call above it. *)
CompletedIsFinal ==
    [][\A c \in Call : status[c] = "completed" =>
         \/ status'[c] = "completed" /\ value'[c] = value[c]
         \/ /\ status'[c] = "absent"
            /\ \E p \in Ancestors[c] : status[p] = "completed"]_dvars

(* Nothing is started beneath a completed call: what pruning removed there *)
(* does not come back.                                                     *)
NothingStartsBeneathCompleted ==
    [][\A c \in Call :
         (status[c] = "absent" /\ status'[c] # "absent") =>
            \A p \in Ancestors[c] : status[p] # "completed"]_dvars

=============================================================================
