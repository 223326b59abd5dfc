---------------------------- MODULE DomainClaims ----------------------------
(***************************************************************************)
(* How the calls of one session agree with the store on the version of     *)
(* their domain (packages/glyff/src/glyff/_domain_claims.py), over the     *)
(* contexts that enter the session: one after the other, or in several     *)
(* processes at once.  A context asks the store once per domain and        *)
(* remembers the answer; its tasks queue for that on a lock.               *)
(***************************************************************************)
CONSTANTS
    Call,      \* calls of engraved functions, each made once
    Context,   \* the times the session is entered
    Domain,
    Version,
    None

ASSUME ClaimsAssumption == None \notin Version /\ None \notin Call

VARIABLES
    recorded,  \* the store: the version of each domain
    written,   \* the store: the versions that records of each domain carry
    context,   \* where each context is
    observed,  \* _observed of each context
    lock,      \* _locks of each context: who holds them
    call       \* the calls

cvars == <<recorded, written, context, observed, lock, call>>

Busy == {"waiting", "claiming", "claimed"}

CallState ==
    [pc : {"idle", "admitted", "refused", "failed", "ended"} \cup Busy,
     ctx : Context \cup {None}, dom : Domain \cup {None},
     ver : Version \cup {None}, answer : Version \cup {None}]

Idle == [pc |-> "idle", ctx |-> None, dom |-> None, ver |-> None, answer |-> None]

Init ==
    /\ recorded = [d \in Domain |-> None]
    /\ written = [d \in Domain |-> {}]
    /\ context = [c \in Context |-> "new"]
    /\ observed = [c \in Context |-> [d \in Domain |-> None]]
    /\ lock = [c \in Context |-> [d \in Domain |-> None]]
    /\ call = [t \in Call |-> Idle]

-----------------------------------------------------------------------------
(* Contexts. *)

Of(c) == {t \in Call : call[t].ctx = c}

Open(c) ==
    /\ context[c] = "new"
    /\ context' = [context EXCEPT ![c] = "live"]
    /\ UNCHANGED <<recorded, written, observed, lock, call>>

Leave(c) ==
    /\ context[c] = "live"
    /\ \A t \in Of(c) : call[t].pc \notin Busy \cup {"admitted"}
    /\ context' = [context EXCEPT ![c] = "gone"]
    /\ UNCHANGED <<recorded, written, observed, lock, call>>

Crash(c) ==
    /\ context[c] = "live"
    /\ context' = [context EXCEPT ![c] = "gone"]
    /\ call' = [t \in Call |-> IF t \in Of(c) /\ call[t].pc \in Busy \cup {"admitted"}
                               THEN [call[t] EXCEPT !.pc = "ended"] ELSE call[t]]
    /\ UNCHANGED <<recorded, written, observed, lock>>

-----------------------------------------------------------------------------
(* ensure *)

Verdict(v, o) == IF v = o THEN "admitted" ELSE "refused"

(* From the version the context has observed. *)
EnsureObserved(t, c, d, v) ==
    /\ context[c] = "live"
    /\ call[t].pc = "idle"
    /\ observed[c][d] # None
    /\ call' = [call EXCEPT ![t] =
                  [Idle EXCEPT !.pc = Verdict(v, observed[c][d]),
                               !.ctx = c, !.dom = d, !.ver = v]]
    /\ UNCHANGED <<recorded, written, context, observed, lock>>

(* The first to ask takes the lock at once; another waits for it. *)
Ensure(t, c, d, v) ==
    /\ context[c] = "live"
    /\ call[t].pc = "idle"
    /\ observed[c][d] = None
    /\ LET free == lock[c][d] = None IN
       /\ call' = [call EXCEPT ![t] =
                     [Idle EXCEPT !.pc = IF free THEN "claiming" ELSE "waiting",
                                  !.ctx = c, !.dom = d, !.ver = v]]
       /\ lock' = IF free THEN [lock EXCEPT ![c][d] = t] ELSE lock
    /\ UNCHANGED <<recorded, written, context, observed>>

(* Once it has the lock, a call looks again before it asks the store. *)
AcquireAnyway(t) ==   \* mutant: the lock is not waited for
    LET c == call[t].ctx  d == call[t].dom IN
    /\ call[t].pc = "waiting"
    /\ observed[c][d] = None
    /\ call' = [call EXCEPT ![t].pc = "claiming"]
    /\ lock' = [lock EXCEPT ![c][d] = t]
    /\ UNCHANGED <<recorded, written, context, observed>>
Acquire(t) ==
    LET c == call[t].ctx  d == call[t].dom IN
    /\ call[t].pc = "waiting"
    /\ lock[c][d] = None
    /\ \/ /\ observed[c][d] = None
          /\ call' = [call EXCEPT ![t].pc = "claiming"]
          /\ lock' = [lock EXCEPT ![c][d] = t]
       \/ /\ observed[c][d] # None
          /\ call' = [call EXCEPT ![t].pc = Verdict(call[t].ver, observed[c][d])]
          /\ lock' = lock
    /\ UNCHANGED <<recorded, written, context, observed>>

(* The store records a version for a domain that has none, and answers the  *)
(* one recorded, in one transaction.                                        *)
WinnerIsLast(d, v) == v   \* mutant: the claim overwrites
Winner(d, v) == IF recorded[d] = None THEN v ELSE recorded[d]

AtStore(t) ==
    LET w == Winner(call[t].dom, call[t].ver) IN
    /\ call[t].pc = "claiming"
    /\ recorded' = [recorded EXCEPT ![call[t].dom] = w]
    /\ call' = [call EXCEPT ![t].pc = "claimed", ![t].answer = w]
    /\ UNCHANGED <<written, context, observed, lock>>

AnswerAsked(t) == call[t].ver   \* mutant: what was asked, not what was answered
Answer(t) == call[t].answer

Return(t) ==
    LET c == call[t].ctx  d == call[t].dom IN
    /\ call[t].pc = "claimed"
    /\ observed' = [observed EXCEPT ![c][d] = Answer(t)]
    /\ lock' = [lock EXCEPT ![c][d] = None]
    /\ call' = [call EXCEPT ![t].pc = Verdict(call[t].ver, Answer(t))]
    /\ UNCHANGED <<recorded, written, context>>

(* The store fails, or the call is cancelled: queued, asking, or after the  *)
(* store has recorded its claim, when a worker's cancellation is raised.    *)
ReleaseNone(t) == lock   \* mutant: the lock is kept by a claim that failed
Release(t) ==
    LET c == call[t].ctx  d == call[t].dom IN
    IF lock[c][d] = t THEN [lock EXCEPT ![c][d] = None] ELSE lock

Fail(t) ==
    /\ call[t].pc \in Busy
    /\ call' = [call EXCEPT ![t].pc = "failed"]
    /\ lock' = Release(t)
    /\ UNCHANGED <<recorded, written, context, observed>>

-----------------------------------------------------------------------------
(* The rest of the call. *)

(* A record of the call is committed. *)
Write(t) ==
    /\ call[t].pc = "admitted"
    /\ written' = [written EXCEPT ![call[t].dom] = @ \cup {call[t].ver}]
    /\ UNCHANGED <<recorded, context, observed, lock, call>>

End(t) ==
    /\ call[t].pc = "admitted"
    /\ call' = [call EXCEPT ![t].pc = "ended"]
    /\ UNCHANGED <<recorded, written, context, observed, lock>>

(* A migration replaces the version and the records at once.  The session   *)
(* is offline, which is the application's to see to (docs/migration.md).    *)
MigrateLive(d, v) ==   \* mutant: while the session is entered
    /\ recorded[d] # None
    /\ recorded' = [recorded EXCEPT ![d] = v]
    /\ written' = [written EXCEPT ![d] = IF @ = {} THEN {} ELSE {v}]
    /\ UNCHANGED <<context, observed, lock, call>>
Migrate(d, v) ==
    /\ \A c \in Context : context[c] # "live"
    /\ recorded[d] \notin {None, v}
    /\ recorded' = [recorded EXCEPT ![d] = v]
    /\ written' = [written EXCEPT ![d] = IF @ = {} THEN {} ELSE {v}]
    /\ UNCHANGED <<context, observed, lock, call>>

Next ==
    \/ \E c \in Context : Open(c) \/ Leave(c) \/ Crash(c)
    \/ \E t \in Call :
        \/ Acquire(t) \/ AtStore(t) \/ Return(t) \/ Fail(t) \/ Write(t) \/ End(t)
        \/ \E c \in Context, d \in Domain, v \in Version :
            EnsureObserved(t, c, d, v) \/ Ensure(t, c, d, v)
    \/ \E d \in Domain, v \in Version : Migrate(d, v)

Fairness == \A t \in Call : WF_cvars(Acquire(t)) /\ WF_cvars(AtStore(t) \/ Return(t))

Spec == Init /\ [][Next]_cvars
FairSpec == Spec /\ Fairness

-----------------------------------------------------------------------------
(* Types of the state; a call that asks has a context, and a claim an answer. *)
TypeOK ==
    /\ recorded \in [Domain -> Version \cup {None}]
    /\ written \in [Domain -> SUBSET Version]
    /\ context \in [Context -> {"new", "live", "gone"}]
    /\ observed \in [Context -> [Domain -> Version \cup {None}]]
    /\ lock \in [Context -> [Domain -> Call \cup {None}]]
    /\ call \in [Call -> CallState]
    /\ \A t \in Call :
        /\ call[t].pc # "idle" =>
             call[t].ctx \in Context /\ call[t].dom \in Domain /\ call[t].ver \in Version
        /\ call[t].pc = "claimed" => call[t].answer \in Version

(* The records of a domain are all of the one version the session states    *)
(* for it, over crashes, failed claims and migrations (_domain.py, wrapper: *)
(* no record meets a generation of code that was not agreed with).          *)
OneGeneration == \A d \in Domain : written[d] \subseteq {recorded[d]}

(* A call that was admitted runs the recorded version, and one that was     *)
(* refused runs another, as long as its context is there: what a context    *)
(* observed does not go stale under it (_observed).                         *)
VerdictsStand ==
    \A t \in Call :
        /\ call[t].pc = "admitted" => call[t].ver = recorded[call[t].dom]
        /\ call[t].pc = "refused" /\ context[call[t].ctx] = "live" =>
             call[t].ver # recorded[call[t].dom]

(* Within one context the calls of a domain ask the store one at a time,    *)
(* and none asks once an answer was kept (_observe).                        *)
ClaimsTakeTurns ==
    \A t, u \in Call :
        LET asking(x) == call[x].pc \in {"claiming", "claimed"} /\ context[call[x].ctx] = "live"
        IN  asking(t) =>
              /\ observed[call[t].ctx][call[t].dom] = None
              /\ asking(u) /\ call[u].ctx = call[t].ctx /\ call[u].dom = call[t].dom => u = t

(* Each call gets a verdict or an exception: a claim that fails or is       *)
(* cancelled lets the next one ask.                                         *)
EveryEnsureEnds == \A t \in Call : call[t].pc \in Busy ~> call[t].pc \notin Busy

-----------------------------------------------------------------------------
(* The claims implement the register of versions. *)
Outcome(t) ==
    CASE call[t].pc \in {"admitted", "refused"} ->
           [state |-> call[t].pc, dom |-> call[t].dom, ver |-> call[t].ver]
      [] call[t].pc \in {"failed", "ended"} ->
           [state |-> "over", dom |-> None, ver |-> None]
      [] OTHER -> [state |-> "none", dom |-> None, ver |-> None]

Register == INSTANCE VersionRegister WITH verdict <- [t \in Call |-> Outcome(t)]

(* Whatever contexts, tasks and failures do, the session's versions behave  *)
(* as one register that is written once between migrations.                 *)
ActsAsRegister == Register!RSpec

=============================================================================
