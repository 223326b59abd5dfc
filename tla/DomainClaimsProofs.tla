------------------------- MODULE DomainClaimsProofs -------------------------
(***************************************************************************)
(* DomainClaims, for every number of calls, contexts, domains and versions. *)
(***************************************************************************)
EXTENDS DomainClaims, TLAPS

(* What is under way belongs to a context that is there.                   *)
Live(t) == call[t].pc \in Busy \cup {"admitted"} => context[call[t].ctx] = "live"

(* An answer on its way is what the store has, and its call has the lock.  *)
Asking(t) ==
    LET c == call[t].ctx  d == call[t].dom IN
    /\ call[t].pc \in {"claiming", "claimed"} => lock[c][d] = t /\ observed[c][d] = None
    /\ call[t].pc = "claimed" => call[t].answer = recorded[d]

(* A verdict was given on the recorded version.                            *)
Judged(t) ==
    /\ call[t].pc = "admitted" => call[t].ver = recorded[call[t].dom]
    /\ call[t].pc = "refused" /\ context[call[t].ctx] = "live" =>
         recorded[call[t].dom] \notin {None, call[t].ver}

(* What a context observed is what the store has.                          *)
Cached ==
    \A c \in Context, d \in Domain :
        context[c] = "live" => observed[c][d] \in {None, recorded[d]}

(* A context that was not entered yet has observed and called nothing.     *)
Fresh ==
    \A c \in Context : context[c] = "new" =>
        /\ \A d \in Domain : observed[c][d] = None
        /\ \A t \in Call : call[t].pc # "idle" => call[t].ctx # c

Inv ==
    /\ TypeOK
    /\ \A t \in Call : Live(t) /\ Asking(t) /\ Judged(t)
    /\ Cached
    /\ Fresh
    /\ OneGeneration

LEMMA InvInit == Init => Inv
  BY ClaimsAssumption
  DEF Init, Inv, TypeOK, CallState, Idle, Busy, Live, Asking, Judged, Cached, Fresh, OneGeneration

CallsOK ==
    /\ call \in [Call -> CallState]
    /\ \A t \in Call :
        /\ call[t].pc # "idle" =>
             call[t].ctx \in Context /\ call[t].dom \in Domain /\ call[t].ver \in Version
        /\ call[t].pc = "claimed" => call[t].answer \in Version

LEMMA CallsStep ==
    ASSUME TypeOK, NEW t \in Call, NEW x \in CallState, call' = [call EXCEPT ![t] = x],
           x.ctx \in Context, x.dom \in Domain, x.ver \in Version,
           x.pc = "claimed" => x.answer \in Version
    PROVE  CallsOK'
  BY DEF TypeOK, CallsOK

LEMMA PcStep ==
    ASSUME TypeOK, NEW t \in Call, call[t].pc # "idle",
           NEW p \in {"claiming", "admitted", "refused", "failed", "ended"},
           call' = [call EXCEPT ![t].pc = p]
    PROVE  CallsOK'
<1> DEFINE x == [call[t] EXCEPT !.pc = p]
<1>1. /\ x \in CallState /\ x.pc = p
      /\ x.ctx = call[t].ctx /\ x.dom = call[t].dom /\ x.ver = call[t].ver
  BY DEF TypeOK, CallState, Busy
<1>2. call[t].ctx \in Context /\ call[t].dom \in Domain /\ call[t].ver \in Version
  BY DEF TypeOK
<1>3. call' = [call EXCEPT ![t] = x]
  OBVIOUS
<1> HIDE DEF x
<1> QED
  BY <1>1, <1>2, <1>3, CallsStep

LEMMA TypeStep == TypeOK /\ [Next]_cvars => TypeOK'
<1> SUFFICES ASSUME TypeOK, [Next]_cvars PROVE TypeOK'
  OBVIOUS
<1>1. CASE UNCHANGED cvars
  BY <1>1 DEF cvars, TypeOK, CallState
<1>2. ASSUME NEW c \in Context, Open(c) \/ Leave(c) PROVE TypeOK'
  BY <1>2 DEF TypeOK, Open, Leave, CallState
<1>3. ASSUME NEW c \in Context, Crash(c) PROVE TypeOK'
  <2>1. ASSUME NEW x \in CallState PROVE [x EXCEPT !.pc = "ended"] \in CallState
    BY DEF CallState
  <2>2. call' \in [Call -> CallState]
    BY <1>3, <2>1 DEF Crash, TypeOK
  <2>3. \A t \in Call : /\ call'[t].ctx = call[t].ctx
                        /\ call'[t].dom = call[t].dom
                        /\ call'[t].ver = call[t].ver
                        /\ call'[t].pc = "idle" <=> call[t].pc = "idle"
                        /\ call'[t].pc = "claimed" => call'[t] = call[t]
    <3> SUFFICES ASSUME NEW t \in Call
                 PROVE  /\ call'[t].ctx = call[t].ctx
                        /\ call'[t].dom = call[t].dom
                        /\ call'[t].ver = call[t].ver
                        /\ call'[t].pc = "idle" <=> call[t].pc = "idle"
                        /\ call'[t].pc = "claimed" => call'[t] = call[t]
      OBVIOUS
    <3>1. call[t] \in CallState
      BY DEF TypeOK
    <3>2. CASE t \in Of(c) /\ call[t].pc \in Busy \cup {"admitted"}
      <4>1. call'[t] = [call[t] EXCEPT !.pc = "ended"]
        BY <1>3, <3>2 DEF Crash
      <4> QED
        BY <3>1, <3>2, <4>1 DEF CallState, Busy
    <3>3. CASE ~(t \in Of(c) /\ call[t].pc \in Busy \cup {"admitted"})
      BY <1>3, <3>3 DEF Crash
    <3> QED
      BY <3>2, <3>3
  <2>4. UNCHANGED <<recorded, written, observed, lock>>
    BY <1>3 DEF Crash
  <2>5. context' \in [Context -> {"new", "live", "gone"}]
    BY <1>3 DEF Crash, TypeOK
  <2>6. \A t \in Call :
          /\ call'[t].pc # "idle" => /\ call'[t].ctx \in Context
                                     /\ call'[t].dom \in Domain /\ call'[t].ver \in Version
          /\ call'[t].pc = "claimed" => call'[t].answer \in Version
    BY <2>3 DEF TypeOK
  <2> QED
    BY <2>2, <2>4, <2>5, <2>6 DEF TypeOK
<1>4. ASSUME NEW t \in Call, NEW c \in Context, NEW d \in Domain, NEW v \in Version,
             EnsureObserved(t, c, d, v)
      PROVE  TypeOK'
  BY <1>4 DEF TypeOK, EnsureObserved, CallState, Idle, Busy, Verdict
<1>5. ASSUME NEW t \in Call, NEW c \in Context, NEW d \in Domain, NEW v \in Version,
             Ensure(t, c, d, v)
      PROVE  TypeOK'
  BY <1>5 DEF TypeOK, Ensure, CallState, Idle, Busy
<1>6. ASSUME NEW t \in Call, Acquire(t) PROVE TypeOK'
  <2>1. PICK p \in {"claiming", "admitted", "refused"} : call' = [call EXCEPT ![t].pc = p]
    BY <1>6 DEF Acquire, Verdict
  <2>2. CallsOK'
    BY <1>6, <2>1, PcStep DEF Acquire, Busy
  <2>3. call[t].ctx \in Context /\ call[t].dom \in Domain
    BY <1>6 DEF TypeOK, Acquire
  <2>4. lock' \in [Context -> [Domain -> Call \cup {None}]]
    <3>1. \/ lock' = lock
          \/ lock' = [lock EXCEPT ![call[t].ctx][call[t].dom] = t]
      BY <1>6 DEF Acquire
    <3>2. lock \in [Context -> [Domain -> Call \cup {None}]]
      BY DEF TypeOK
    <3> QED
      BY <2>3, <3>1, <3>2
  <2>5. UNCHANGED <<recorded, written, context, observed>>
    BY <1>6 DEF Acquire
  <2> QED
    BY <2>2, <2>4, <2>5 DEF TypeOK, CallsOK
<1>7. ASSUME NEW t \in Call, AtStore(t) PROVE TypeOK'
  <2> DEFINE w == Winner(call[t].dom, call[t].ver)
             x == [call[t] EXCEPT !.pc = "claimed", !.answer = w]
  <2>1. /\ call[t] \in CallState /\ call[t].pc = "claiming"
        /\ call[t].ctx \in Context /\ call[t].dom \in Domain /\ call[t].ver \in Version
    BY <1>7 DEF TypeOK, AtStore
  <2>2. w \in Version
    BY <2>1 DEF TypeOK, Winner
  <2>3. CallsOK'
    <3> HIDE DEF w
    <3>1. x \in CallState /\ x.pc = "claimed" /\ x.answer = w
          /\ x.ctx = call[t].ctx /\ x.dom = call[t].dom /\ x.ver = call[t].ver
      BY <2>1, <2>2 DEF CallState, Busy
    <3>2. call' = [call EXCEPT ![t] = x]
      BY <1>7 DEF AtStore, w
    <3> HIDE DEF x
    <3> QED
      BY <2>1, <2>2, <3>1, <3>2, CallsStep
  <2> QED
    BY <1>7, <2>1, <2>2, <2>3 DEF TypeOK, CallsOK, AtStore
<1>8. ASSUME NEW t \in Call, Return(t) PROVE TypeOK'
  <2>1. PICK p \in {"admitted", "refused"} : call' = [call EXCEPT ![t].pc = p]
    BY <1>8 DEF Return, Verdict
  <2>2. CallsOK'
    BY <1>8, <2>1, PcStep DEF Return, Busy
  <2> QED
    BY <1>8, <2>2 DEF TypeOK, CallsOK, Return, Busy, Answer
<1>9. ASSUME NEW t \in Call, Fail(t) PROVE TypeOK'
  <2>1. CallsOK'
    BY <1>9, PcStep DEF Fail, Busy
  <2> QED
    BY <1>9, <2>1 DEF TypeOK, CallsOK, Fail, Release
<1>10. ASSUME NEW t \in Call, Write(t) \/ End(t) PROVE TypeOK'
  <2>1. CASE Write(t)
    BY <2>1 DEF TypeOK, Write
  <2>2. CASE End(t)
    <3>1. CallsOK'
      BY <2>2, PcStep DEF End
    <3> QED
      BY <2>2, <3>1 DEF TypeOK, CallsOK, End
  <2> QED
    BY <1>10, <2>1, <2>2
<1>11. ASSUME NEW d \in Domain, NEW v \in Version, Migrate(d, v) PROVE TypeOK'
  BY <1>11 DEF TypeOK, Migrate
<1> QED
  BY <1>1, <1>2, <1>3, <1>4, <1>5, <1>6, <1>7, <1>8, <1>9, <1>10, <1>11 DEF Next

-----------------------------------------------------------------------------
(* A step that changes one call and neither the store nor the contexts.    *)
LEMMA InvCall ==
    ASSUME Inv, TypeOK', NEW t \in Call,
           UNCHANGED <<recorded, written, context>>,
           \A u \in Call : u # t => call'[u] = call[u],
           \A u \in Call : u # t => Asking(u)',
           Live(t)', Asking(t)', Judged(t)', Cached', Fresh'
    PROVE  Inv'
<1>1. ASSUME NEW u \in Call, u # t PROVE Live(u)' /\ Judged(u)'
  BY <1>1 DEF Inv, Live, Judged
<1>2. OneGeneration'
  BY DEF Inv, OneGeneration
<1> QED
  BY <1>1, <1>2 DEF Inv

LEMMA InvNext == Inv /\ [Next]_cvars => Inv'
<1> SUFFICES ASSUME Inv, [Next]_cvars PROVE Inv'
  OBVIOUS
<1>t. TypeOK /\ TypeOK'
  BY TypeStep DEF Inv
<1>1. CASE UNCHANGED cvars
  BY <1>1, <1>t DEF cvars, Inv, Live, Asking, Judged, Cached, Fresh, OneGeneration
<1>2. ASSUME NEW c \in Context, Open(c) PROVE Inv'
  <2>1. UNCHANGED <<recorded, written, observed, lock, call>>
    BY <1>2 DEF Open
  <2>2. context[c] = "new" /\ context' = [context EXCEPT ![c] = "live"]
    BY <1>2 DEF Open
  <2> QED
    BY <1>t, <2>1, <2>2 DEF Inv, Live, Asking, Judged, Cached, Fresh, OneGeneration, TypeOK
<1>3. ASSUME NEW c \in Context, Leave(c) PROVE Inv'
  <2>1. UNCHANGED <<recorded, written, observed, lock, call>>
    BY <1>3 DEF Leave
  <2>2. /\ context[c] = "live" /\ context' = [context EXCEPT ![c] = "gone"]
        /\ \A t \in Call : call[t].ctx = c => call[t].pc \notin Busy \cup {"admitted"}
    BY <1>3 DEF Leave, Of
  <2> QED
    BY <1>t, <2>1, <2>2
    DEF Inv, Live, Asking, Judged, Cached, Fresh, OneGeneration, TypeOK
<1>4. ASSUME NEW c \in Context, Crash(c) PROVE Inv'
  <2>1. UNCHANGED <<recorded, written, observed, lock>>
    BY <1>4 DEF Crash
  <2>2. /\ context[c] = "live" /\ context' = [context EXCEPT ![c] = "gone"]
        /\ \A t \in Call :
            \/ /\ call'[t] = call[t]
               /\ call[t].ctx = c => call[t].pc \notin Busy \cup {"admitted"}
            \/ /\ call'[t].pc = "ended" /\ call'[t].ctx = call[t].ctx
               /\ call[t].ctx = c
    BY <1>4, <1>t DEF Crash, Of, TypeOK, CallState
  <2>3. \A t \in Call : Live(t)' /\ Asking(t)' /\ Judged(t)'
    BY <1>t, <2>1, <2>2 DEF Inv, Live, Asking, Judged, TypeOK, Busy
  <2>4. Cached' /\ Fresh' /\ OneGeneration'
    BY <1>t, <2>1, <2>2 DEF Inv, Cached, Fresh, OneGeneration, TypeOK
  <2> QED
    BY <1>t, <2>3, <2>4 DEF Inv
<1>5. ASSUME NEW t \in Call, NEW c \in Context, NEW d \in Domain, NEW v \in Version,
             EnsureObserved(t, c, d, v)
      PROVE  Inv'
  <2>1. /\ UNCHANGED <<recorded, written, context, observed, lock>>
        /\ context[c] = "live" /\ observed[c][d] # None
        /\ \A u \in Call : u # t => call'[u] = call[u]
        /\ call'[t].ctx = c /\ call'[t].dom = d /\ call'[t].ver = v
        /\ call'[t].pc = IF v = observed[c][d] THEN "admitted" ELSE "refused"
    BY <1>5, <1>t DEF EnsureObserved, Verdict, TypeOK, Idle
  <2>2. observed[c][d] = recorded[d]
    BY <2>1 DEF Inv, Cached
  <2>3. Live(t)' /\ Asking(t)' /\ Judged(t)'
    BY <2>1, <2>2 DEF Live, Asking, Judged
  <2>4. \A u \in Call : u # t => Asking(u)'
    BY <2>1 DEF Inv, Asking
  <2>5. Cached' /\ Fresh'
    BY <2>1 DEF Inv, Cached, Fresh
  <2> QED
    BY <1>t, <2>1, <2>3, <2>4, <2>5, InvCall
<1>6. ASSUME NEW t \in Call, NEW c \in Context, NEW d \in Domain, NEW v \in Version,
             Ensure(t, c, d, v)
      PROVE  Inv'
  <2>1. /\ UNCHANGED <<recorded, written, context, observed>>
        /\ context[c] = "live" /\ observed[c][d] = None
        /\ \A u \in Call : u # t => call'[u] = call[u]
        /\ call'[t].ctx = c /\ call'[t].dom = d
    BY <1>6, <1>t DEF Ensure, TypeOK, Idle
  <2>2. \/ /\ call'[t].pc = "claiming" /\ lock[c][d] = None
           /\ lock' = [lock EXCEPT ![c][d] = t]
        \/ call'[t].pc = "waiting" /\ lock' = lock
    BY <1>6, <1>t DEF Ensure, TypeOK, Idle
  <2>3. Live(t)' /\ Asking(t)' /\ Judged(t)'
    BY <1>t, <2>1, <2>2 DEF Live, Asking, Judged, TypeOK, Busy
  <2>4. ASSUME NEW u \in Call, u # t PROVE Asking(u)'
    <3>1. Asking(u) /\ call'[u] = call[u]
      BY <2>1, <2>4 DEF Inv
    <3>2. lock[c][d] = None => ~(call[u].pc \in {"claiming", "claimed"}
                                 /\ call[u].ctx = c /\ call[u].dom = d)
      BY <3>1, ClaimsAssumption DEF Asking
    <3>3. call[u].pc \in {"claiming", "claimed"} =>
            lock'[call[u].ctx][call[u].dom] = lock[call[u].ctx][call[u].dom]
      BY <1>t, <2>2, <3>2 DEF TypeOK
    <3> QED
      BY <2>1, <3>1, <3>3 DEF Asking
  <2>5. Cached' /\ Fresh'
    BY <2>1 DEF Inv, Cached, Fresh
  <2> QED
    BY <1>t, <2>1, <2>3, <2>4, <2>5, InvCall
<1>7. ASSUME NEW t \in Call, Acquire(t) PROVE Inv'
  <2> DEFINE c == call[t].ctx
             d == call[t].dom
  <2>1. /\ UNCHANGED <<recorded, written, context, observed>>
        /\ call[t].pc = "waiting" /\ lock[c][d] = None
        /\ c \in Context /\ d \in Domain /\ call[t].ver \in Version
        /\ context[c] = "live"
    BY <1>7, <1>t DEF Acquire, TypeOK, Inv, Live, Busy
  <2>2. /\ \A u \in Call : u # t => call'[u] = call[u]
        /\ call'[t].ctx = c /\ call'[t].dom = d /\ call'[t].ver = call[t].ver
    BY <1>7, <1>t DEF Acquire, TypeOK, CallState
  <2>3. \/ /\ call'[t].pc = "claiming" /\ observed[c][d] = None
           /\ lock' = [lock EXCEPT ![c][d] = t]
        \/ /\ call'[t].pc = Verdict(call[t].ver, observed[c][d])
           /\ observed[c][d] # None /\ lock' = lock
    BY <1>7, <1>t DEF Acquire, TypeOK, CallState
  <2>4. observed[c][d] \in {None, recorded[d]}
    BY <2>1 DEF Inv, Cached
  <2> HIDE DEF c, d
  <2>5. Live(t)' /\ Asking(t)' /\ Judged(t)'
    BY <1>t, <2>1, <2>2, <2>3, <2>4 DEF Live, Asking, Judged, TypeOK, Busy, Verdict
  <2>6. ASSUME NEW u \in Call, u # t PROVE Asking(u)'
    <3>1. Asking(u) /\ call'[u] = call[u]
      BY <2>2, <2>6 DEF Inv
    <3>2. ~(call[u].pc \in {"claiming", "claimed"} /\ call[u].ctx = c /\ call[u].dom = d)
      BY <2>1, <3>1, ClaimsAssumption DEF Asking
    <3>3. call[u].pc \in {"claiming", "claimed"} =>
            lock'[call[u].ctx][call[u].dom] = lock[call[u].ctx][call[u].dom]
      BY <1>t, <2>1, <2>3, <3>2 DEF TypeOK
    <3> QED
      BY <2>1, <3>1, <3>3 DEF Asking
  <2>7. Cached'
    BY <1>t, <2>1, <2>2 DEF Inv, Cached, TypeOK
  <2>8. Fresh'
    BY <1>t, <2>1, <2>2 DEF Inv, Fresh, TypeOK
  <2> QED
    BY <1>t, <2>1, <2>2, <2>5, <2>6, <2>7, <2>8, InvCall
<1>8. ASSUME NEW t \in Call, AtStore(t) PROVE Inv'
  <2> DEFINE c == call[t].ctx
             d == call[t].dom
             w == Winner(d, call[t].ver)
  <2>1. /\ UNCHANGED <<written, context, observed, lock>>
        /\ call[t].pc = "claiming"
        /\ c \in Context /\ d \in Domain /\ call[t].ver \in Version
        /\ context[c] = "live"
    BY <1>8, <1>t DEF AtStore, TypeOK, Inv, Live, Busy
  <2>2. /\ recorded'[d] = w
        /\ \A e \in Domain : e # d => recorded'[e] = recorded[e]
        /\ w \in Version
        /\ recorded[d] # None => w = recorded[d]
    BY <1>8, <1>t, <2>1 DEF AtStore, TypeOK, Winner
  <2>3. /\ \A u \in Call : u # t => call'[u] = call[u]
        /\ call'[t].ctx = c /\ call'[t].dom = d /\ call'[t].pc = "claimed"
        /\ call'[t].answer = w
    BY <1>8, <1>t DEF AtStore, TypeOK, CallState
  <2> HIDE DEF c, d, w
  <2>4. Live(t)' /\ Asking(t)' /\ Judged(t)'
    BY <2>1, <2>2, <2>3 DEF Inv, Live, Asking, Judged, c, d
  <2>5. \A e \in Domain : recorded[e] # None => recorded'[e] = recorded[e]
    BY <2>2
  <2>6. ASSUME NEW u \in Call, u # t PROVE Live(u)' /\ Asking(u)' /\ Judged(u)'
    <3>1. Live(u) /\ Asking(u) /\ Judged(u) /\ call'[u] = call[u]
      BY <2>3, <2>6 DEF Inv
    <3>2. /\ call[u].pc # "idle" => call[u].dom \in Domain /\ call[u].ver \in Version
          /\ call[u].pc = "claimed" => call[u].answer \in Version
      BY <1>t DEF TypeOK
    <3> QED
      BY <2>1, <2>5, <3>1, <3>2, ClaimsAssumption DEF Live, Asking, Judged
  <2>7. Cached' /\ Fresh'
    BY <1>t, <2>1, <2>3, <2>5 DEF Inv, Cached, Fresh, TypeOK, c
  <2>8. OneGeneration'
    BY <1>t, <2>1, <2>5, ClaimsAssumption DEF Inv, OneGeneration, TypeOK
  <2> QED
    BY <1>t, <2>4, <2>6, <2>7, <2>8 DEF Inv
<1>9. ASSUME NEW t \in Call, Return(t) PROVE Inv'
  <2> DEFINE c == call[t].ctx
             d == call[t].dom
  <2>1. /\ UNCHANGED <<recorded, written, context>>
        /\ call[t].pc = "claimed"
        /\ c \in Context /\ d \in Domain /\ call[t].ver \in Version
        /\ context[c] = "live" /\ lock[c][d] = t
        /\ call[t].answer = recorded[d] /\ call[t].answer \in Version
    BY <1>9, <1>t DEF Return, TypeOK, Inv, Live, Asking, Busy
  <2>2. /\ \A u \in Call : u # t => call'[u] = call[u]
        /\ call'[t].ctx = c /\ call'[t].dom = d /\ call'[t].ver = call[t].ver
        /\ call'[t].pc = IF call[t].ver = recorded[d] THEN "admitted" ELSE "refused"
    BY <1>9, <1>t, <2>1 DEF Return, TypeOK, CallState, Verdict, Answer
  <2>3. /\ observed' = [observed EXCEPT ![c][d] = recorded[d]]
        /\ lock' = [lock EXCEPT ![c][d] = None]
    BY <1>9, <2>1 DEF Return, Answer
  <2> HIDE DEF c, d
  <2>4. Live(t)' /\ Asking(t)' /\ Judged(t)'
    BY <2>1, <2>2, ClaimsAssumption DEF Live, Asking, Judged
  <2>5. ASSUME NEW u \in Call, u # t PROVE Asking(u)'
    <3>1. Asking(u) /\ call'[u] = call[u]
      BY <2>2, <2>5 DEF Inv
    <3>2. ~(call[u].pc \in {"claiming", "claimed"} /\ call[u].ctx = c /\ call[u].dom = d)
      BY <2>1, <2>5, <3>1 DEF Asking
    <3>3. call[u].pc \in {"claiming", "claimed"} =>
            /\ lock'[call[u].ctx][call[u].dom] = lock[call[u].ctx][call[u].dom]
            /\ observed'[call[u].ctx][call[u].dom] = observed[call[u].ctx][call[u].dom]
      BY <1>t, <2>1, <2>3, <3>2 DEF TypeOK
    <3> QED
      BY <2>1, <3>1, <3>3 DEF Asking
  <2>6. Cached'
    BY <1>t, <2>1, <2>3 DEF Inv, Cached, TypeOK
  <2>7. Fresh'
    BY <1>t, <2>1, <2>2, <2>3 DEF Inv, Fresh, TypeOK
  <2> QED
    BY <1>t, <2>1, <2>2, <2>4, <2>5, <2>6, <2>7, InvCall
<1>10. ASSUME NEW t \in Call, Fail(t) PROVE Inv'
  <2> DEFINE c == call[t].ctx
             d == call[t].dom
  <2>1. /\ UNCHANGED <<recorded, written, context, observed>>
        /\ call[t].pc \in Busy /\ context[c] = "live"
        /\ c \in Context /\ d \in Domain
    BY <1>10, <1>t DEF Fail, Inv, Live, TypeOK, Busy
  <2>2. /\ \A u \in Call : u # t => call'[u] = call[u]
        /\ call'[t].ctx = c /\ call'[t].pc = "failed"
    BY <1>10, <1>t DEF Fail, TypeOK, CallState
  <2>3. \/ lock' = lock
        \/ lock[c][d] = t /\ lock' = [lock EXCEPT ![c][d] = None]
    BY <1>10 DEF Fail, Release
  <2> HIDE DEF c, d
  <2>4. Live(t)' /\ Asking(t)' /\ Judged(t)'
    BY <2>2 DEF Live, Asking, Judged, Busy
  <2>5. ASSUME NEW u \in Call, u # t PROVE Asking(u)'
    <3>1. Asking(u) /\ call'[u] = call[u]
      BY <2>2, <2>5 DEF Inv
    <3>2. call[u].pc \in {"claiming", "claimed"} =>
            lock'[call[u].ctx][call[u].dom] = lock[call[u].ctx][call[u].dom]
      <4> SUFFICES ASSUME call[u].pc \in {"claiming", "claimed"}
                   PROVE  lock'[call[u].ctx][call[u].dom] = lock[call[u].ctx][call[u].dom]
        OBVIOUS
      <4>1. call[u].ctx \in Context /\ call[u].dom \in Domain
        BY <1>t DEF TypeOK
      <4>2. lock[call[u].ctx][call[u].dom] = u
        BY <3>1 DEF Asking
      <4>3. lock \in [Context -> [Domain -> Call \cup {None}]]
        BY <1>t DEF TypeOK
      <4> QED
        BY <2>1, <2>3, <2>5, <4>1, <4>2, <4>3
    <3> QED
      BY <2>1, <3>1, <3>2 DEF Asking
  <2>6. Cached' /\ Fresh'
    BY <2>1, <2>2 DEF Inv, Cached, Fresh, Busy, c
  <2> QED
    BY <1>t, <2>1, <2>2, <2>4, <2>5, <2>6, InvCall
<1>11. ASSUME NEW t \in Call, Write(t) PROVE Inv'
  <2>1. /\ UNCHANGED <<recorded, context, observed, lock, call>>
        /\ call[t].dom \in Domain /\ call[t].ver = recorded[call[t].dom]
        /\ written' = [written EXCEPT ![call[t].dom] = @ \cup {call[t].ver}]
    BY <1>11, <1>t DEF Write, TypeOK, Inv, Judged
  <2>2. OneGeneration'
    BY <1>t, <2>1 DEF Inv, OneGeneration, TypeOK
  <2> QED
    BY <1>t, <2>1, <2>2 DEF Inv, Live, Asking, Judged, Cached, Fresh
<1>12. ASSUME NEW t \in Call, End(t) PROVE Inv'
  <2>1. /\ UNCHANGED <<recorded, written, context, observed, lock>>
        /\ call[t].pc = "admitted"
        /\ \A u \in Call : u # t => call'[u] = call[u]
        /\ call'[t].ctx = call[t].ctx /\ call'[t].pc = "ended"
    BY <1>12, <1>t DEF End, TypeOK, CallState
  <2>2. \A u \in Call : Live(u)' /\ Asking(u)' /\ Judged(u)'
    BY <2>1 DEF Inv, Live, Asking, Judged, Busy
  <2> QED
    BY <1>t, <2>1, <2>2 DEF Inv, Cached, Fresh, OneGeneration
<1>13. ASSUME NEW d \in Domain, NEW v \in Version, Migrate(d, v) PROVE Inv'
  <2>1. /\ UNCHANGED <<context, observed, lock, call>>
        /\ \A c \in Context : context[c] # "live"
        /\ recorded' = [recorded EXCEPT ![d] = v]
        /\ written' = [written EXCEPT ![d] = IF @ = {} THEN {} ELSE {v}]
    BY <1>13 DEF Migrate
  <2>2. \A t \in Call : Live(t)' /\ Asking(t)' /\ Judged(t)'
    BY <1>t, <2>1 DEF Inv, Live, Asking, Judged, TypeOK, Busy
  <2>3. OneGeneration'
    BY <1>t, <2>1 DEF Inv, OneGeneration, TypeOK
  <2> QED
    BY <1>t, <2>1, <2>2, <2>3 DEF Inv, Cached, Fresh
<1> QED
  BY <1>1, <1>2, <1>3, <1>4, <1>5, <1>6, <1>7, <1>8, <1>9, <1>10, <1>11, <1>12, <1>13
  DEF Next

-----------------------------------------------------------------------------
LEMMA InvAlways == Spec => []Inv
  BY InvInit, InvNext, PTL DEF Spec

(* The types of the calls, the contexts and the versions of the session.   *)
THEOREM ClaimTypes == Spec => []TypeOK
<1>1. Inv => TypeOK
  BY DEF Inv
<1> QED
  BY <1>1, InvAlways, PTL

(* The records of a domain are all of the version the session states for   *)
(* it, whatever contexts, claims, failures and offline migrations happen.  *)
THEOREM RecordsAreOfOneGeneration == Spec => []OneGeneration
<1>1. Inv => OneGeneration
  BY DEF Inv
<1> QED
  BY <1>1, InvAlways, PTL

(* A verdict stays right for as long as the context that gave it is there, *)
(* although the context never asks the store again.                        *)
THEOREM VerdictsAreLasting == Spec => []VerdictsStand
<1>1. Inv => VerdictsStand
  BY DEF Inv, Judged, VerdictsStand
<1> QED
  BY <1>1, InvAlways, PTL

(* The lock of a domain lets one call of a context ask at a time.          *)
THEOREM OneClaimAtATime == Spec => []ClaimsTakeTurns
<1>1. Inv => ClaimsTakeTurns
  BY DEF Inv, Asking, ClaimsTakeTurns
<1> QED
  BY <1>1, InvAlways, PTL

-----------------------------------------------------------------------------
(* The refinement: each step is one of the register, or none.              *)
LEMMA RegisterInit == Init => Register!RInit
  BY DEF Init, Idle, Outcome, Register!RInit, Register!Undecided

(* A verdict is a step of the register.                                    *)
LEMMA DecideStep ==
    ASSUME NEW t \in Call, NEW d \in Domain, NEW v \in Version,
           UNCHANGED <<recorded, written>>,
           \A u \in Call : u # t => call'[u] = call[u],
           call[t].pc \in {"idle"} \cup Busy, recorded[d] # None,
           call'[t].pc = IF v = recorded[d] THEN "admitted" ELSE "refused",
           call'[t].dom = d, call'[t].ver = v
    PROVE  Register!Decide(t, d, v)
<1> DEFINE F == [u \in Call |-> Outcome(u)]
           x == [state |-> IF v = recorded[d] THEN "admitted" ELSE "refused",
                 dom |-> d, ver |-> v]
<1>1. Outcome(t) = Register!Undecided
  BY DEF Outcome, Busy, Register!Undecided
<1>2. Outcome(t)' = x
  BY DEF Outcome
<1>3. \A u \in Call : u # t => Outcome(u)' = Outcome(u)
  BY DEF Outcome
<1>4. F' = [F EXCEPT ![t] = x]
  <2> HIDE DEF x
  <2>1. \A u \in Call : Outcome(u)' = IF u = t THEN x ELSE Outcome(u)
    BY <1>2, <1>3
  <2>2. F' = [u \in Call |-> Outcome(u)']
    OBVIOUS
  <2> QED
    BY <2>1, <2>2
<1> QED
  BY <1>1, <1>4 DEF Register!Decide

LEMMA RegisterStep ==
    ASSUME Inv, [Next]_cvars PROVE [Register!RNext]_(Register!rvars)
<1> DEFINE F == [u \in Call |-> Outcome(u)]
<1>t. TypeOK
  BY DEF Inv
<1>q. ASSUME UNCHANGED <<recorded, written, call>>
      PROVE  UNCHANGED Register!rvars
  BY <1>q DEF Register!rvars, Outcome
<1>s. ASSUME NEW t \in Call, UNCHANGED <<recorded, written>>,
             \A u \in Call : u # t => call'[u] = call[u], Outcome(t)' = Outcome(t)
      PROVE  UNCHANGED Register!rvars
  BY <1>s DEF Register!rvars, Outcome
<1>1. CASE UNCHANGED cvars
  BY <1>1, <1>q DEF cvars
<1>2. ASSUME NEW c \in Context, Open(c) \/ Leave(c) PROVE UNCHANGED Register!rvars
  BY <1>2, <1>q DEF Open, Leave
<1>3. ASSUME NEW c \in Context, Crash(c) PROVE \E S \in SUBSET Call : Register!End(S)
  <2> DEFINE S == {t \in Call : t \in Of(c) /\ call[t].pc \in Busy \cup {"admitted"}}
  <2>1. UNCHANGED <<recorded, written>>
    BY <1>3 DEF Crash
  <2>2. \A t \in Call : Outcome(t)' = IF t \in S THEN Register!Over ELSE Outcome(t)
    BY <1>3, <1>t DEF Crash, Outcome, Register!Over, TypeOK, CallState
  <2> QED
    BY <2>1, <2>2 DEF Register!End
<1>4. ASSUME NEW t \in Call, Fail(t) \/ End(t) PROVE \E S \in SUBSET Call : Register!End(S)
  <2>1. UNCHANGED <<recorded, written>> /\ \A u \in Call : u # t => call'[u] = call[u]
    BY <1>4, <1>t DEF Fail, End, TypeOK
  <2>2. call'[t].pc \in {"failed", "ended"}
    BY <1>4, <1>t DEF Fail, End, TypeOK, CallState
  <2>3. \A u \in Call : Outcome(u)' = IF u \in {t} THEN Register!Over ELSE Outcome(u)
    BY <2>1, <2>2 DEF Outcome, Register!Over
  <2> QED
    BY <2>1, <2>3 DEF Register!End
<1>5. ASSUME NEW t \in Call, NEW c \in Context, NEW d \in Domain, NEW v \in Version,
             EnsureObserved(t, c, d, v)
      PROVE  Register!Decide(t, d, v)
  <2>1. /\ UNCHANGED <<recorded, written>>
        /\ \A u \in Call : u # t => call'[u] = call[u]
        /\ call[t].pc = "idle"
        /\ call'[t].pc = IF v = observed[c][d] THEN "admitted" ELSE "refused"
        /\ call'[t].dom = d /\ call'[t].ver = v
    BY <1>5, <1>t DEF EnsureObserved, TypeOK, Idle, Verdict
  <2>2. recorded[d] # None /\ observed[c][d] = recorded[d]
    BY <1>5 DEF EnsureObserved, Inv, Cached
  <2> QED
    BY <2>1, <2>2, DecideStep
<1>6. ASSUME NEW t \in Call, NEW c \in Context, NEW d \in Domain, NEW v \in Version,
             Ensure(t, c, d, v)
      PROVE  UNCHANGED Register!rvars
  <2>1. /\ UNCHANGED <<recorded, written>>
        /\ \A u \in Call : u # t => call'[u] = call[u]
        /\ call[t].pc = "idle" /\ call'[t].pc \in Busy
    BY <1>6, <1>t DEF Ensure, TypeOK, Idle, Busy
  <2>2. Outcome(t)' = Outcome(t)
    BY <2>1 DEF Outcome, Busy
  <2> QED
    BY <1>s, <2>1, <2>2
<1>7. ASSUME NEW t \in Call, Acquire(t)
      PROVE  \/ UNCHANGED Register!rvars
             \/ Register!Decide(t, call[t].dom, call[t].ver)
  <2>1. /\ UNCHANGED <<recorded, written>>
        /\ \A u \in Call : u # t => call'[u] = call[u]
        /\ call[t].pc = "waiting" /\ context[call[t].ctx] = "live"
        /\ call[t].ctx \in Context /\ call[t].dom \in Domain /\ call[t].ver \in Version
    BY <1>7, <1>t DEF Acquire, TypeOK, Inv, Live, Busy
  <2>2. CASE observed[call[t].ctx][call[t].dom] = None
    <3>1. call'[t].pc = "claiming"
      BY <1>7, <1>t, <2>2 DEF Acquire, TypeOK, CallState
    <3> QED
      BY <1>s, <2>1, <3>1 DEF Outcome
  <2>3. CASE observed[call[t].ctx][call[t].dom] # None
    <3>1. observed[call[t].ctx][call[t].dom] = recorded[call[t].dom]
      BY <2>1, <2>3 DEF Inv, Cached
    <3>2. call'[t].pc = IF call[t].ver = recorded[call[t].dom] THEN "admitted" ELSE "refused"
      BY <1>7, <1>t, <2>3, <3>1 DEF Acquire, TypeOK, CallState, Verdict
    <3>3. call'[t].dom = call[t].dom /\ call'[t].ver = call[t].ver
      BY <1>7, <1>t DEF Acquire, TypeOK, CallState
    <3> QED
      BY <2>1, <2>3, <3>1, <3>2, <3>3, ClaimsAssumption, DecideStep DEF Busy
  <2> QED
    BY <2>2, <2>3
<1>8. ASSUME NEW t \in Call, AtStore(t)
      PROVE  \/ UNCHANGED Register!rvars
             \/ Register!Claim(call[t].dom, call[t].ver)
  <2>1. /\ UNCHANGED written
        /\ call[t].dom \in Domain
        /\ recorded' = [recorded EXCEPT ![call[t].dom] = Winner(call[t].dom, call[t].ver)]
        /\ \A u \in Call : u # t => call'[u] = call[u]
        /\ call[t].pc = "claiming" /\ call'[t].pc = "claimed"
    BY <1>8, <1>t DEF AtStore, TypeOK, CallState
  <2>2. Outcome(t)' = Outcome(t) /\ \A u \in Call : Outcome(u)' = Outcome(u)
    BY <2>1 DEF Outcome
  <2>3. CASE recorded[call[t].dom] = None
    BY <2>1, <2>2, <2>3 DEF Winner, Register!Claim
  <2>4. CASE recorded[call[t].dom] # None
    BY <1>t, <2>1, <2>2, <2>4 DEF Winner, TypeOK, Register!rvars
  <2> QED
    BY <2>3, <2>4
<1>9. ASSUME NEW t \in Call, Return(t)
      PROVE  Register!Decide(t, call[t].dom, call[t].ver)
  <2>1. /\ UNCHANGED <<recorded, written>>
        /\ \A u \in Call : u # t => call'[u] = call[u]
        /\ call[t].pc = "claimed"
        /\ call[t].answer = recorded[call[t].dom] /\ call[t].answer \in Version
    BY <1>9, <1>t DEF Return, TypeOK, Inv, Asking
  <2>2. /\ call'[t].pc = IF call[t].ver = recorded[call[t].dom] THEN "admitted" ELSE "refused"
        /\ call'[t].dom = call[t].dom /\ call'[t].ver = call[t].ver
    BY <1>9, <1>t, <2>1 DEF Return, TypeOK, CallState, Verdict, Answer
  <2>3. call[t].dom \in Domain /\ call[t].ver \in Version
    BY <1>t, <2>1 DEF TypeOK
  <2> QED
    BY <2>1, <2>2, <2>3, ClaimsAssumption, DecideStep DEF Busy
<1>10. ASSUME NEW t \in Call, Write(t) PROVE Register!Keep(t)
  <2>1. UNCHANGED <<recorded, call>> /\ call[t].pc = "admitted"
    BY <1>10 DEF Write
  <2>2. F[t].state = "admitted" /\ F[t].dom = call[t].dom /\ F[t].ver = call[t].ver
    BY <2>1 DEF Outcome
  <2>3. F' = F
    BY <2>1 DEF Outcome
  <2> QED
    BY <1>10, <2>1, <2>2, <2>3 DEF Write, Register!Keep
<1>11. ASSUME NEW d \in Domain, NEW v \in Version, Migrate(d, v)
       PROVE  Register!Replace(d, v)
  <2>1. \A t \in Call : call[t].pc # "admitted"
    BY <1>11, <1>t DEF Migrate, Inv, Live, TypeOK
  <2>2. \A t \in Call : Outcome(t).state # "admitted"
    BY <2>1 DEF Outcome
  <2>3. F' = F
    BY <1>11 DEF Migrate, Outcome
  <2> QED
    BY <1>11, <2>2, <2>3 DEF Migrate, Register!Replace
<1>12. ASSUME NEW t \in Call, call[t].pc # "idle"
       PROVE  call[t].dom \in Domain /\ call[t].ver \in Version
  BY <1>t, <1>12 DEF TypeOK
<1>13. ASSUME NEW t \in Call, Acquire(t) \/ AtStore(t) \/ Return(t)
       PROVE  [Register!RNext]_(Register!rvars)
  <2>1. call[t].dom \in Domain /\ call[t].ver \in Version
    BY <1>12, <1>13 DEF Acquire, AtStore, Return
  <2> QED
    BY <1>7, <1>8, <1>9, <1>13, <2>1 DEF Register!RNext
<1> QED
  BY <1>1, <1>2, <1>3, <1>4, <1>5, <1>6, <1>10, <1>11, <1>13 DEF Next, Register!RNext

(* Any number of contexts, tasks, failed and cancelled claims amount to one *)
(* register per domain, written by the first claim and replaced only by a   *)
(* migration while no call runs (docs/migration.md).                        *)
THEOREM ClaimsImplementRegister == Spec => ActsAsRegister
<1>1. Init => Register!RInit
  BY RegisterInit
<1>2. Inv /\ [Next]_cvars => [Register!RNext]_(Register!rvars)
  BY RegisterStep
<1> QED
  BY <1>1, <1>2, InvAlways, PTL DEF Spec, ActsAsRegister, Register!RSpec

=============================================================================
