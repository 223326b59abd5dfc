----------------------------- MODULE Migration -----------------------------
(***************************************************************************)
(* The migration of one domain in one stored session                       *)
(* (migration/_migrator.py): transitions between versions are declared,    *)
(* then a run reads the session, rebuilds its records one transition after *)
(* another and replaces the session, all while it has the store.           *)
(***************************************************************************)
EXTENDS Naturals, Sequences, FiniteSets

CONSTANTS
    Version, Current,   \* versions of the domain, and the one to arrive at
    Name, Foreign,      \* boundaries of the domain, and of other domains
    Args, Shape, Names, \* arguments; sets of argument names, and that of each
    Ordinal, MaxDepth,
    Declared,           \* what a transition from a version may declare
    Sessions,           \* the records a session may hold
    None

Rule == [kind : {"none", "drop", "move", "convert"},
         source : Shape, to : Name, target : Shape]

Frame == [name : Name \cup Foreign, args : Args, seq : Ordinal]
Id == UNION {[1..n -> Frame] : n \in 1..MaxDepth}
Root == <<>>
Parent(i) == SubSeq(i, 1, Len(i) - 1)
Leaf(i) == i[Len(i)]
Scope(i) == <<Parent(i), Leaf(i).name, Leaf(i).args>>

ASSUME MigrationAssumption ==
    /\ IsFiniteSet(Version) /\ Current \in Version /\ None \notin Version
    /\ Name \cap Foreign = {} /\ Ordinal \subseteq Nat /\ MaxDepth \in Nat \ {0}
    /\ Names \in [Args -> Shape]
    /\ Declared \in [Version -> SUBSET [Name -> Rule]]
    /\ \A S \in Sessions : S \subseteq Id /\ \A i \in S : Parent(i) \in S \cup {Root}

VARIABLES
    transitions, \* the declared transition from each version
    session,     \* the stored session
    job,         \* the run
    image        \* the new identity of each record moved: the conversions
                 \* made and the scopes met are read off it

mvars == <<transitions, session, job, image>>

JobState ==
    [pc : {"idle", "choose", "walk", "done"},
     answer : {"none", "stored", "cycle", "no path", "shape", "ambiguous", "collision"},
     version : Version, visited : SUBSET Version,
     records : SUBSET Id,          \* of the generation to be rebuilt
     stack : Seq(Id \cup {Root}),  \* whose children are still to be visited
     at : Id \cup {Root}, todo : SUBSET Id]

Rest(answer) ==
    [pc |-> "idle", answer |-> answer, version |-> Current, visited |-> {}, records |-> {},
     stack |-> <<>>, at |-> Root, todo |-> {}]

Init ==
    /\ transitions = [v \in Version |-> None]
    /\ session \in [version : Version, records : Sessions]
    /\ job = Rest("none") /\ image = <<>>

-----------------------------------------------------------------------------
(* DomainMigration.transition, with the rules of its boundaries.            *)

WellFormed(rules) ==
    \A n \in Name : rules[n].kind = "move" => rules[n].source = rules[n].target

AcyclicAnyway(v, w) == TRUE   \* mutant: any transition is taken
Acyclic(v, w) ==
    LET after[n \in 0..Cardinality(Version)] ==
          IF n = 0 THEN w
          ELSE LET u == after[n - 1] IN IF transitions[u] = None THEN u ELSE transitions[u].to
    IN \A n \in 0..Cardinality(Version) : after[n] # v

Declare(v, w, rules) ==
    /\ job.pc = "idle"
    /\ v # w /\ transitions[v] = None /\ Acyclic(v, w)
    /\ WellFormed(rules)
    /\ transitions' = [transitions EXCEPT ![v] = [to |-> w, rules |-> rules]]
    /\ UNCHANGED <<session, job, image>>

-----------------------------------------------------------------------------
(* A run *)

Refuse(reason) == job' = Rest(reason) /\ image' = <<>>

Begin ==
    /\ job.pc = "idle"
    /\ job' = [Rest("none") EXCEPT !.pc = "choose", !.version = session.version,
                                   !.records = session.records]
    /\ UNCHANGED <<transitions, session, image>>

(* DomainMigration.migrate: the next transition, if one is needed.          *)
Choose ==
    LET v == job.version IN
    /\ job.pc = "choose"
    /\ \/ v = Current /\ job' = [job EXCEPT !.pc = "done"] /\ UNCHANGED image
       \/ /\ v # Current /\ (v \in job.visited \/ transitions[v] = None)
          /\ Refuse(IF v \in job.visited THEN "cycle" ELSE "no path")
       \/ /\ v # Current /\ v \notin job.visited /\ transitions[v] # None
          /\ job' = [job EXCEPT !.pc = "walk", !.visited = @ \cup {v}, !.stack = <<Root>>,
                                !.at = Root, !.todo = {}]
          /\ UNCHANGED image
    /\ UNCHANGED <<transitions, session>>

-----------------------------------------------------------------------------
(* _rebuild *)

Children(i) == {j \in job.records : Parent(j) = i}

RuleOf(i) == transitions[job.version].rules[Leaf(i).name]
Kind(i) == IF Leaf(i).name \in Name THEN RuleOf(i).kind ELSE "none"
Recognized(i) == Names[Leaf(i).args] = RuleOf(i).source

Moved == DOMAIN image

(* One conversion answers for a whole scope.                                *)
ArgumentsAnew(i) ==   \* mutant: each record is converted
    IF Kind(i) = "convert" /\ Recognized(i)
    THEN {a \in Args : Names[a] = RuleOf(i).target} ELSE {Leaf(i).args}
Arguments(i) ==
    LET same == {j \in Moved : Scope(j) = Scope(i)} IN
    IF Kind(i) # "convert" THEN {Leaf(i).args}
    ELSE IF same # {} THEN {Leaf(image[j]).args : j \in same}
    ELSE {a \in Args : Names[a] = RuleOf(i).target}

NewName(i) == IF Kind(i) \in {"move", "convert"} THEN RuleOf(i).to ELSE Leaf(i).name

OldParent(i) == Parent(i)   \* mutant: the chain is not rebuilt
NewParent(i) == IF job.at = Root THEN Root ELSE image[job.at]

NewId(i, a) == Append(NewParent(i), [name |-> NewName(i), args |-> a, seq |-> Leaf(i).seq])

AmbiguousNever(i, new) == FALSE   \* mutant: scopes may be gathered
Ambiguous(i, new) ==
    \E j \in Moved : Scope(image[j]) = Scope(new) /\ Scope(j) # Scope(i)

Pop ==
    /\ job.pc = "walk" /\ job.todo = {} /\ job.stack # <<>>
    /\ LET n == Len(job.stack) IN
       job' = [job EXCEPT !.at = job.stack[n], !.todo = Children(job.stack[n]),
                          !.stack = SubSeq(@, 1, n - 1)]
    /\ UNCHANGED <<transitions, session, image>>

(* The children of one parent, by ordinal.                                  *)
Turn(i) ==
    /\ job.pc = "walk" /\ i \in job.todo
    /\ \A j \in job.todo : Leaf(i).seq <= Leaf(j).seq

Drop(i) ==
    /\ Turn(i) /\ Kind(i) = "drop"
    /\ IF Recognized(i) THEN job' = [job EXCEPT !.todo = @ \ {i}] /\ UNCHANGED image
       ELSE Refuse("shape")
    /\ UNCHANGED <<transitions, session>>

PushedNot(i) == job.stack   \* mutant: what is beneath is not visited
Pushed(i) == Append(job.stack, i)

Move(i, a) ==
    LET new == NewId(i, a) IN
    /\ Turn(i) /\ Kind(i) # "drop" /\ a \in Arguments(i)
    /\ Kind(i) \in {"move", "convert"} => Recognized(i)
    /\ IF Ambiguous(i, new) THEN Refuse("ambiguous")
       ELSE /\ job' = [job EXCEPT !.todo = @ \ {i}, !.stack = Pushed(i)]
            /\ image' = [j \in Moved \cup {i} |-> IF j = i THEN new ELSE image[j]]
    /\ UNCHANGED <<transitions, session>>

(* The record has other arguments than declared, or its conversion raises   *)
(* or returns others.                                                       *)
MoveFails(i) ==
    /\ Turn(i)
    /\ \/ Kind(i) \in {"move", "convert"} /\ ~Recognized(i)
       \/ Kind(i) = "convert" /\ \A j \in Moved : Scope(j) # Scope(i)
    /\ Refuse("shape")
    /\ UNCHANGED <<transitions, session>>

(* The new generation is a session, if no two records share an identity.    *)
Conclude ==
    /\ job.pc = "walk" /\ job.todo = {} /\ job.stack = <<>>
    /\ IF \E i, j \in Moved : i # j /\ image[i] = image[j] THEN Refuse("collision")
       ELSE /\ job' = [Rest("none") EXCEPT
                        !.pc = "choose", !.version = transitions[job.version].to,
                        !.visited = job.visited, !.records = {image[i] : i \in Moved}]
            /\ image' = <<>>
    /\ UNCHANGED <<transitions, session>>

-----------------------------------------------------------------------------
(* SessionMigration.run: the session is replaced at once.                   *)
StoreEarly ==   \* mutant: each generation is stored
    /\ job.pc \in {"choose", "done"}
    /\ session' = [version |-> job.version, records |-> job.records]
    /\ job' = IF job.pc = "done" THEN Rest("stored") ELSE job
    /\ UNCHANGED <<transitions, image>>
Store ==
    /\ job.pc = "done"
    /\ session' = [version |-> job.version, records |-> job.records]
    /\ job' = Rest("stored")
    /\ UNCHANGED <<transitions, image>>

Crash ==
    /\ job.pc # "idle"
    /\ Refuse("none")
    /\ UNCHANGED <<transitions, session>>

Next ==
    \/ \E v, w \in Version : \E rules \in Declared[v] : Declare(v, w, rules)
    \/ Begin \/ Choose \/ Pop \/ Conclude \/ Store \/ Crash
    \/ \E i \in job.todo :
        Drop(i) \/ MoveFails(i) \/ \E a \in Args : Move(i, a)

Spec == Init /\ [][Next]_mvars

-----------------------------------------------------------------------------
(* Types of the state.                                                      *)
TypeOK ==
    /\ transitions \in [Version -> {None} \cup [to : Version, rules : [Name -> Rule]]]
    /\ session.version \in Version /\ session.records \subseteq Id
    /\ job \in JobState /\ job.todo \subseteq job.records
    /\ Moved \subseteq job.records /\ image \in [Moved -> Id]
    /\ \A n \in 1..Len(job.stack) : job.stack[n] \in Moved \cup {Root}

(* No two records get one identity: what a StoredSession refuses does not   *)
(* come about, because scopes are not gathered (_require_one_source_scope). *)
IdsStayUnique == \A i, j \in Moved : image[i] = image[j] => i = j

(* Equal calls stay equal calls with their ordinals, and calls that were    *)
(* told apart stay apart, however a conversion answers (_rebuild).          *)
ClassesKept ==
    \A i, j \in Moved :
        /\ Scope(i) = Scope(j) <=> Scope(image[i]) = Scope(image[j])
        /\ Leaf(image[i]).seq = Leaf(i).seq

(* A record's chain is rebuilt on its ancestors' new identities.            *)
ChainsRebuilt ==
    \A i \in Moved :
        IF Parent(i) = Root THEN Parent(image[i]) = Root
        ELSE Parent(i) \in Moved /\ Parent(image[i]) = image[Parent(i)]

(* A generation loses what was dropped with all beneath it, nothing else.   *)
OnlyDropsAreLost ==
    job.pc = "walk" /\ job.todo = {} /\ job.stack = <<>> =>
        Moved = {i \in job.records : \A n \in 1..Len(i) : Kind(SubSeq(i, 1, n)) # "drop"}

(* What transition() accepts never leads a run round in a circle.           *)
NoCycleMet == job.answer # "cycle"

(* A session is replaced as a whole, and by one that embeds in it: every    *)
(* record of the last generation stands for one of the first, beneath the   *)
(* same one, with its ordinal, and equal calls are the same ones. No        *)
(* generation in between, nor a part of a refused or dead run, is stored.   *)
Embeds(new, old) ==
    \E of \in [new -> old] :
        /\ \A i \in new : Leaf(of[i]).seq = Leaf(i).seq
        /\ \A i, j \in new : Scope(of[i]) = Scope(of[j]) <=> Scope(i) = Scope(j)
        /\ \A i \in new :
            IF Parent(i) = Root THEN Parent(of[i]) = Root
            ELSE Parent(i) \in new /\ Parent(of[i]) = of[Parent(i)]

StoredEmbeds ==
    [][session' # session =>
          session'.version = Current /\ Embeds(session'.records, session.records)]_mvars

=============================================================================
