---------------------------- MODULE MCMigration ----------------------------
(* Sessions of at most three records and a family of declarations.         *)
EXTENDS Migration, TLC

CONSTANTS v1, v2, v3, n1, n2, x1, a1, a2, b1, s, t

NamesOf == [a \in Args |-> IF a = b1 THEN t ELSE s]

R(kind, source, to, target) == [kind |-> kind, source |-> source, to |-> to, target |-> target]
Keep == R("none", s, n1, s)
Rules(r, q) == [n \in Name |-> IF n = n1 THEN r ELSE q]

DeclaredOf == [v \in Version |->
    CASE v = v1 -> {Rules(Keep, Keep), Rules(R("move", s, n2, s), Keep),
                    Rules(R("move", s, n2, s), R("move", s, n1, s)),
                    Rules(R("drop", s, n1, s), Keep),
                    Rules(R("convert", s, n1, s), Keep),
                    Rules(R("convert", s, n2, t), Keep)}
      [] v = v2 -> {Rules(Keep, Keep), Rules(R("drop", s, n1, s), R("convert", s, n1, s))}
      [] OTHER -> {}]

F(n, a, q) == [name |-> n, args |-> a, seq |-> q]
Frames == {F(n1, a1, 0), F(n1, a1, 1), F(n1, a2, 0), F(n2, a1, 0), F(x1, a1, 0)}
Roots == {<<f>> : f \in Frames}
Families ==
    {R3 \in {{i, j, k} : i, j, k \in Roots \cup {<<f, g>> : f, g \in Frames}} :
        \A i \in R3 : Parent(i) \in R3 \cup {Root}}
=============================================================================
