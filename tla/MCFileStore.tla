---------------------------- MODULE MCFileStore ----------------------------
(* Two clients, each in a process of its own.                              *)
EXTENDS FileStore

CONSTANTS c1, c2, p1, p2

Homes == [c \in Client |-> IF c = c1 THEN p1 ELSE p2]
=============================================================================
