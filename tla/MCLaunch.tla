------------------------------ MODULE MCLaunch ------------------------------
(* Two sessions.  Launches that share neither a file nor the mutex do not    *)
(* meet, so the pairs considered are those that share a file (Toad and the   *)
(* other Oracle tools among them), and each other row beside itself.         *)
EXTENDS Launch

CONSTANTS s1, s2, n1, n2

\* A missing password matters to Oracle and Navicat only, and another name to the
\* lookups: by head, in a file that is overwritten, among registry keys.
Rows == [kind : Kinds, pwd : {TRUE}, name : {n1}]
          \cup [kind : {"oracle", "navicat"}, pwd : {FALSE}, name : {n1}]
          \cup [kind : {"oracle", "sybase", "navicat"}, pwd : {TRUE}, name : {n2}]

Meet(a, b) ==
  \/ {a.kind, b.kind} \subseteq Configured /\ FileOf(a.kind) = FileOf(b.kind)
  \/ a = b
First == {r \in Rows : r.name = n1}
Pairs == UNION {{[s \in {s1, s2} |-> IF s = s1 THEN a ELSE b] :
                   b \in {r \in Rows : Meet(a, r)}} : a \in First}
=============================================================================
