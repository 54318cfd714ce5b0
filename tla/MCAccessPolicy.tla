--------------------------- MODULE MCAccessPolicy ---------------------------
(* A user with two roles, a resource in a hierarchy of groups, and two connections. *)
EXTENDS AccessPolicy

CONSTANTS g1, g2

\* A policy whose list of the kind k does not match.
All(k) == [j \in Kinds |-> IF j = k THEN "nomatch" ELSE IF j = "tcl" THEN "empty" ELSE "match"]

\* What a role has policies for: the resource, g1, g2 (never the root itself).
Role(r, a, b) ==
  [p \in Places |-> CASE p = "resource" -> r [] p = g1 -> a [] p = g2 -> b [] OTHER -> None]

\* Below the root: in no group; g1 under g2; g1 beside g2; a group whose parent is missing.
Shapes ==
  {<<{}, g2, Root>>, <<{g1}, g2, Root>>, <<{g1, g2}, Root, Root>>, <<{g1}, g2, None>>}

MCDatabases ==
  {[n |-> 2, item |-> <<x, y>>, default |-> d, member |-> s[1],
    parent |-> [g \in Groups \cup {Zero} |->
                  CASE g = g1 -> s[2] [] g = g2 -> s[3] [] g = Root -> Zero [] OTHER -> None]] :
     x \in {Role(None, None, None), Role(All("ncl"), None, None), Role(None, All("pcl"), None)},
     y \in {Role(r, a, b) : r \in {None, All("pcl")}, a, b \in {None, All("ncl")}},
     d \in {None, All("pcl")}, s \in Shapes}

MCGroups == {g1, g2, Root}
=============================================================================
