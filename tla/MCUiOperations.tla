--------------------------- MODULE MCUiOperations ---------------------------
(* The functions UiOperations.cfg gives the constants of UiOperations.     *)
EXTENDS UiOperations

CONSTANTS u1, u2, g1, g2, i1, j1, c1, c2

(* The first group has both users, the other one of them. *)
SmallMembers == [g \in {g1, g2} |-> IF g = g1 THEN {u1, u2} ELSE {u1}]
AllPublic == [i \in {i1} |-> "public"]
(* One channel for the group, one for everybody. *)
OneForTheGroup == [c \in {c1, c2} |-> IF c = c1 THEN "group" ELSE "public"]
GroupOfFirst == [c \in {c1, c2} |-> IF c = c1 THEN {g1} ELSE {}]
(* Both channels are the tenant's, the Jira integration is the group's.    *)
JiraForTheGroup ==
  [i \in {c1, c2, j1} |-> IF i = j1 THEN "group" ELSE "tenant"]
=============================================================================
