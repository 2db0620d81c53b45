------------------------------ MODULE MCDeploy ------------------------------
EXTENDS Deploy, TLC

CONSTANTS m1, m2, j1, j2

Plan(c, by, versions, raise, kill, blind, lose, n, k) ==
    [cloud |-> c, by |-> by, versions |-> versions, raise |-> raise, kill |-> kill, blind |-> blind,
     lose |-> lose, faults |-> n, again |-> k]

(* One machine whose attempts break off at any step but the snapshot.  A deploy that
   migrates is killed only where it holds no local head, and an AWS lookup fails only
   where that makes no second head. *)
Anywhere == Steps \ {"snapshot"}
Unheld == {"prepare", "token", "save", "look", "version", "config"}
Alone == {Plan("gcp", {m1}, {1, 2}, Anywhere, Unheld, {"look", "describe"}, {"setup", "stop"}, 2, 1),
          Plan("aws", {m1}, {1, 2}, Anywhere, Unheld, {"look"}, {"setup", "stop"}, 2, 1),
          Plan("azure", {m1}, {1, 2}, Anywhere, Anywhere, {"describe"}, {"setup"}, 2, 1)}

(* Two at the same time, where the name of the head can be taken only once. *)
Rivals == {Plan(c, {m1, m2}, {1}, {}, {}, {}, {}, 0, 0) : c \in {"gcp", "azure"}}
All == Alone \cup Rivals

Migrating == {Plan(c, {m1}, {1}, {"upload"}, {}, {}, {}, 1, 0) : c \in {"gcp", "aws"}}
Azure == {Plan("azure", {m1}, {1}, {}, {}, {}, {}, 0, 0)}
Blind == {Plan("aws", {m1}, {1}, {}, {}, {"describe"}, {}, 1, 0)}
=============================================================================
