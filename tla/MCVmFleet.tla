------------------------------ MODULE MCVmFleet ------------------------------
EXTENDS VmFleet, TLC

CONSTANTS t1, t2

Calm == [k \in Kinds |-> 0]
With(kinds) == [k \in Kinds |-> IF k \in kinds THEN 1 ELSE 0]
Grown(cloud, kinds) == [cloud |-> cloud, idles |-> TRUE, late |-> TRUE,
                        plan |-> [t \in Tasks |-> "none"], may |-> With({"grow", "job"} \cup kinds)]

(* One bounded event, and pairs of which the second makes the first worse.  A
   client-hosted Azure cluster stands neither a crash nor a failing delete. *)
One == {Grown(c, {k}) : c \in Clouds, k \in Kinds}
Pairs == {Grown(c, {"lost", k}) : c \in Clouds, k \in {"script", "boot", "create", "hang", "gone", "silence"}}
Alone == {x \in One \cup Pairs :
             x.cloud # "azureLease" \/ (x.may["crash"] = 0 /\ x.may["api"] = 0)}
(* A restart and another task, in any order, one beside the other. *)
Planned(second, kinds) ==
    [cloud |-> "gcp", idles |-> FALSE, late |-> TRUE, may |-> With(kinds),
     plan |-> [t \in Tasks |-> IF t = t1 THEN "restart" ELSE second]]
Cluster == {Planned("stop", ks) : ks \in {{k, "job"} : k \in {"hang", "silence", "create", "ask", "script", "boot",
                                                         "reboot", "spot"}}}
           \cup {Planned("restart", {}), Planned("stop", {"grow"}), Planned("stop", {"ask", "hang"})}
Stopping == {Grown(c, {"person"}) : c \in Clouds}
All == Alone \cup Cluster
=============================================================================
