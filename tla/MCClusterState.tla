--------------------------- MODULE MCClusterState ---------------------------
(* ClusterState on small instances. *)
EXTENDS ClusterState

CONSTANTS n1, n2, j1, j2

Start(warm, free, js, as, lost, crashed) ==
    [warm |-> warm, free |-> free, jobs |-> js, attempts |-> as, losses |-> lost,
     restarts |-> crashed]

(* Two clients compete for a warm node, and nothing goes wrong. *)
Compete == Start({n1}, {}, {j1, j2}, {1}, 1, 1)

(* The head crashes under a job on a warm node. *)
Crash == Start({n1}, {}, {j1}, {1}, 1, 0)

(* A node is booted for a job, and one message is lost. *)
Grow == Start({}, {n1}, {j1}, {1}, 0, 1)

(* A start_job call is repeated, and each request plans a node of its own. *)
Repeat == Start({}, {n1, n2}, {j1}, {1, 2}, 1, 1)

(* A job ends and another comes while the node booted for the first still runs. *)
Succeed == Start({}, {n1}, {j1, j2}, {1}, 1, 1)

AllStarts == {Compete, Crash, Grow, Repeat, Succeed}
=============================================================================
