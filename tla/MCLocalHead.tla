---------------------------- MODULE MCLocalHead ----------------------------
(* Instances of LocalHead: what is on the machine, and what may happen to it. *)
EXTENDS LocalHead, TLC

CONSTANTS c1, c2, d1, d2, deployer

MCCalls == {c1, c2}
MCDashboards == {d1, d2}

Mix(running, actors, crashes, losses, interrupts, abandons, deploys) ==
    [running |-> running, actors |-> actors,
     may |-> [k \in Kinds |-> CASE k = "crashes" -> crashes [] k = "losses" -> losses
                               [] k = "interrupts" -> interrupts
                               [] k = "abandons" -> abandons
                               [] OTHER -> deploys]]

(* Calls and a dashboard meet; a process crashes, or an answer is lost; a dashboard
   is left and opened on a head that runs; a deploy beside two calls or beside a
   dashboard, also one that is left. *)
MCMeet ==
    {Mix(FALSE, {c1, c2, d1}, 0, 0, 1, 0, 0),
     Mix(FALSE, {c1, c2}, 1, 0, 0, 0, 0),
     Mix(FALSE, {c1, c2}, 0, 1, 0, 0, 0),
     Mix(TRUE, {c1, c2, d1}, 0, 0, 1, 0, 0),
     Mix(TRUE, {c1, c2, deployer}, 0, 0, 0, 0, 1)}
    \cup UNION {{Mix(FALSE, {c, d1}, 0, 0, 1, 1, 0),
                 Mix(FALSE, {c, d1}, 1, 0, 1, 0, 0),
                 Mix(TRUE, {c, d1}, 0, 1, 1, 0, 0),
                 Mix(TRUE, {c, d1, deployer}, 0, 0, 0, 0, 1),
                 Mix(TRUE, {c, d1, deployer}, 0, 0, 1, 0, 1),
                 Mix(TRUE, {c, deployer}, 0, 1, 0, 0, 2)} : c \in Calls}

(* Two dashboards share the one dashboard.owner. *)
MCTwoDashboards == {Mix(FALSE, {c1, d1, d2}, 0, 0, 0, 1, 0)}

MCSymmetry == Permutations(Calls)

(* A deploy fails once and is run again. *)
MCDeployAgain == {Mix(TRUE, {c1, deployer}, 0, 1, 0, 0, 2)}
=============================================================================
