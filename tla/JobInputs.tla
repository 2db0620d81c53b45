------------------------------ MODULE JobInputs ------------------------------
(* What the job is promised about its inputs, whoever runs them: an input waits,
   is run by one worker, may be given back any number of times (a killed or
   revoked attempt), and yields its result once.  WorkerPool (the workers of one
   node) and InputSteal (the nodes of one job) are shown to implement it. *)
CONSTANT Inputs

VARIABLE status   \* per input: "waiting", "running" or "done"

Init == status = [i \in Inputs |-> "waiting"]

(* Every input of S goes from one status to the next. *)
Move(S, from, to) ==
    /\ \A i \in S : status[i] = from
    /\ status' = [i \in Inputs |-> IF i \in S THEN to ELSE status[i]]

Take(i) == Move({i}, "waiting", "running")

(* Several attempts may be abandoned at once. *)
GiveBack(S) == Move(S, "running", "waiting")

Finish(i) == Move({i}, "running", "done")

Next ==
    \/ \E i \in Inputs : Take(i) \/ Finish(i)
    \/ \E S \in (SUBSET Inputs) \ {{}} : GiveBack(S)

Spec == Init /\ [][Next]_status
=============================================================================
