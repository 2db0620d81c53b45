--------------------------- MODULE MCWorkerServer ---------------------------
EXTENDS WorkerServer, TLC

With(kinds) == [k \in Kinds |-> IF k \in kinds THEN 1 ELSE 0]
Plan(pinned, takes, last, kinds) ==
    [broken |-> {}, baked |-> 0, pinned |-> [j \in Jobs |-> pinned[j]], takes |-> [j \in Jobs |-> takes[j]],
     last |-> last, may |-> With(kinds)]

(* Two jobs, one after the other, and one failure on the way, or two; what a
   failing request or a process that dies early leaves behind for the next job is
   seen only where there is none. *)
Two == {Plan(pinned, takes, 2, {kind}) : pinned \in {<<0, 0>>, <<1, 2>>}, takes \in {<<2, 2>>, <<1, 2>>},
                                        kind \in {"uv", "exit", "stuck", "retire"}}
       \cup {Plan(<<1, 1>>, <<2, 1>>, 2, {"exit", kind}) : kind \in {"stuck", "retire", "uv"}}
       \cup {Plan(<<0, 0>>, <<2, 1>>, 2, {"retire", "boot"}), Plan(<<1, 2>>, <<1, 2>>, 2, {"torn"}),
              Plan(<<1, 2>>, <<2, 1>>, 2, {"uv", "torn"}),
              [Plan(<<1, 2>>, <<1, 2>>, 2, {"exit"}) EXCEPT !.baked = 1],
              [Plan(<<1, 2>>, <<2, 2>>, 2, {"exit"}) EXCEPT !.broken = {1}]}
One == {Plan(pinned, <<2, 2>>, 1, {kind}) : pinned \in {<<0, 0>>, <<1, 1>>}, kind \in {"dies", "request"}}
All == Two \cup One

Upgrade == {Plan(<<1, 2>>, <<1, 1>>, 2, {})}
Requests == {Plan(<<0, 0>>, <<2, 2>>, 2, {"request"})}
Dying == {Plan(<<0, 0>>, <<2, 2>>, 2, {"dies"})}
Torn == {Plan(<<1, 1>>, <<2, 2>>, 2, {kind}) : kind \in {"dies", "torn"}}
Baked == {[Plan(<<1, 1>>, <<1, 1>>, 1, {}) EXCEPT !.baked = 2]}
=============================================================================
