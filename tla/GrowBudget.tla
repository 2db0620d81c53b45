----------------------------- MODULE GrowBudget -----------------------------
(* How the head turns "N more slots" into machines and keeps the cluster's caps:
   the start of a job picks idle nodes and plans the rest, a node that lost
   workers to pressure has replacements planned, and the machines are recorded
   later, each by its own thread.  Who owes which slot while the job runs is
   SlotLedger's matter, how a planned machine boots is VmFleet's. *)
EXTENDS Integers, FiniteSets, Sequences, FiniteSetsExt

CONSTANTS
    Nodes,      \* names, in the order they are made up
    Jobs,
    Sizes,      \* vCPUs of the family that growth packs
    Mixes       \* what a run may begin with, see MixesAssumption

(* A machine type is what machine_spec says of it. *)
Machines == [cpus : Nat, ram : Nat, gpus : Nat]
Packed(cpus) == [cpus |-> cpus, ram |-> 4 * cpus, gpus |-> 0]

ASSUME SizesAssumption ==
    /\ Sizes \subseteq Nat \ {0} /\ IsFiniteSet(Sizes) /\ Sizes # {}
    /\ Nodes \subseteq Nat /\ IsFiniteSet(Nodes)
(* maxVcpus, maxGpus, configured: the settings; gpuType: what func_gpu stands for;
   warm: nodes that serve when it begins; calls: what each job asks for, its inputs
   capped by max_parallelism; lost answers, deaths, losses: how many there may be. *)
ASSUME MixesAssumption ==
    \A mix \in Mixes :
        /\ {mix.maxVcpus, mix.maxGpus, mix.lost, mix.deaths, mix.losses} \subseteq Nat
        /\ mix.configured \in Machines /\ mix.gpuType \in Machines
        /\ mix.warm \subseteq Nodes
        /\ mix.calls \in [Jobs -> [inputs : Nat \ {0}, cpu : Nat \ {0}, ram : Nat \ {0},
                                   gpu : BOOLEAN, grow : BOOLEAN]]

VARIABLES
    mix,      \* the run's surroundings
    node,     \* [Nodes -> what the head's record and the node itself hold]
    job,      \* [Jobs -> what the head's record holds]
    may,      \* what is left of the bounded events
    grant,    \* budget a job began with, vCPUs or GPUs (history variable)
    booted,   \* vCPUs or GPUs planned for a job so far (history variable)
    began     \* slots a job began with (history variable)

hist == <<grant, booted, began>>
vars == <<mix, node, job, may, hist>>

None == "none"
NoCap == -1

(* at: a planned node gets its record from a thread; owner: the job it runs or
   is scoped to; alive: workers that pressure left; asked: a request of its was
   not answered yet, answer: what the job's record says of its last request;
   squeezed: its plan was measured and cut by the budget. *)
NodeStates == [at : {None, "planned", "BOOTING", "up", "gone"}, type : Machines,
               owner : Jobs \cup {None}, target : Nat, alive : Nat,
               grown : BOOLEAN, asked : BOOLEAN, refused : BOOLEAN, answer : Nat,
               squeezed : BOOLEAN]
JobStates == [at : {"new", "selected", "RUNNING", "refused", "over"}, picked : SUBSET Nodes,
              tries : {1, 2}, left : Nat \cup {NoCap}]

TypeOK ==
    /\ mix \in Mixes
    /\ node \in [Nodes -> NodeStates]
    /\ job \in [Jobs -> JobStates]
    /\ may \in [{"lost", "deaths", "losses"} -> Nat]
    /\ grant \in [Jobs -> Nat \cup {NoCap}]
    /\ booted \in [Jobs -> Nat] /\ began \in [Jobs -> Nat]

Least(a, b) == IF a < b THEN a ELSE b
NotBelow0(a) == IF a < 0 THEN 0 ELSE a
CeilDiv(a, b) == (a + b - 1) \div b

-----------------------------------------------------------------------------
(* The planner. *)

(* required_cpus_per_call; "dynamic" is one vCPU and 4 GB. *)
CpusPerCall(call) == LET forRam == (call.ram + 3) \div 4
                     IN  IF call.cpu > forRam THEN call.cpu ELSE forRam

(* How many calls fit on one machine; a GPU runs one. *)
Capacity(type, call) ==
    IF type.gpus > 0 THEN type.gpus
    ELSE Least(type.cpus \div call.cpu, type.ram \div call.ram)

Largest == Max(Sizes)
Repeat(x, times) == [i \in 1..times |-> x]

(* MUTANT: the remainder gets the largest size that is not too big. *)
PackRoundingDown(cpus) ==
    LET rest == cpus % Largest
        smaller == {s \in Sizes : s <= rest}
    IN  Repeat(Packed(Largest), cpus \div Largest)
        \o IF smaller = {} THEN << >> ELSE <<Packed(Max(smaller))>>

(* As many of the largest as fit, the rest by the smallest that covers it. *)
Pack(cpus) ==
    LET rest == cpus % Largest
    IN  Repeat(Packed(Largest), cpus \div Largest)
        \o IF rest = 0 THEN << >> ELSE <<Packed(Min({s \in Sizes : s >= rest}))>>

Packable(type) == type.gpus = 0 /\ type.ram = 4 * type.cpus

(* Each machine takes what fits until nothing is left; machines that hold no
   call are dropped first.  Of the rest all but the last are the same. *)
Filled(types, slots, call) ==
    LET fit == SelectSeq(types, LAMBDA t : Capacity(t, call) > 0)
    IN  [i \in 1..Len(fit) |->
            [type |-> fit[i],
             target |-> Least(NotBelow0(slots - (i - 1) * Capacity(fit[1], call)),
                              Capacity(fit[i], call))]]

(* Slots spread over machines as evenly as they go, the first ones one more. *)
Spread(type, count, slots) ==
    [i \in 1..count |->
        [type |-> type, target |-> slots \div count + IF i <= slots % count THEN 1 ELSE 0]]

MeasuredPlan(missing, perNode, type, cpusLeft) ==
    LET wanted == CeilDiv(missing, perNode)
    IN  Spread(type, IF cpusLeft = NoCap THEN wanted
                     ELSE Least(wanted, cpusLeft \div type.cpus), missing)

GpuPlan(missing, call, gpusLeft) ==
    LET perNode == mix.gpuType.gpus
        count == Least(CeilDiv(missing, perNode), gpusLeft \div perNode)
    IN  Filled(Repeat(mix.gpuType, count), Least(missing, count * perNode), call)

CpuPlan(missing, call, cpusLeft) ==
    LET cpus == Least(missing * CpusPerCall(call), cpusLeft)
        slots == cpus \div CpusPerCall(call)
        types == IF Packable(mix.configured) THEN Pack(cpus)
                 ELSE Repeat(mix.configured, CeilDiv(cpus, mix.configured.cpus))
    IN  IF slots = 0 THEN << >> ELSE Filled(types, slots, call)

(* plan_grow_nodes.  A job has one budget: vCPUs, or GPUs if its calls need one.
   A measured plan asks for vCPUs only, so it does not bound a GPU job. *)
Plan(missing, call, left, perNode, type) ==
    IF perNode > 0 THEN MeasuredPlan(missing, perNode, type, IF call.gpu THEN NoCap ELSE left)
    ELSE IF call.gpu THEN GpuPlan(missing, call, left)
    ELSE CpuPlan(missing, call, left)

Slots(plan) == MapThenSumSet(LAMBDA i : plan[i].target, DOMAIN plan)
Units(type, call) == IF call.gpu THEN type.gpus ELSE type.cpus
Cost(plan, call) == MapThenSumSet(LAMBDA i : Units(plan[i].type, call), DOMAIN plan)

-----------------------------------------------------------------------------
(* The fleet. *)

NoNode == [at |-> None, type |-> Packed(0), owner |-> None, target |-> 0, alive |-> 0,
           grown |-> FALSE, asked |-> FALSE, refused |-> FALSE, answer |-> 0,
           squeezed |-> FALSE]

Init ==
    /\ mix \in Mixes
    /\ node = [n \in Nodes |-> IF n \in mix.warm
                               THEN [NoNode EXCEPT !.at = "up", !.type = mix.configured]
                               ELSE NoNode]
    /\ job = [j \in Jobs |-> [at |-> "new", picked |-> {}, tries |-> 1, left |-> NoCap]]
    /\ may = [lost |-> mix.lost, deaths |-> mix.deaths, losses |-> mix.losses]
    /\ grant = [j \in Jobs |-> NoCap]
    /\ booted = [j \in Jobs |-> 0] /\ began = [j \in Jobs |-> 0]

(* Nodes on record; one that is only planned is not. *)
Recorded == {n \in Nodes : node[n].at \in {"BOOTING", "up"}}

(* fleet_resources: vCPUs of CPU machines, and GPUs. *)
Fleet(call) ==
    LET counted == {n \in Recorded : call.gpu <=> node[n].type.gpus > 0}
    IN  MapThenSumSet(LAMBDA n : Units(node[n].type, call), counted)
Ceiling(call) == IF call.gpu THEN mix.maxGpus ELSE mix.maxVcpus

(* The plan's machines get the next unused names. *)
Unused == {n \in Nodes : node[n].at = None}
Nth(names, i) == CHOOSE n \in names : Cardinality({m \in names : m <= n}) = i
Placed(nodes, plan, j, cut) ==
    [n \in Nodes |->
        IF \E i \in DOMAIN plan : n = Nth(Unused, i)
        THEN LET i == CHOOSE k \in DOMAIN plan : n = Nth(Unused, k)
             IN  [NoNode EXCEPT !.at = "planned", !.type = plan[i].type, !.owner = j,
                                !.target = plan[i].target, !.alive = plan[i].target,
                                !.grown = TRUE, !.squeezed = cut]
        ELSE nodes[n]]

-----------------------------------------------------------------------------
(* The start of a job. *)

Wanted(j) == mix.calls[j].inputs

(* Idle nodes that hold a call, in order, until nothing is missing. *)
Fits(j) ==
    {n \in Nodes : /\ node[n].at = "up" /\ node[n].owner = None
                   /\ mix.calls[j].gpu => node[n].type.gpus > 0
                   /\ Capacity(node[n].type, mix.calls[j]) > 0}
Before(set, n, j) ==
    MapThenSumSet(LAMBDA k : Capacity(node[k].type, mix.calls[j]), {k \in set : k < n})
Selection(j) == {n \in Fits(j) : Before(Fits(j), n, j) < Wanted(j)}
Share(set, n, j) ==
    Least(Wanted(j) - Before(set, n, j), Capacity(node[n].type, mix.calls[j]))

(* The nodes are chosen, then every node is asked whether it reaches the head. *)
Select(j) ==
    /\ job[j].at = "new"
    /\ job' = [job EXCEPT ![j].at = IF Selection(j) = {} /\ ~mix.calls[j].grow
                                    THEN "refused" ELSE "selected",
                           ![j].picked = Selection(j)]
    /\ UNCHANGED <<mix, node, may, hist>>

Picked(j) == MapThenSumSet(LAMBDA n : Share(job[j].picked, n, j), job[j].picked)
Budget(j) == NotBelow0(Ceiling(mix.calls[j]) - Fleet(mix.calls[j]))
StartPlan(j) ==
    IF mix.calls[j].grow /\ Wanted(j) > Picked(j)
    THEN Plan(Wanted(j) - Picked(j), mix.calls[j], Budget(j), 0, mix.configured)
    ELSE << >>

(* What a plan leaves of a budget. *)
AfterPlan(left, plan, call) ==
    IF left = NoCap THEN NoCap ELSE NotBelow0(left - Cost(plan, call))

(* Another call took one of the nodes meanwhile; the client asks once more. *)
Refuse(j) ==
    /\ job[j].at = "selected" /\ \E n \in job[j].picked : node[n].at # "up" \/ node[n].owner # None
    /\ job' = [job EXCEPT ![j].at = IF @ = "selected" /\ job[j].tries = 1 THEN "new" ELSE "refused",
                           ![j].tries = 2, ![j].picked = {}]
    /\ UNCHANGED <<mix, node, may, hist>>

(* The plan is made and the job recorded with what is left of its budget. *)
Admit(j) ==
    LET plan == StartPlan(j)
        call == mix.calls[j]
    IN  /\ job[j].at = "selected"
        /\ \A n \in job[j].picked : node[n].at = "up" /\ node[n].owner = None
        /\ Len(plan) <= Cardinality(Unused)
        /\ node' = Placed([n \in Nodes |->
                               IF n \in job[j].picked
                               THEN [node[n] EXCEPT !.owner = j, !.target = Share(job[j].picked, n, j),
                                                    !.alive = Share(job[j].picked, n, j)]
                               ELSE node[n]], plan, j, FALSE)
        /\ job' = [job EXCEPT ![j].at = "RUNNING",
                               ![j].left = IF call.grow THEN AfterPlan(Budget(j), plan, call) ELSE NoCap]
        /\ grant' = [grant EXCEPT ![j] = IF call.grow THEN Budget(j) ELSE NoCap]
        /\ booted' = [booted EXCEPT ![j] = Cost(plan, call)]
        /\ began' = [began EXCEPT ![j] = Picked(j) + Slots(plan)]
        /\ UNCHANGED <<mix, may>>

(* The last result is in: its warm nodes serve others, the grown ones go. *)
EndJob(j) ==
    /\ job[j].at = "RUNNING"
    /\ job' = [job EXCEPT ![j].at = "over"]
    /\ node' = [n \in Nodes |->
                    IF node[n].owner = j /\ node[n].at = "up" /\ ~node[n].grown
                    THEN [NoNode EXCEPT !.at = "up", !.type = node[n].type] ELSE node[n]]
    /\ UNCHANGED <<mix, may, hist>>

-----------------------------------------------------------------------------
(* A node's life, as far as the budget sees it. *)

RecordBooting(n) ==
    /\ node[n].at = "planned"
    /\ node' = [node EXCEPT ![n].at = "BOOTING"]
    /\ UNCHANGED <<mix, job, may, hist>>
BecomeReady(n) ==
    /\ node[n].at = "BOOTING"
    /\ node' = [node EXCEPT ![n].at = "up"]
    /\ UNCHANGED <<mix, job, may, hist>>
(* A node fails or is deleted; its record stays but counts no more. *)
NodeGone(n) ==
    /\ node[n].at \in {"BOOTING", "up"} /\ may.deaths > 0
    /\ node' = [node EXCEPT ![n].at = "gone"]
    /\ may' = [may EXCEPT !.deaths = @ - 1]
    /\ UNCHANGED <<mix, job, hist>>

Works(n) == node[n].at = "up" /\ node[n].owner # None /\ job[node[n].owner].at = "RUNNING"

(* Pressure retires all but k workers. *)
LoseSlots(n, k) ==
    /\ Works(n) /\ k < node[n].alive /\ may.losses > 0
    /\ node' = [node EXCEPT ![n].alive = k]
    /\ may' = [may EXCEPT !.losses = @ - 1]
    /\ UNCHANGED <<mix, job, hist>>

Deficit(n) == node[n].target - node[n].alive
Asks(n) == Works(n) /\ Deficit(n) > 0 /\ ~node[n].refused

(* The node hears how many of its slots now have a machine, or does not and
   asks again with the same request id. *)
Answered(nodes, n, slots, heard) ==
    [nodes EXCEPT ![n].answer = slots, ![n].asked = ~heard,
                  ![n].target = IF heard THEN @ - slots ELSE @]

Served(n) == node[n].asked

(* A request repeated: the first plan's answer. *)
Replay(n, heard) ==
    /\ Asks(n) /\ Served(n) /\ (heard \/ may.lost > 0)
    /\ node' = Answered(node, n, node[n].answer, heard)
    /\ may' = [may EXCEPT !.lost = IF heard THEN @ ELSE @ - 1]
    /\ UNCHANGED <<mix, job, hist>>

(* MUTANT: the budget a replacement takes is not taken from the job's. *)
KeepsBudget(left, plan, call) == left

Spend(left, plan, call) == AfterPlan(left, plan, call)

(* A request: perNode is what the node measured, 0 if memory never made it shed. *)
Replace(n, perNode, heard) ==
    LET j == node[n].owner
        call == mix.calls[j]
        plan == Plan(Deficit(n), call, job[j].left, perNode, node[n].type)
    IN  /\ Asks(n) /\ ~Served(n) /\ perNode <= node[n].alive
        /\ heard \/ may.lost > 0
        /\ call.grow /\ plan # << >> /\ Len(plan) <= Cardinality(Unused)
        /\ node' = Answered(Placed(node, plan, j, perNode > 0 /\ Len(plan) < CeilDiv(Deficit(n), perNode)),
                            n, Slots(plan), heard)
        /\ job' = [job EXCEPT ![j].left = Spend(@, plan, call)]
        /\ booted' = [booted EXCEPT ![j] = @ + Cost(plan, call)]
        /\ may' = [may EXCEPT !.lost = IF heard THEN @ ELSE @ - 1]
        /\ UNCHANGED <<mix, grant, began>>

(* Nothing can be booted: the node never asks again. *)
RefuseReplacement(n, perNode) ==
    LET j == node[n].owner
    IN  /\ Asks(n) /\ ~Served(n) /\ perNode <= node[n].alive
        /\ \/ ~mix.calls[j].grow
           \/ Plan(Deficit(n), mix.calls[j], job[j].left, perNode, node[n].type) = << >>
        /\ node' = [node EXCEPT ![n].refused = TRUE]
        /\ UNCHANGED <<mix, job, may, hist>>

Next ==
    \/ \E j \in Jobs : Select(j) \/ Refuse(j) \/ Admit(j) \/ EndJob(j)
    \/ \E n \in Nodes :
          \/ RecordBooting(n) \/ BecomeReady(n) \/ NodeGone(n)
          \/ \E k \in 0..node[n].alive :
                \/ LoseSlots(n, k) \/ RefuseReplacement(n, k)
                \/ \E heard \in BOOLEAN : Replace(n, k, heard)
          \/ \E heard \in BOOLEAN : Replay(n, heard)

Spec == Init /\ [][Next]_vars

-----------------------------------------------------------------------------
(* Properties *)

Growing(j) == job[j].at = "RUNNING" /\ mix.calls[j].grow
Owned(j) == {n \in Nodes : node[n].owner = j}

(* What rounding one plan up may cost: the remainder of a packed plan takes a
   machine of the smallest size that holds it, another configured type takes
   whole machines. *)
Rounding == Max({Largest, mix.configured.cpus}) - 1

(* However many requests of however many of its nodes are served, repeated or
   answered in vain, the machines of a job cost what it was granted at its start
   and the rounding of one plan.  (A GPU job's measured plans are bounded by
   nothing and excluded, by the mixes where no such node sheds.) *)
WithinGrant ==
    \A j \in Jobs : job[j].at \in {"RUNNING", "over"} /\ mix.calls[j].grow =>
        booted[j] <= grant[j] + IF mix.calls[j].gpu THEN 0 ELSE Rounding

(* Slots are conserved: what the nodes of a job owe, lost machines' share
   included, is what it began with and the slots of answers still unheard. *)
SlotsConserved ==
    \A j \in Jobs : job[j].at = "RUNNING" =>
        MapThenSumSet(LAMBDA n : node[n].target, Owned(j))
          = began[j] + MapThenSumSet(LAMBDA n : node[n].answer, {n \in Owned(j) : node[n].asked})

(* No machine is booted for more slots than it holds, a replacement of a
   replacement included, unless a measured plan was cut by the budget.  (One
   booted for none at all is possible: a budget that is no multiple of what a
   call takes is packed to its last vCPU.) *)
NodesCanRun ==
    \A n \in Nodes : node[n].grown /\ ~node[n].squeezed =>
        node[n].target <= Capacity(node[n].type, mix.calls[node[n].owner])

(* A job that may grow begins with every slot it asked for, unless the budget
   does not hold one more call than it got; where calls fill the largest size
   exactly, that is: else the packer, which counts vCPUs, loses a call here and
   there. *)
ShortOnlyOfBudget ==
    \A j \in Jobs :
        LET call == mix.calls[j]
            more == IF call.gpu THEN mix.gpuType.gpus ELSE CpusPerCall(call)
        IN  Growing(j) /\ began[j] < Wanted(j) /\ (call.gpu \/ Largest % more = 0)
                => grant[j] < booted[j] + more

(* client.py:200-202: "growth (here and in mid-job replacements) can never push
   the fleet past `max_vcpus`".
   No run checks it: two requests at once break it (see the README). *)
FleetWithinCap ==
    \A gpu \in BOOLEAN : Fleet([gpu |-> gpu]) <= Ceiling([gpu |-> gpu])

(* What the planner hands out adds up: slots are conserved over lost machines and
   unheard answers, machines hold what they are given, and a job begins short only
   when the budget says so. *)
PlansSound == TypeOK /\ SlotsConserved /\ NodesCanRun /\ ShortOnlyOfBudget
=============================================================================
