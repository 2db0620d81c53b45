----------------------------- MODULE JobDriver -----------------------------
(***************************************************************************)
(* How one call of `remote_parallel_map` gets its nodes and hands them the *)
(* job: `_execute_job` (_remote_parallel_map.py) and the task it keeps per *)
(* node, `Node.execute_job` (_node.py), with the part of a node that takes *)
(* an assignment (node_service/__init__.py, job_endpoints.py).             *)
(*                                                                         *)
(* The client asks the head for nodes, splits the inputs over the ready    *)
(* ones (or lets the booting ones share one list), and starts one task per *)
(* node: wait for the boot, POST the job, upload a first chunk, wait at a  *)
(* barrier until every initially ready node has one, then upload and poll  *)
(* until the node says it has left the job.  A node that does not take the *)
(* job is REMOVED and the loop of the driver hands its inputs to another;  *)
(* replacement nodes the head booted for the job join late.                *)
(*                                                                         *)
(* Abstracted: which inputs move where once they are on nodes (InputSteal),*)
(* acknowledgement of results (ResultDelivery), how the head picks nodes   *)
(* (ClusterState, GrowBudget), telemetry and the spinner.                  *)
(***************************************************************************)
EXTENDS Naturals, FiniteSets, Sequences, SequencesExt

CONSTANTS
    Nodes,        \* every node that can be given to the job
    Late,         \* those the head boots in the middle of it, as replacements
    NInputs,      \* number of inputs of the call
    Slots,        \* [Nodes -> Nat \ {0}]: target_parallelism of each node
    Plans,        \* what the head may answer: [ready |-> Seq, booting |-> Seq]
    Faults,       \* kinds of faults, see Fault below
    MaxFaults,    \* how many of them happen
    MaxFleet,     \* the budget of the head: nodes the job may have in all
    Background,   \* detach=True: the call may leave once its inputs are uploaded
    SlowAssign    \* an assignment may outlast the idle time after which the
                  \* other nodes leave the job (EMPTY_NEIGHBOR_TIMEOUT_SEC)

Inputs == 1..NInputs

(* The list all booting nodes pop from when no node was ready at the start. *)
Shared == "shared"

ASSUME DriverAssumption ==
    /\ Late \subseteq Nodes
    /\ NInputs \in Nat \ {0}
    /\ Slots \in [Nodes -> Nat \ {0}]
    /\ Shared \notin Nodes
    /\ MaxFaults \in Nat /\ Background \in BOOLEAN
    /\ Plans \subseteq [ready : Seq(Nodes \ Late), booting : Seq(Nodes \ Late)]
    /\ \A p \in Plans : p.ready \o p.booting # <<>> /\ IsInjective(p.ready \o p.booting)

VARIABLES
    driver,     \* where the call is: "driving" is asleep before a pass of the loop,
                \* "passing" at an await in the middle of one
    error,      \* what the call raised: [kind, node]
    tries,      \* start_job calls after which the cluster was busy
    promised,   \* the head's plan for this job once it has recorded it
    busy,       \* what holds the nodes: other jobs, or their boot
    nodes,      \* the driver's list of nodes, in order
    first,      \* those of them that were ready at the start
    lists,      \* inputs not popped yet: [Nodes \cup {Shared} -> SUBSET Inputs]
    done,       \* inputs_done_event
    told,       \* all_inputs_uploaded on the head
    signal,     \* what the handler of a Ctrl-C made of it
    broken,     \* first_chunk_barrier was aborted
    through,    \* initially ready nodes that are past it
    state,      \* Node.state
    task,       \* where the task of each node is
    post,       \* the assignment request, as the client sees it
    chunk,      \* the inputs each task is uploading
    got,        \* results the client has
    vm,         \* each machine's node service
    linked,     \* the machine still has the connection of the assignment
    held,       \* inputs on each node, waiting or running
    results,    \* results each node has not handed over
    ended,      \* the head ended the job: restart, shutdown or cancel
    faults      \* faults so far

start  == <<tries, promised, busy>>
fleet  == <<nodes, first, broken, through>>
pass   == <<done, told, signal>>
client == <<lists, chunk, pass>>
link   == <<state, task, post>>
server == <<vm, linked, held, results>>
vars == <<driver, error, start, fleet, client, link, server, got, ended, faults>>

NoError == [kind |-> "none", node |-> Shared]
NoPlan  == [ready |-> <<>>, booting |-> <<>>]

Init ==
    /\ driver = "starting" /\ error = NoError
    /\ tries = 0 /\ promised = NoPlan /\ busy \in {"no", "running", "booting"}
    /\ nodes = <<>> /\ first = {} /\ broken = FALSE /\ through = {}
    /\ lists = [k \in Nodes \cup {Shared} |-> {}]
    /\ chunk = [n \in Nodes |-> {}]
    /\ done = FALSE /\ told = FALSE /\ signal = "none"
    /\ state = [n \in Nodes |-> "none"]
    /\ task = [n \in Nodes |-> "none"]
    /\ post = [n \in Nodes |-> "none"]
    /\ got = {} /\ ended = FALSE /\ faults = 0
    /\ vm = [n \in Nodes |-> "none"]
    /\ linked = [n \in Nodes |-> FALSE]
    /\ held = [n \in Nodes |-> {}] /\ results = [n \in Nodes |-> {}]

Driving == driver \in {"driving", "passing"}
Listed(n) == n \in ToSet(nodes)
Removed(n) == state[n] = "REMOVED"
OnJob(n) == state[n] \in {"READY", "RUNNING"}
TaskDone(n) == task[n] \in {"returned", "raised"}

Fault(kind) == kind \in Faults /\ faults < MaxFaults /\ faults' = faults + 1

Raise(kind, n) == driver' = "raised" /\ error' = [kind |-> kind, node |-> n]

-----------------------------------------------------------------------------
(* start_job: one request that picks nodes, with a retry when it was lost   *)
(* and one more call when the cluster was busy.                             *)

(* The head records a plan once; a repeated start gets the same answer. *)
HeadPlans(p) == IF promised = NoPlan THEN p ELSE promised

(* input_destinations: a seat for each slot of the ready nodes, slot by slot *)
(* and in the order of the nodes; the inputs go round these seats.          *)
Seats(ready) == UNION {(1..Slots[ready[k]]) \X {k} : k \in DOMAIN ready}

SeatsBefore(seats, s) == {t \in seats : t[1] < s[1] \/ (t[1] = s[1] /\ t[2] < s[2])}

SeatsOfInput(seats, i) ==
    {s \in seats : Cardinality(SeatsBefore(seats, s)) = (i - 1) % Cardinality(seats)}

Split(p) ==
    IF p.ready = <<>>
    THEN [k \in DOMAIN lists |-> IF k = Shared THEN Inputs ELSE {}]
    ELSE LET seats == Seats(p.ready)
         IN  [k \in DOMAIN lists |->
                {i \in Inputs : \E s \in SeatsOfInput(seats, i) : p.ready[s[2]] = k}]

StartAnswered(p) ==
    /\ driver = "starting" /\ (busy = "no" \/ promised # NoPlan)
    /\ p = HeadPlans(p)
    /\ promised' = p
    /\ LET all == p.ready \o p.booting
       IN /\ nodes' = all /\ first' = ToSet(p.ready)
          /\ lists' = Split(p)
          /\ state' = [n \in Nodes |-> IF n \in ToSet(p.ready) THEN "READY"
                                       ELSE IF n \in ToSet(all) THEN "BOOTING" ELSE "none"]
          /\ task' = [n \in Nodes |-> IF n \in ToSet(p.ready) THEN "assign"
                                      ELSE IF n \in ToSet(all) THEN "boot" ELSE "none"]
          /\ vm' = [n \in Nodes |-> IF n \in ToSet(p.ready) THEN "ready"
                                    ELSE IF n \in ToSet(all) THEN "booting" ELSE "none"]
    /\ driver' = "driving"
    /\ UNCHANGED <<error, tries, busy, broken, through, chunk, pass, post, linked, held,
                   results, got, ended, faults>>

(* The answer is lost: the head has the plan, the client asks again. *)
StartLost(p) ==
    /\ driver = "starting" /\ busy = "no" /\ Fault("start")
    /\ promised' = HeadPlans(p)
    /\ UNCHANGED <<driver, error, tries, busy, fleet, client, link, server, got, ended>>

(* The cluster has nothing ready and is off, or it admits the job without a  *)
(* node because its budget is used up: the first pass then finds no task.    *)
StartRefused ==
    /\ driver = "starting" /\ Fault("refusedStart") /\ promised = NoPlan
    /\ Raise("NoNodes", Shared) \/ Raise("JobStalled", Shared)
    /\ UNCHANGED <<start, fleet, client, link, server, got, ended>>

StartBusy ==
    /\ driver = "starting" /\ busy # "no" /\ promised = NoPlan
    /\ \/ tries = 0 /\ driver' = "waiting" /\ UNCHANGED error
       \/ tries = 1 /\ Raise("AllNodesBusy", Shared)
    /\ tries' = 1
    /\ UNCHANGED <<promised, busy, fleet, client, link, server, got, ended, faults>>

(* wait_for_nodes_to_be_ready: until no node runs, for four seconds, or none  *)
(* boots, for ten minutes; then some node has to be ready.                    *)
WaitOver ==
    /\ driver = "waiting"
    /\ \/ busy = "no" /\ driver' = "starting" /\ UNCHANGED error
       \/ busy = "running" /\ Raise("AllNodesBusy", Shared)
       \/ busy = "booting" /\ Raise("NoNodes", Shared)
    /\ UNCHANGED <<start, fleet, client, link, server, got, ended, faults>>

NoneCameUp ==
    /\ driver = "waiting" /\ busy = "no" /\ Fault("refusedStart")
    /\ Raise("NoNodes", Shared)
    /\ UNCHANGED <<start, fleet, client, link, server, got, ended>>

OthersCome == /\ driver \in {"starting", "waiting"} /\ Fault("others")
              /\ busy' \in {"running", "booting"}
              /\ UNCHANGED <<driver, error, tries, promised, fleet, client, link, server, got, ended>>

OthersGo == /\ driver \in {"starting", "waiting"} /\ busy # "no" /\ busy' = "no"
            /\ UNCHANGED <<driver, error, tries, promised, fleet, client, link, server, got, ended, faults>>

-----------------------------------------------------------------------------
(* The boot of a node, and what its task sees of it on the head.            *)

VmBoots(n) ==
    /\ vm[n] = "booting" /\ vm' = [vm EXCEPT ![n] = "ready"]
    /\ UNCHANGED <<driver, error, start, fleet, client, link, linked, held, results, got, ended, faults>>

VmFailsToBoot(n) ==
    /\ vm[n] = "booting" /\ \/ Fault("bootfail") /\ vm' = [vm EXCEPT ![n] = "failed"]
                            \/ Fault("hang") /\ vm' = [vm EXCEPT ![n] = "hung"]
    /\ UNCHANGED <<driver, error, start, fleet, client, link, linked, held, results, got, ended>>

(* The task is over and its exception is seen by the driver's next pass. *)
TaskRaises(n) == task' = [task EXCEPT ![n] = "raised"]

SeesReady(n) ==
    /\ Driving /\ task[n] = "boot" /\ vm[n] = "ready"
    /\ state' = [state EXCEPT ![n] = "READY"]
    /\ task' = [task EXCEPT ![n] = "assign"]
    /\ UNCHANGED <<driver, error, start, fleet, client, post, server, got, ended, faults>>

(* A node that joined late and never held anything is merely removed. *)
StateAfterBadBoot(n) == IF n \in Late THEN "REMOVED" ELSE "FAILED"

BadBoot(n) ==
    /\ state' = [state EXCEPT ![n] = StateAfterBadBoot(n)]
    /\ task' = [task EXCEPT ![n] = "returned"]
    /\ UNCHANGED <<driver, error, start, fleet, client, post, server, got, ended, faults>>

SeesFailed(n) == Driving /\ task[n] = "boot" /\ vm[n] = "failed" /\ BadBoot(n)

(* The record is gone because the job was ended: the head says so. *)
GoneForGood(n) == vm[n] \in {"gone", "hung", "stopping"} /\ ended

SeesGone(n) ==
    /\ Driving /\ task[n] = "boot" /\ GoneForGood(n)
    /\ TaskRaises(n)
    /\ UNCHANGED <<driver, error, start, fleet, client, state, post, server, got, ended, faults>>

(* Ten minutes without a word: NODE_BOOT_DEADLINE_SEC. *)
BootDeadline(n) ==
    /\ Driving /\ task[n] = "boot"
    /\ vm[n] \in {"gone", "hung", "stopping"} /\ ~GoneForGood(n)
    /\ BadBoot(n)

(* The head does not answer one status request: nothing retries it. *)
StatusLost(n) ==
    /\ Driving /\ task[n] = "boot" /\ Fault("blip") /\ TaskRaises(n)
    /\ UNCHANGED <<driver, error, start, fleet, client, state, post, server, got, ended>>

-----------------------------------------------------------------------------
(* The assignment: POST /jobs/{id}, answered once the environment is        *)
(* installed and the function loaded.                                       *)

(* known_names *)
Known(n) == Listed(n)

(* Machines the head reserved for the job after its start. *)
ListedForJob(n) == n \in Late /\ vm[n] \in {"booting", "ready"}

(* A machine reserved for this job that the driver does not know joins it. *)
Discover(n) ==
    /\ Driving /\ ListedForJob(n) /\ ~Known(n)
    /\ nodes' = Append(nodes, n)
    /\ state' = [state EXCEPT ![n] = "BOOTING"]
    /\ task' = [task EXCEPT ![n] = "boot"]
    /\ UNCHANGED <<driver, error, start, first, broken, through, client, post, server, got, ended, faults>>

(* A node that lost workers asked the head for a machine. *)
HeadBootsReplacement(n) ==
    /\ Driving /\ n \in Late /\ vm[n] = "none" /\ ~ended
    /\ \E m \in Nodes : vm[m] = "working" /\ held[m] # {}
    /\ Cardinality({m \in Nodes : vm[m] # "none"}) < MaxFleet
    /\ vm' = [vm EXCEPT ![n] = "booting"]
    /\ UNCHANGED <<driver, error, start, fleet, client, link, linked, held, results, got, ended, faults>>

Post(n, answer) == post' = [post EXCEPT ![n] = answer]

SendAssign(n) ==
    /\ Driving /\ task[n] = "assign" /\ post[n] \in {"none", "cut"}
    /\ Post(n, "sent")
    /\ UNCHANGED <<driver, error, start, fleet, client, state, task, server, got, ended, faults>>

(* The middleware: the node is RUNNING as soon as the upload begins. *)
Accept(n) ==
    /\ post[n] = "sent" /\ vm[n] = "ready"
    /\ vm' = [vm EXCEPT ![n] = "arriving"]
    /\ linked' = [linked EXCEPT ![n] = TRUE]
    /\ Post(n, "accepted")
    /\ UNCHANGED <<driver, error, start, fleet, client, state, task, held, results, got, ended, faults>>

Refuse(n) ==
    /\ post[n] = "sent"
    /\ \/ vm[n] \in {"arriving", "resetting", "loading", "working", "rebooting"} /\ Post(n, "409")
       \/ vm[n] = "stopping" /\ Post(n, "503")
       \/ vm[n] = "gone" /\ Post(n, "cut")
    /\ UNCHANGED <<driver, error, start, fleet, client, state, task, server, got, ended, faults>>

(* The token is not on the node's list and the list cannot be refreshed, or *)
(* the user is not on the fresh one; nothing of the node changes.           *)
NotAdmitted(n) ==
    /\ post[n] = "sent" /\ vm[n] = "ready" /\ Fault("auth")
    /\ Post(n, "503") \/ Post(n, "401")
    /\ UNCHANGED <<driver, error, start, fleet, client, state, task, server, got, ended>>

(* The relay in front of the node answers for it. *)
GatewayError(n) ==
    /\ post[n] = "sent" /\ Fault("gateway") /\ Post(n, "502")
    /\ UNCHANGED <<driver, error, start, fleet, client, state, task, server, got, ended>>

(* The whole body is there: install the packages, load the function. *)
BodyArrived(n) ==
    /\ vm[n] = "arriving" /\ linked[n]
    /\ vm' = [vm EXCEPT ![n] = "loading"]
    /\ UNCHANGED <<driver, error, start, fleet, client, link, linked, held, results, got, ended, faults>>

(* No worker of the client's python: the node is READY again and refuses. *)
NoWorkers(n) ==
    /\ vm[n] = "loading" /\ Fault("refuse")
    /\ vm' = [vm EXCEPT ![n] = "ready"]
    /\ post' = IF linked[n] THEN [post EXCEPT ![n] = "409"] ELSE post
    /\ linked' = [linked EXCEPT ![n] = FALSE]
    /\ UNCHANGED <<driver, error, start, fleet, client, state, task, held, results, got, ended>>

(* handle_errors: a request that ended in a 500 reboots the containers. *)
AfterError == "rebooting"

(* The install or the load fails. *)
LoadFails(n) ==
    /\ vm[n] = "loading" /\ Fault("error")
    /\ vm' = [vm EXCEPT ![n] = AfterError]
    /\ post' = IF linked[n] THEN [post EXCEPT ![n] = "500"] ELSE post
    /\ linked' = [linked EXCEPT ![n] = FALSE]
    /\ UNCHANGED <<driver, error, start, fleet, client, state, task, held, results, got, ended>>

Rebooted(n) ==
    /\ vm[n] = "rebooting" /\ vm' = [vm EXCEPT ![n] = "ready"]
    /\ UNCHANGED <<driver, error, start, fleet, client, link, linked, held, results, got, ended, faults>>

(* The job watcher starts and the answer is sent. *)
Assigned(n) ==
    /\ vm[n] = "loading" /\ vm' = [vm EXCEPT ![n] = "working"]
    /\ post' = IF linked[n] THEN [post EXCEPT ![n] = "200"] ELSE post
    /\ linked' = [linked EXCEPT ![n] = FALSE]
    /\ UNCHANGED <<driver, error, start, fleet, client, state, task, held, results, got, ended, faults>>

(* The connection breaks while the body is uploaded, or after it. *)
Cut(n) ==
    /\ linked[n] /\ post[n] = "accepted"
    /\ \/ vm[n] = "arriving" /\ Fault("cut")
       \/ vm[n] = "loading" /\ Fault("answer")
    /\ linked' = [linked EXCEPT ![n] = FALSE]
    /\ Post(n, "cut")
    /\ UNCHANGED <<driver, error, start, fleet, client, state, task, vm, held, results, got, ended>>

(* ClientDisconnect before the watcher started: the node takes it back,     *)
(* once its push of RUNNING has landed.                                     *)
TakeBack(n) ==
    /\ vm[n] = "arriving" /\ ~linked[n]
    /\ vm' = [vm EXCEPT ![n] = "ready"]
    /\ UNCHANGED <<driver, error, start, fleet, client, link, linked, held, results, got, ended, faults>>

(* The node is deleted in the dashboard, or was idle for too long. *)
Stops(n) ==
    /\ vm[n] = "ready" /\ Fault("stopping") /\ vm' = [vm EXCEPT ![n] = "stopping"]
    /\ UNCHANGED <<driver, error, start, fleet, client, link, linked, held, results, got, ended>>

(* MUTANT: nobody tells the others that this node will not come. *)
KeepBarrier(n) == broken

(* An initially ready node that drops out breaks the barrier. *)
AbortBarrier(n) == broken \/ n \in first

AssignOK(n) ==
    /\ Driving /\ task[n] = "assign" /\ post[n] = "200"
    /\ state' = [state EXCEPT ![n] = "RUNNING"]
    /\ task' = [task EXCEPT ![n] = "chunk"]
    /\ UNCHANGED <<driver, error, start, fleet, client, post, server, got, ended, faults>>

(* MUTANT: a node that does not take the job has failed. *)
FailedByRefusal == "FAILED"

(* A node that does not take the job is dropped, and the call goes on. *)
DroppedByRefusal == "REMOVED"

Drop(n) ==
    /\ state' = [state EXCEPT ![n] = DroppedByRefusal]
    /\ task' = [task EXCEPT ![n] = "returned"]
    /\ broken' = AbortBarrier(n)

(* Every other answer removes the node: refused, stopping, failed, or a     *)
(* relay that kept answering for it after ASSIGN_GATEWAY_RETRY_ATTEMPTS.    *)
AssignRefused(n) ==
    /\ Driving /\ task[n] = "assign" /\ post[n] \in {"409", "500", "502", "503"}
    /\ Drop(n)
    /\ UNCHANGED <<driver, error, start, nodes, first, through, client, post, server, got, ended, faults>>

GatewayRetry(n) ==
    /\ Driving /\ task[n] = "assign" /\ post[n] = "502"
    /\ Post(n, "sent")
    /\ UNCHANGED <<driver, error, start, fleet, client, state, task, server, got, ended, faults>>

AssignUnauthorized(n) ==
    /\ Driving /\ task[n] = "assign" /\ post[n] = "401" /\ TaskRaises(n)
    /\ UNCHANGED <<driver, error, start, fleet, client, state, post, server, got, ended, faults>>

(* Silent for NODE_SILENCE_TIMEOUT_SECONDS: the head is asked to delete the *)
(* machine, and until it has answered the node counts as FAILED.            *)
GiveUp(n) ==
    /\ Driving /\ task[n] = "assign" /\ post[n] = "cut" /\ vm[n] = "gone"
    /\ state' = [state EXCEPT ![n] = "FAILED"]
    /\ task' = [task EXCEPT ![n] = "failing"]
    /\ UNCHANGED <<driver, error, start, fleet, client, post, server, got, ended, faults>>

GivenUp(n) ==
    /\ Driving /\ task[n] = "failing" /\ Drop(n)
    /\ UNCHANGED <<driver, error, start, nodes, first, through, client, post, server, got, ended, faults>>

-----------------------------------------------------------------------------
(* Chunks and results.                                                      *)

(* MUTANT: every node has a list of its own. *)
OwnList(n) == n

(* Booting nodes share one list when no node was ready at the start. *)
KeyOf(n) == IF first = {} /\ n \notin Late THEN Shared ELSE n

(* As many of its inputs as the size of a request allows, at least one. *)
PopChunk(n) ==
    /\ Driving /\ task[n] = "chunk" /\ lists[KeyOf(n)] # {}
    /\ \E c \in (SUBSET lists[KeyOf(n)]) \ {{}} :
         /\ chunk' = [chunk EXCEPT ![n] = c]
         /\ lists' = [lists EXCEPT ![KeyOf(n)] = @ \ c]
    /\ task' = [task EXCEPT ![n] = "upload"]
    /\ UNCHANGED <<driver, error, start, fleet, pass, state, post, server, got, ended, faults>>

AfterUpload(n) == IF n \in first \ through THEN "barrier" ELSE "poll"

NothingToUpload(n) ==
    /\ Driving /\ task[n] = "chunk" /\ lists[KeyOf(n)] = {}
    /\ task' = [task EXCEPT ![n] = AfterUpload(n)]
    /\ UNCHANGED <<driver, error, start, fleet, client, state, post, server, got, ended, faults>>

Uploaded(n) ==
    /\ Driving /\ task[n] = "upload" /\ vm[n] = "working"
    /\ held' = [held EXCEPT ![n] = @ \cup chunk[n]]
    /\ chunk' = [chunk EXCEPT ![n] = {}]
    /\ task' = [task EXCEPT ![n] = AfterUpload(n)]
    /\ UNCHANGED <<driver, error, start, fleet, lists, pass, state, post, vm, linked, results, got, ended, faults>>

(* The node is off the job, or not there: the retries end in an exception. *)
UploadFails(n) ==
    /\ Driving /\ task[n] = "upload" /\ vm[n] \in {"left", "gone"} /\ TaskRaises(n)
    /\ UNCHANGED <<driver, error, start, fleet, client, state, post, server, got, ended, faults>>

(* The barrier of the first chunk: it opens when all ready nodes are at it, *)
(* and lets each one pass when one of them dropped out.                     *)
BarrierOpens ==
    /\ Driving /\ first # {} /\ \A n \in first : task[n] = "barrier"
    /\ task' = [n \in Nodes |-> IF n \in first THEN "poll" ELSE task[n]]
    /\ through' = first
    /\ UNCHANGED <<driver, error, start, nodes, first, broken, client, state, post, server, got, ended, faults>>

BarrierBroken(n) ==
    /\ Driving /\ task[n] = "barrier" /\ broken
    /\ task' = [task EXCEPT ![n] = "poll"]
    /\ through' = through \cup {n}
    /\ UNCHANGED <<driver, error, start, nodes, first, broken, client, state, post, server, got, ended, faults>>

Poll(n) ==
    /\ Driving /\ task[n] = "poll" /\ vm[n] = "working"
    /\ got' = got \cup results[n]
    /\ results' = [results EXCEPT ![n] = {}]
    /\ task' = [task EXCEPT ![n] = "chunk"]
    /\ UNCHANGED <<driver, error, start, fleet, client, state, post, vm, linked, held, ended, faults>>

(* 404: the node has left the job, or was deleted after it. *)
PollDone(n) ==
    /\ Driving /\ task[n] = "poll" /\ vm[n] = "left"
    /\ state' = [state EXCEPT ![n] = "DONE"]
    /\ task' = [task EXCEPT ![n] = "returned"]
    /\ UNCHANGED <<driver, error, start, fleet, client, post, server, got, ended, faults>>

(* Silent for RESULT_POLL_SILENCE_TIMEOUT_SECONDS, unless the head knows    *)
(* that the job was ended.                                                  *)
PollFails(n) ==
    /\ Driving /\ task[n] = "poll" /\ vm[n] = "gone"
    /\ state' = IF ended THEN state ELSE [state EXCEPT ![n] = "FAILED"]
    /\ TaskRaises(n)
    /\ UNCHANGED <<driver, error, start, fleet, client, post, server, got, ended, faults>>

-----------------------------------------------------------------------------
(* The nodes on the job.                                                    *)

Run(n, i) ==
    /\ vm[n] = "working" /\ i \in held[n]
    /\ held' = [held EXCEPT ![n] = @ \ {i}]
    /\ results' = [results EXCEPT ![n] = @ \cup {i}]
    /\ UNCHANGED <<driver, error, start, fleet, client, link, vm, linked, got, ended, faults>>

(* Half of what a neighbour has queued goes to an idle node. *)
Steal(n, m, i) ==
    /\ vm[n] = "working" /\ vm[m] = "working" /\ n # m
    /\ held[n] = {} /\ i \in held[m] /\ Cardinality(held[m]) > 1
    /\ held' = [held EXCEPT ![n] = {i}, ![m] = @ \ {i}]
    /\ UNCHANGED <<driver, error, start, fleet, client, link, vm, linked, results, got, ended, faults>>

(* Its neighbours had nothing for EMPTY_NEIGHBOR_TIMEOUT_SEC. *)
LeavesDrained(n) ==
    /\ vm[n] = "working" /\ held[n] = {} /\ results[n] = {} /\ got # {}
    /\ \A m \in Nodes : held[m] = {} /\ chunk[m] = {}
    /\ \A k \in DOMAIN lists : lists[k] # {} =>
         SlowAssign /\ \A m \in ToSet(nodes) : 
              KeyOf(m) = k => task[m] = "assign" /\ post[m] = "accepted"
    /\ \E m \in Nodes \ {n} : vm[m] = "working"
    /\ vm' = [vm EXCEPT ![n] = "left"]
    /\ UNCHANGED <<driver, error, start, fleet, client, link, linked, held, results, got, ended, faults>>

VmLost(n) ==
    /\ \/ vm[n] = "working" /\ Fault("lost")
       \/ vm[n] \in {"ready", "arriving", "loading"} /\ Fault("lostEarly")
    /\ vm' = [vm EXCEPT ![n] = "gone"]
    /\ post' = IF linked[n] THEN [post EXCEPT ![n] = "cut"] ELSE post
    /\ linked' = [linked EXCEPT ![n] = FALSE]
    /\ UNCHANGED <<driver, error, start, fleet, client, state, task, held, results, got, ended>>

(* Somebody restarts the cluster: the job is marked and every VM deleted. *)
Restart ==
    /\ Driving /\ ~ended /\ Fault("restart")
    /\ ended' = TRUE
    /\ vm' = [n \in Nodes |-> IF vm[n] \in {"none", "failed", "hung", "stopping"} THEN vm[n] ELSE "gone"]
    /\ post' = [n \in Nodes |-> IF linked[n] THEN "cut" ELSE post[n]]
    /\ linked' = [n \in Nodes |-> FALSE]
    /\ UNCHANGED <<driver, error, start, fleet, client, state, task, held, results, got>>

-----------------------------------------------------------------------------
(* The loop of the driver: sleep, look at the tasks, tell the head and the  *)
(* heartbeat process what is new, count.  Only what it awaits on the way    *)
(* lets the rest of the program run in between.                             *)

Count == Cardinality(got)

FailedTasks == {n \in ToSet(nodes) : task[n] = "raised" \/ state[n] = "FAILED"}

(* booting_nodes of the first answer. *)
BootingNodes == ToSet(nodes) \ (first \cup Late)

BootsFailed ==
    /\ BootingNodes # {} /\ \A n \in BootingNodes : state[n] = "FAILED"
    /\ \A n \in ToSet(nodes) : state[n] \in {"FAILED", "REMOVED", "BOOTING"}

(* Ctrl-C: the handler cancels the job on the head, unless it may go on     *)
(* without its client.                                                      *)
Interrupt ==
    /\ driver \in {"starting", "waiting", "driving", "passing", "closing"}
    /\ signal = "none" /\ Fault("interrupt")
    /\ signal' = IF Background /\ done THEN "detach" ELSE "cancel"
    /\ UNCHANGED <<driver, error, start, fleet, lists, chunk, done, told, link, server,
                   got, ended>>

(* What an interrupted call tells its caller once its loop has ended. *)
Quit ==
    IF Background /\ done THEN driver' = "detached" /\ UNCHANGED error
    ELSE Raise("JobCanceled", Shared)

Leave ==
    /\ driver = "driving" /\ signal # "none" /\ Quit
    /\ UNCHANGED <<start, fleet, client, link, server, got, ended, faults>>

(* The handler runs in another thread: a pass that looked for the signal    *)
(* before it came goes on.                                                  *)
Scans == driver = "driving"

(* No node of the first answer came up and none works: one error for all *)
(* of them, whatever became of replacements.                             *)
NodesFailedToBoot ==
    /\ Scans /\ BootsFailed
    /\ Raise("NodesFailedToBoot", Shared)
    /\ UNCHANGED <<start, fleet, client, link, server, got, ended, faults>>

(* Who can take over the list of a removed node; the first of them does. *)
Recipients(n) == {m \in ToSet(nodes) : OnJob(m) /\ KeyOf(m) # KeyOf(n)}

Leftover(n) == Listed(n) /\ Removed(n) /\ lists[KeyOf(n)] # {}

HandOver(n) ==
    /\ Scans /\ ~BootsFailed /\ Leftover(n)
    /\ \E i \in DOMAIN nodes :
         /\ nodes[i] \in Recipients(n)
         /\ \A j \in 1..(i - 1) : nodes[j] \notin Recipients(n)
         /\ lists' = [lists EXCEPT ![KeyOf(nodes[i])] = @ \cup lists[KeyOf(n)],
                                   ![KeyOf(n)] = {}]
    /\ UNCHANGED <<driver, error, start, fleet, chunk, pass, link, server, got, ended, faults>>

(* One failed node fails the call, unless the head says what ended the job; *)
(* whether all results have come since they were counted is not asked.      *)
NodeFailed(n) ==
    /\ Scans /\ ~BootsFailed /\ n \in FailedTasks
    /\ Raise(CASE ended -> "ended"
               [] ~ended /\ state[n] = "BOOTING" -> "HeadUnreachable"
               [] OTHER -> IF post[n] = "401" THEN "Unauthorized" ELSE "NodeDisconnected", n)
    /\ UNCHANGED <<start, fleet, client, link, server, got, ended, faults>>

(* Nothing was found that ends the call or has to be handed over. *)
Scanned ==
    /\ Scans /\ ~BootsFailed /\ FailedTasks = {}
    /\ \A n \in Nodes : Leftover(n) => Recipients(n) = {}

(* input_lists: every list that some task may pop from. *)
InputLists == {Shared} \cup ToSet(nodes)

AllPopped == \A k \in InputLists : lists[k] = {}

(* Every list is empty: the event is set, and the pass awaits the head. *)
Passes ==
    /\ Scanned /\ AllPopped /\ ~done
    /\ driver' = "passing" /\ done' = TRUE
    /\ UNCHANGED <<error, start, fleet, lists, chunk, told, signal, link, server, got, ended,
                   faults>>

SetUploaded ==
    /\ driver = "passing" /\ ~told /\ told' = TRUE
    /\ UNCHANGED <<driver, error, start, fleet, lists, chunk, done, signal, link, server,
                   got, ended, faults>>

(* One request, not repeated: it or its answer is lost. *)
PatchFails ==
    /\ driver = "passing" /\ ~told /\ Fault("patch")
    /\ Raise("HeadUnreachable", Shared)
    /\ told' \in BOOLEAN
    /\ UNCHANGED <<start, fleet, lists, chunk, done, signal, link, server, got, ended>>

(* The rest of a pass, which may have had nothing to await. *)
Counts ==
    \/ driver = "passing" /\ told
    \/ Scanned /\ (AllPopped => done)

(* The heartbeat process ended by itself. *)
PingDies ==
    /\ Counts /\ Fault("ping")
    /\ Raise("HeartbeatFailed", Shared)
    /\ UNCHANGED <<start, fleet, client, link, server, got, ended>>

AllTasksDone == \A n \in ToSet(nodes) : TaskDone(n)

(* A pass that starts a heartbeat process for new hosts awaits it, after the *)
(* scan: a task may have failed by now.                                      *)
Stalled ==
    /\ Counts \/ (Scans /\ (AllPopped => done))
    /\ Count < NInputs /\ AllTasksDone
    /\ Raise("JobStalled", Shared)
    /\ UNCHANGED <<start, fleet, client, link, server, got, ended, faults>>

AllResults ==
    /\ Counts /\ Count = NInputs /\ driver' = "closing"
    /\ UNCHANGED <<error, start, fleet, client, link, server, got, ended, faults>>

PassEnds ==
    /\ driver = "passing" /\ Counts /\ Count < NInputs /\ ~AllTasksDone
    /\ driver' = "driving"
    /\ UNCHANGED <<error, start, fleet, client, link, server, got, ended, faults>>

(* client_has_all_results, in twelve attempts. *)
Close ==
    /\ driver = "closing"
    /\ IF signal = "none" THEN driver' = "returned" /\ UNCHANGED error ELSE Quit
    /\ UNCHANGED <<start, fleet, client, link, server, got, ended, faults>>

CloseFails ==
    /\ driver = "closing" /\ Fault("close")
    /\ Raise("HeadUnreachable", Shared)
    /\ UNCHANGED <<start, fleet, client, link, server, got, ended>>

Over == driver \in {"returned", "raised", "detached"}
Rests == Over /\ UNCHANGED vars

-----------------------------------------------------------------------------
TaskStep(n) ==
    \/ SeesReady(n) \/ SeesFailed(n) \/ SeesGone(n) \/ BootDeadline(n)
    \/ SendAssign(n) \/ AssignOK(n) \/ AssignRefused(n)
    \/ AssignUnauthorized(n) \/ GiveUp(n) \/ GivenUp(n)
    \/ PopChunk(n) \/ NothingToUpload(n) \/ Uploaded(n) \/ UploadFails(n)
    \/ BarrierBroken(n) \/ Poll(n) \/ PollDone(n) \/ PollFails(n)

ServerStep(n) ==
    \/ VmBoots(n) \/ Accept(n) \/ Refuse(n) \/ BodyArrived(n) \/ Assigned(n)
    \/ Rebooted(n) \/ TakeBack(n) \/ \E i \in Inputs : Run(n, i)

DriverStep ==
    \/ \E p \in Plans : StartAnswered(p)
    \/ StartBusy \/ WaitOver \/ BarrierOpens
    \/ \E n \in Nodes : HandOver(n) \/ NodeFailed(n) \/ Discover(n)
    \/ Leave \/ NodesFailedToBoot \/ Passes \/ SetUploaded \/ Stalled \/ AllResults
    \/ PassEnds \/ Close

FaultStep ==
    \/ \E p \in Plans : StartLost(p)
    \/ StartRefused \/ NoneCameUp \/ OthersCome \/ OthersGo \/ Restart
    \/ Interrupt \/ PatchFails \/ PingDies \/ CloseFails
    \/ \E n \in Nodes :
         \/ VmFailsToBoot(n) \/ StatusLost(n) \/ NotAdmitted(n) \/ GatewayError(n)
         \/ GatewayRetry(n) \/ NoWorkers(n) \/ LoadFails(n) \/ Cut(n)
         \/ Stops(n) \/ VmLost(n) \/ HeadBootsReplacement(n) \/ LeavesDrained(n)
         \/ \E m \in Nodes, i \in Inputs : Steal(n, m, i)

Next == DriverStep \/ FaultStep \/ Rests \/ \E n \in Nodes : TaskStep(n) \/ ServerStep(n)

Spec == Init /\ [][Next]_vars

(* Tasks, nodes and the driver take their steps, and a node that never      *)
(* replies is given up; faults, thefts, other jobs and replacements happen  *)
(* or not.                                                                  *)
FairSpec ==
    /\ Spec /\ WF_vars(DriverStep)
    /\ \A n \in Nodes : WF_vars(TaskStep(n)) /\ WF_vars(ServerStep(n)) /\ SF_vars(GiveUp(n))

-----------------------------------------------------------------------------
(* Properties.                                                              *)

(* Every variable has its type (_remote_parallel_map.py, _node.py). *)
TypeOK ==
    /\ driver \in {"starting", "waiting", "driving", "passing", "closing", "returned", "raised",
                   "detached"}
    /\ error.node \in Nodes \cup {Shared}
    /\ tries \in 0..1 /\ {broken, done, told, ended} \subseteq BOOLEAN
    /\ busy \in {"no", "running", "booting"} /\ signal \in {"none", "cancel", "detach"}
    /\ nodes \in Seq(Nodes) /\ IsInjective(nodes)
    /\ first \subseteq ToSet(nodes) /\ through \subseteq first
    /\ lists \in [Nodes \cup {Shared} -> SUBSET Inputs]
    /\ chunk \in [Nodes -> SUBSET Inputs] /\ got \subseteq Inputs
    /\ held \in [Nodes -> SUBSET Inputs] /\ results \in [Nodes -> SUBSET Inputs]
    /\ state \in [Nodes -> {"none", "BOOTING", "READY", "RUNNING", "REMOVED", "FAILED", "DONE"}]
    /\ task \in [Nodes -> {"none", "boot", "assign", "failing", "chunk", "upload",
                            "barrier", "poll", "returned", "raised"}]
    /\ post \in [Nodes -> {"none", "sent", "accepted", "200", "401", "409", "500", "502",
                            "503", "cut"}]
    /\ vm \in [Nodes -> {"none", "booting", "failed", "hung", "ready", "arriving", "loading",
                          "working", "left", "rebooting", "stopping", "gone"}]
    /\ linked \in [Nodes -> BOOLEAN] /\ faults \in 0..MaxFaults

(* Some task will still move input i, or the driver is about to act on the  *)
(* node it is with.                                                         *)
Minded(n) == task[n] # "returned" \/ state[n] = "FAILED"

Tended(i) ==
    \/ i \in got
    \/ \E n \in ToSet(nodes) :
         /\ i \in lists[KeyOf(n)] \cup chunk[n] \cup held[n] \cup results[n]
         /\ Minded(n) \/ (i \in lists[KeyOf(n)] /\ Removed(n))

(* While the call runs every input is somewhere a task of the client or its *)
(* loop still looks: it is neither left in the list of a node that is done  *)
(* nor run by a node the client no longer polls (the hand-over in           *)
(* _execute_job, execute_job).                                              *)
NoInputStranded == Driving => \A i \in Inputs : Tended(i)

(* A node the client dropped is not at work on the job: "dropping one loses *)
(* nothing" (_node.py, _assign_job).                                        *)
DroppedHoldsNothing ==
    \A n \in Nodes : Removed(n) => vm[n] \notin {"loading", "working"}

(* A botched assignment does not fail a call other nodes can run: a call    *)
(* stalls only when no node is on the job, and a disconnected node is one   *)
(* that was promised and never came up for it, or that was lost with the    *)
(* job on it.                                                               *)
AssignmentFailureSurvived ==
    /\ error.kind = "JobStalled" => \A n \in Nodes : vm[n] # "working"
    /\ error.kind = "NodeDisconnected" =>
         \/ vm[error.node] \in {"failed", "hung"}
         \/ vm[error.node] \in {"stopping", "gone"} /\ post[error.node] = "none"
         \/ vm[error.node] = "gone" /\ post[error.node] = "200"

(* A replacement booted in the middle of the job that fails to boot or to   *)
(* take the job does not fail the call (late_join).                         *)
ReplacementFailureSurvived ==
    error.kind = "NodeDisconnected" /\ error.node \in Late => post[error.node] = "200"

(* A caller that detached leaves its call to the cluster: the head knows    *)
(* that all inputs are uploaded, and each one is with a node, or in a chunk *)
(* that was on its way ("This job will continue running on the cluster",    *)
(* _helpers.py).                                                            *)
DetachedKept ==
    driver = "detached" =>
        /\ told
        /\ \A i \in Inputs : i \in got \/ \E n \in Nodes : i \in chunk[n] \cup held[n] \cup results[n]

(* The same without the chunks on their way, which nobody sends any more.    *)
(* No run checks it: the code breaks it (see the README).                   *)
DetachLosesNothing ==
    driver = "detached" => \A n \in Nodes : chunk[n] = {}

(* A call that says it is detached has not been canceled on the head.        *)
(* No run checks it: the event may be set after the handler has looked at it *)
(* (see the README).                                                         *)
DetachedRuns == driver = "detached" => signal = "detach"

(* "All results are already in hand" (_remote_parallel_map.py:694): then the *)
(* call returns.  No run checks it (see the README).                        *)
ResultsInHandReturn == driver = "raised" => Count < NInputs

(* Booting nodes deleted by a restart are not reported as nodes that failed *)
(* to boot: each one that is reported failed by itself or had come up by    *)
(* then (_update_status asks the head when a booting node has no record).   *)
RestartNotMisreported ==
    error.kind = "NodesFailedToBoot" =>
        /\ BootingNodes # {}
        /\ \A n \in BootingNodes :
             vm[n] \in {"failed", "hung", "stopping"} \/ post[n] # "none"

(* The call returns or raises. *)
CallEnds == <>Over

(* Every input of a call is in somebody's care: no list of a departed node, no
   dropped node and no caller that detached leaves one behind. *)
InputsTended == TypeOK /\ NoInputStranded /\ DroppedHoldsNothing /\ DetachedKept

(* The call survives what it is written to survive, and says the right thing of
   what it does not: refused assignments, replacements that fail, a restart of the
   cluster while nodes boot. *)
FailuresContained ==
    AssignmentFailureSurvived /\ ReplacementFailureSurvived /\ RestartNotMisreported
=============================================================================
