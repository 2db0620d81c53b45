---------------------------- MODULE ClusterState ----------------------------
(* Who owns a node: the head's live state (cluster_state.py), the endpoints that
   change it (start_job in endpoints/client.py, push_node_state in
   endpoints/nodes.py), its SQLite mirror and a head restart, together with the
   node's side of an assignment (on_job_start, watch_reservation, reinit_node,
   _state_push_loop in node_service) and the client's POST /jobs/{id}.

   A node sends one push at a time (_push_lock) and learns the head's view from
   the response; either can get lost.  Machine types, hosts, container images,
   slot counts and timestamps are left out: a node is "fresh" or not. *)
EXTENDS Integers, Sequences, FiniteSets

CONSTANTS
    Nodes,        \* instance names; they are never reused
    Jobs,
    Attempts,     \* the requests a client may send for one start_job call, in order
    Starts,       \* the situations the model starts from: which nodes are warm and
                  \* which names are free for growth, the jobs to come with the
                  \* requests for each, the losses and restarts already spent
    MaxLosses,    \* bound on lost pushes, lost POST answers, silent periods and
                  \* reservations that run out before the assignment arrives
    MaxRestarts,  \* bound on head crashes
    NoJob,
    Keep          \* a field the body of a push does not have

ASSUME MaxLossesAssumption == MaxLosses \in Nat
ASSUME MaxRestartsAssumption == MaxRestarts \in Nat
ASSUME StartsAssumption ==
    Starts \subseteq [warm : SUBSET Nodes, free : SUBSET Nodes, jobs : SUBSET Jobs,
                     attempts : SUBSET Attempts, losses : 0..MaxLosses,
                     restarts : 0..MaxRestarts]
ASSUME AttemptsAssumption == Attempts \subseteq Nat
ASSUME NoJobAssumption == NoJob \notin Jobs
ASSUME KeepAssumption ==
    /\ Keep \notin Jobs \cup {NoJob}
    /\ Keep \notin {"BOOTING", "READY", "RUNNING", "FAILED", "DELETED"}

VARIABLES
    headUp,     \* the head process runs
    nodes,      \* NODES: status, current_job, reserved_for_job, job_scope_id
    fresh,      \* node_is_fresh: it pushed within NODE_FRESHNESS_SEC
    jobs,       \* JOBS[job]["status"]
    given,      \* JOBS[job]["_start_response"]: the nodes the client was told of
    toBoot,     \* the planned nodes _start_nodes has not recorded yet
    watched,    \* the nodes a Node.start still waits for
    paused,     \* _job_admission_paused
    doomed,     \* background tasks that will delete a VM
    suspects,   \* the snapshot node_reaper_loop took before its await
    hist,       \* the nodes table of the history db
    histJobs,   \* the jobs table: status and _start_response
    request,    \* per job and attempt: where start_job stands
    chosen,     \* per job and attempt: the ready nodes and the planned ones
    vm,         \* per node: "none", "up", "gone"
    self,       \* per node: reported_status, current_job, reserved_for_job, phase,
                \* and whether watch_reservation waits to clear the reservation
    todo,       \* per node: pushes waiting for _push_lock
    wire,       \* per node: the push in flight, at most one
    reply,      \* per node: the response in flight, at most one
    client,     \* per job and node: what the client knows of its assignment
    losses, restarts

headVars == <<headUp, nodes, fresh, jobs, given, toBoot, watched, paused, doomed, suspects>>
histVars == <<hist, histJobs>>
startVars == <<request, chosen>>
nodeVars == <<vm, self, todo>>
netVars == <<wire, reply>>
boundVars == <<losses, restarts>>
vars == <<headVars, histVars, startVars, nodeVars, netVars, client, boundVars>>

LiveStatuses == {"BOOTING", "READY", "RUNNING"}
Absent == [status |-> "absent", cur |-> NoJob, res |-> NoJob, scope |-> NoJob]
Nothing == [ready |-> {}, planned |-> {}]

(* A job with no row in the jobs table, and one that is over. *)
NoRow == [status |-> "none", given |-> {}]
PastJob == [status |-> "COMPLETED", given |-> {}]

(* A cluster of warm nodes and jobs to come; nodes and jobs of the past have left
   their rows in the history. *)
StartFrom(s) ==
    /\ headUp = TRUE
    /\ nodes = [n \in Nodes |-> IF n \in s.warm THEN [Absent EXCEPT !.status = "READY"]
                                ELSE Absent]
    /\ fresh = [n \in Nodes |-> n \in s.warm]
    /\ histJobs = [j \in Jobs |-> IF j \in s.jobs THEN NoRow ELSE PastJob]
    /\ jobs = [j \in Jobs |-> histJobs[j].status]
    /\ given = [j \in Jobs |-> {}]
    /\ toBoot = {}
    /\ watched = {}
    /\ paused = FALSE
    /\ doomed = {}
    /\ suspects = {}
    /\ hist = [n \in Nodes |-> IF n \in s.warm \cup s.free THEN nodes[n]
                               ELSE [Absent EXCEPT !.status = "DELETED"]]
    /\ request = [j \in Jobs |-> [a \in Attempts |->
                     IF j \in s.jobs /\ a \in s.attempts THEN "new" ELSE "answered"]]
    /\ chosen = [j \in Jobs |-> [a \in Attempts |-> Nothing]]
    /\ vm = [n \in Nodes |-> IF n \in s.warm THEN "up"
                             ELSE IF n \in s.free THEN "none" ELSE "gone"]
    /\ self = [n \in Nodes |-> [status |-> IF n \in s.warm THEN "READY" ELSE "BOOTING",
                                cur |-> NoJob, res |-> NoJob, void |-> FALSE,
                                phase |-> IF n \in s.warm THEN "idle" ELSE "rebooting"]]
    /\ todo = [n \in Nodes |-> <<>>]
    /\ wire = [n \in Nodes |-> {}]
    /\ reply = [n \in Nodes |-> {}]
    /\ client = [j \in Jobs |-> [n \in Nodes |-> "unasked"]]
    /\ losses = s.losses
    /\ restarts = s.restarts

Init == \E s \in Starts : StartFrom(s)

-----------------------------------------------------------------------------
(* cluster_state.update_node, and the history row it writes. *)

(* Live statuses never overwrite DELETED or FAILED; DELETED never overwrites FAILED. *)
MergedStatus(old, new) ==
    IF \/ new = Keep
       \/ old \in {"DELETED", "FAILED"} /\ new \in LiveStatuses
       \/ old = "FAILED" /\ new = "DELETED"
    THEN old
    ELSE new

(* MUTANT: fields missing from the body are written all the same. *)
MergedFieldRaw(old, new) == new

MergedField(old, new) == IF new = Keep THEN old ELSE new

(* A name the head does not know starts from an empty record. *)
MergedNode(n, status, cur, res) ==
    [nodes[n] EXCEPT !.status = MergedStatus(@, status),
                     !.cur = MergedField(@, cur),
                     !.res = MergedField(@, res)]

(* MUTANT: reserved_for_job is missing from durable_fields. *)
DurableForgetsReservation(n, status, cur, res) ==
    MergedStatus(nodes[n].status, status) # nodes[n].status \/ cur # Keep

(* durable_changed: the status changed, or the update names a durable field. *)
DurableChanged(n, status, cur, res) ==
    \/ MergedStatus(nodes[n].status, status) # nodes[n].status
    \/ cur # Keep
    \/ res # Keep

-----------------------------------------------------------------------------
(* start_job: select, (verify and plan), admit. *)

(* The filter of _select_ready_nodes_from_state. *)
Selectable(n) ==
    /\ nodes[n].status = "READY"
    /\ nodes[n].cur = NoJob /\ nodes[n].res = NoJob /\ nodes[n].scope = NoJob
    /\ fresh[n]

(* Names plan_grow_nodes has not drawn yet (uuid4: never drawn twice). *)
FreeNames == {n \in Nodes : /\ vm[n] = "none"
                            /\ \A j \in Jobs, a \in Attempts : n \notin chosen[j][a].planned}

(* The plan: one node, or none when the ready ones suffice or no name is left (the
   grow budget is exhausted: the job may be admitted with no node at all).  Names are
   interchangeable, so any will do. *)
Plans(ready) ==
    IF FreeNames = {} THEN {{}}
    ELSE {{CHOOSE n \in FreeNames : TRUE}} \cup (IF ready # {} THEN {{}} ELSE {})

(* A new job id: selection, then the plan of nodes to grow; the check that nodes
   reach the head is awaited in between.  A retry follows the request it repeats. *)
SelectNodes(j, a) ==
    /\ headUp /\ ~paused
    /\ request[j][a] = "new"
    /\ jobs[j] = "none"
    /\ \A b \in Attempts : b < a => request[j][b] # "new"
    /\ \E ready \in SUBSET {n \in Nodes : Selectable(n)} : \E planned \in Plans(ready) :
           chosen' = [chosen EXCEPT ![j][a] = [ready |-> ready, planned |-> planned]]
    /\ request' = [request EXCEPT ![j][a] = "selected"]
    /\ UNCHANGED <<headVars, histVars, nodeVars, netVars, client, boundVars>>

(* MUTANT: admit_job does not look the job up first. *)
NeverReplayed(j) == FALSE

(* The job exists already: the recorded response is returned, and what this request
   selected and planned is forgotten. *)
Replayed(j) == jobs[j] # "none"

ReplayStart(j, a) ==
    /\ headUp
    /\ request[j][a] \in {"new", "selected"} /\ Replayed(j)
    /\ request' = [request EXCEPT ![j][a] = "answered"]
    /\ chosen' = [chosen EXCEPT ![j][a] = Nothing]
    /\ UNCHANGED <<headVars, histVars, nodeVars, netVars, client, boundVars>>

(* MUTANT: the check that no other request reserved the nodes is dropped. *)
AdmissibleStale(j, a) == ~paused

(* MUTANT: admission ignores a pause. *)
AdmissibleWhilePaused(j, a) == \A n \in chosen[j][a].ready : Selectable(n)

(* The nodes are still free, and admission is not paused. *)
Admissible(j, a) ==
    /\ ~paused
    /\ \A n \in chosen[j][a].ready : Selectable(n)

(* admit_job: reserve the ready nodes and create the job, in one transaction. *)
AdmitJob(j, a) ==
    LET reserved == [n \in Nodes |-> IF n \in chosen[j][a].ready
                                     THEN [nodes[n] EXCEPT !.res = j] ELSE nodes[n]]
        response == chosen[j][a].ready \cup chosen[j][a].planned
    IN  /\ headUp
        /\ request[j][a] = "selected" /\ ~Replayed(j)
        /\ Admissible(j, a)
        /\ nodes' = reserved
        /\ hist' = [n \in Nodes |-> IF n \in chosen[j][a].ready THEN reserved[n] ELSE hist[n]]
        /\ jobs' = [jobs EXCEPT ![j] = "RUNNING"]
        /\ given' = [given EXCEPT ![j] = response]
        /\ histJobs' = [histJobs EXCEPT ![j] = [status |-> "RUNNING", given |-> response]]
        /\ toBoot' = toBoot \cup (chosen[j][a].planned \X {j})
        /\ request' = [request EXCEPT ![j][a] = "answered"]
        /\ UNCHANGED <<headUp, fresh, watched, paused, doomed, suspects, chosen, nodeVars,
                       netVars, client, boundVars>>

(* 503 nodes_busy: someone was faster. *)
RefuseStart(j, a) ==
    /\ headUp
    /\ request[j][a] = "selected" /\ ~Replayed(j)
    /\ ~Admissible(j, a)
    /\ request' = [request EXCEPT ![j][a] = "new"]
    /\ chosen' = [chosen EXCEPT ![j][a] = Nothing]
    /\ UNCHANGED <<headVars, histVars, nodeVars, netVars, client, boundVars>>

(* pause_job_admission_if_idle and resume_job_admission. *)
PauseAdmission ==
    /\ headUp /\ ~paused
    /\ \A j \in Jobs : jobs[j] # "RUNNING"
    /\ paused' = TRUE
    /\ UNCHANGED <<headUp, nodes, fresh, jobs, given, toBoot, watched, doomed, suspects,
                   histVars, startVars, nodeVars, netVars, client, boundVars>>

ResumeAdmission ==
    /\ headUp /\ paused
    /\ paused' = FALSE
    /\ UNCHANGED <<headUp, nodes, fresh, jobs, given, toBoot, watched, doomed, suspects,
                   histVars, startVars, nodeVars, netVars, client, boundVars>>

-----------------------------------------------------------------------------
(* The other writers of the head's state. *)

Call(kind) == [kind |-> kind, job |-> NoJob]
Queued(n, kind) == [todo EXCEPT ![n] = Append(@, Call(kind))]

(* provider.delete_instance: whatever the VM sends or waits for is gone, too. *)
KillVm(n) ==
    /\ vm' = [vm EXCEPT ![n] = "gone"]
    /\ wire' = [wire EXCEPT ![n] = {}]
    /\ reply' = [reply EXCEPT ![n] = {}]

(* Node.start: the record appears as BOOTING, reserved for its job and scoped to
   it; the VM comes up and its node service boots the containers. *)
StartNode(n, j) ==
    LET booting == [status |-> MergedStatus(nodes[n].status, "BOOTING"),
                    cur |-> NoJob, res |-> j, scope |-> j]
    IN  /\ headUp /\ <<n, j>> \in toBoot
        /\ toBoot' = toBoot \ {<<n, j>>}
        /\ watched' = watched \cup {n}
        /\ nodes' = [nodes EXCEPT ![n] = booting]
        /\ hist' = [hist EXCEPT ![n] = booting]
        /\ vm' = [vm EXCEPT ![n] = "up"]
        /\ self' = [self EXCEPT ![n].res = j]
        /\ todo' = Queued(n, "reboot")
        /\ UNCHANGED <<headUp, fresh, jobs, given, paused, doomed, suspects, histJobs,
                       startVars, netVars, client, boundVars>>

(* Node.start gives up: the VM could not be created, failed or took too long.  A
   node somebody deleted meanwhile is left alone. *)
BootFails(n) ==
    LET failed == MergedNode(n, "FAILED", Keep, Keep)
    IN  /\ headUp /\ n \in watched
        /\ self[n].status \in {"BOOTING", "FAILED"} /\ nodes[n].status # "DELETED"
        /\ watched' = watched \ {n}
        /\ nodes' = [nodes EXCEPT ![n] = failed]
        /\ hist' = [hist EXCEPT ![n] = failed]
        /\ KillVm(n)
        /\ UNCHANGED <<headUp, fresh, jobs, given, toBoot, paused, doomed, suspects,
                       histJobs, startVars, self, todo, client, boundVars>>

(* MUTANT: an ended job keeps its reservations. *)
ReleasesNothing(j) == [n \in Nodes |-> nodes[n]]

(* A terminal job releases every node still reserved for it. *)
Released(j) ==
    [n \in Nodes |-> IF nodes[n].res = j THEN [nodes[n] EXCEPT !.res = NoJob] ELSE nodes[n]]

(* MUTANT: a late COMPLETED overwrites a failure or a cancellation. *)
AlwaysApplies(j, status) == status

(* COMPLETED only applies while the job is RUNNING; FAILED always does. *)
AppliedStatus(j, status) ==
    IF status = "COMPLETED" /\ jobs[j] # "RUNNING" THEN jobs[j] ELSE status

(* update_job with a terminal status: from the client, a node, the dashboard, the
   reaper, or the cascade of an ended parent.  "FAILED" stands for FAILED and
   CANCELED, which update_job treats alike here. *)
EndJob(j, status) ==
    /\ headUp /\ jobs[j] # "none"
    /\ jobs' = [jobs EXCEPT ![j] = AppliedStatus(j, status)]
    /\ histJobs' = [histJobs EXCEPT ![j].status = AppliedStatus(j, status)]
    /\ nodes' = Released(j)
    /\ hist' = [n \in Nodes |-> IF nodes[n].res = j THEN Released(j)[n] ELSE hist[n]]
    /\ UNCHANGED <<headUp, fresh, given, toBoot, watched, paused, doomed, suspects,
                   startVars, nodeVars, netVars, client, boundVars>>

(* fail_cluster_node: a client that cannot reach a node has it failed, under a record
   that is made if the head has none. *)
FailNode(n, j) ==
    LET failed == MergedNode(n, "FAILED", Keep, Keep)
    IN  /\ headUp /\ losses < MaxLosses
        /\ n \in given[j] /\ client[j][n] # "removed"
        /\ losses' = losses + 1
        /\ nodes' = [nodes EXCEPT ![n] = failed]
        /\ hist' = [hist EXCEPT ![n] = failed]
        /\ doomed' = doomed \cup {n}
        /\ client' = [client EXCEPT ![j][n] = "removed"]
        /\ UNCHANGED <<headUp, fresh, jobs, given, toBoot, watched, paused, suspects, histJobs,
                       startVars, nodeVars, netVars, restarts>>

(* Node.delete in a background task: DELETED (a FAILED node stays FAILED), and the
   VM goes. *)
DeleteNode(n) ==
    LET dead == MergedNode(n, "DELETED", Keep, Keep)
    IN  /\ headUp /\ n \in doomed
        /\ doomed' = doomed \ {n}
        /\ nodes' = [nodes EXCEPT ![n] = dead]
        /\ hist' = [hist EXCEPT ![n] = dead]
        /\ KillVm(n)
        /\ UNCHANGED <<headUp, fresh, jobs, given, toBoot, watched, paused, suspects,
                       histJobs, startVars, self, todo, client, boundVars>>

(* Nothing heard of a node for a while: its VM is gone, or the network is bad. *)
GoStale(n) ==
    /\ headUp /\ fresh[n]
    /\ IF vm[n] = "up" THEN losses < MaxLosses /\ losses' = losses + 1
                       ELSE UNCHANGED losses
    /\ fresh' = [fresh EXCEPT ![n] = FALSE]
    /\ UNCHANGED <<headUp, nodes, jobs, given, toBoot, watched, paused, doomed, suspects,
                   histVars, startVars, nodeVars, netVars, client, restarts>>

(* node_reaper_loop: the snapshot of nodes that are silent or boot for too long ... *)
SuspectNode(n) ==
    /\ headUp /\ n \notin suspects
    /\ nodes[n].status = "BOOTING" \/ (nodes[n].status \in {"READY", "RUNNING"} /\ ~fresh[n])
    /\ suspects' = suspects \cup {n}
    /\ UNCHANGED <<headUp, nodes, fresh, jobs, given, toBoot, watched, paused, doomed,
                   histVars, startVars, nodeVars, netVars, client, boundVars>>

(* ... and, after the awaited provider calls, the verdict. *)
ReapNode(n) ==
    LET dead == MergedNode(n, "DELETED", Keep, Keep)
    IN  /\ headUp /\ n \in suspects
        /\ suspects' = suspects \ {n}
        /\ nodes' = [nodes EXCEPT ![n] = dead]
        /\ hist' = [hist EXCEPT ![n] = dead]
        /\ KillVm(n)
        /\ UNCHANGED <<headUp, fresh, jobs, given, toBoot, watched, paused, doomed, histJobs,
                       startVars, self, todo, client, boundVars>>

(* The head dies with everything it holds in memory. *)
CrashHead ==
    /\ headUp /\ restarts < MaxRestarts
    /\ restarts' = restarts + 1
    /\ headUp' = FALSE
    /\ nodes' = [n \in Nodes |-> Absent]
    /\ fresh' = [n \in Nodes |-> FALSE]
    /\ jobs' = [j \in Jobs |-> "none"]
    /\ given' = [j \in Jobs |-> {}]
    /\ toBoot' = {} /\ watched' = {} /\ paused' = FALSE /\ doomed' = {} /\ suspects' = {}
    /\ request' = [j \in Jobs |-> [a \in Attempts |->
                       IF request[j][a] = "selected" THEN "new" ELSE request[j][a]]]
    /\ UNCHANGED <<histVars, chosen, nodeVars, netVars, client, losses>>

(* load_from_history: every node but the deleted ones; jobs are loaded on demand
   when they are not RUNNING, which reads the same. *)
RestartHead ==
    /\ ~headUp
    /\ headUp' = TRUE
    /\ nodes' = [n \in Nodes |-> IF hist[n].status = "DELETED" THEN Absent ELSE hist[n]]
    /\ jobs' = [j \in Jobs |-> histJobs[j].status]
    /\ given' = [j \in Jobs |-> histJobs[j].given]
    /\ UNCHANGED <<fresh, toBoot, watched, paused, doomed, suspects, histVars, startVars,
                   nodeVars, netVars, client, boundVars>>

-----------------------------------------------------------------------------
(* The node: pushes. *)

Awake(n) == vm[n] = "up"
LockFree(n) == wire[n] = {} /\ reply[n] = {}

(* The body of a push, composed once the lock is held: the status is the one
   reported now, the fields are those of the call. *)
Body(n, push) ==
    [kind |-> push.kind, job |-> push.job,
     status |-> IF push.kind = "expire" THEN Keep ELSE self[n].status,
     cur |-> CASE push.kind = "start" -> push.job
               [] push.kind \in {"reinit", "again", "rollback", "refuse", "reboot"} -> NoJob
               [] OTHER -> Keep,
     res |-> IF push.kind \in {"start", "reinit", "again", "rollback", "expire"}
             THEN NoJob ELSE Keep]

(* _state_push_loop: once a second, the status only. *)
LoopPush(n) ==
    /\ Awake(n) /\ LockFree(n) /\ self[n].phase # "closing"
    /\ wire' = [wire EXCEPT ![n] = {Body(n, Call("loop"))}]
    /\ UNCHANGED <<headVars, histVars, startVars, nodeVars, reply, client, boundVars>>

(* A push of a transition point gets the lock. *)
SendPush(n) ==
    /\ Awake(n) /\ LockFree(n) /\ todo[n] # <<>>
    /\ wire' = [wire EXCEPT ![n] = {Body(n, Head(todo[n]))}]
    /\ todo' = [todo EXCEPT ![n] = Tail(@)]
    /\ UNCHANGED <<headVars, histVars, startVars, vm, self, reply, client, boundVars>>

(* MUTANT: nothing ends a scope. *)
ScopeNeverFinished(node) == FALSE

(* The push of watch_reservation gets the lock. *)
SendExpire(n) ==
    /\ Awake(n) /\ LockFree(n) /\ self[n].void
    /\ wire' = [wire EXCEPT ![n] = {Body(n, Call("expire"))}]
    /\ self' = [self EXCEPT ![n].void = FALSE]
    /\ UNCHANGED <<headVars, histVars, startVars, vm, todo, reply, client, boundVars>>

(* push_node_state: a node of a scope goes once its job or its assignment is over. *)
ScopeFinished(node) ==
    /\ node.scope # NoJob /\ node.status \in LiveStatuses
    /\ jobs[node.scope] # "RUNNING" \/ (node.cur = NoJob /\ node.res = NoJob)

HandlePush(n) ==
    \E b \in wire[n] :
        LET merged == MergedNode(n, b.status, b.cur, b.res)
            over == ScopeFinished(merged)
            after == IF over THEN [merged EXCEPT !.status = "DELETED"] ELSE merged
        IN  /\ headUp
            /\ nodes' = [nodes EXCEPT ![n] = after]
            /\ hist' = IF over \/ DurableChanged(n, b.status, b.cur, b.res)
                       THEN [hist EXCEPT ![n] = after] ELSE hist
            /\ fresh' = [fresh EXCEPT ![n] = TRUE]
            /\ doomed' = IF over THEN doomed \cup {n} ELSE doomed
            /\ wire' = [wire EXCEPT ![n] = {}]
            /\ reply' = [reply EXCEPT ![n] = {[kind |-> b.kind, job |-> b.job,
                                               status |-> after.status, res |-> after.res]}]
            /\ UNCHANGED <<headUp, jobs, given, toBoot, watched, paused, suspects, histJobs,
                           startVars, nodeVars, client, boundVars>>

(* The node after the head's answer.  The loop adopts a new reservation while no job
   runs, which cancels the watch on the old one; a reboot goes on unless the head
   calls the node terminal. *)
AfterView(n, r) ==
    CASE r.kind = "loop" /\ self[n].cur = NoJob /\ r.res # self[n].res ->
             [self[n] EXCEPT !.res = r.res, !.void = FALSE]
      [] r.kind = "reboot" /\ r.status \notin {"DELETED", "FAILED"} ->
             [self[n] EXCEPT !.cur = NoJob, !.phase = "booting"]
      [] OTHER -> self[n]

(* The loop obeys a DELETED; a node that failed or was idle asks for its VM to be
   deleted once its last push is in. *)
ReceiveView(n) ==
    \E r \in reply[n] :
        /\ Awake(n)
        /\ reply' = [reply EXCEPT ![n] = {}]
        /\ vm' = IF r.kind \in {"bye", "failed"} \/ (r.kind = "loop" /\ r.status = "DELETED")
                 THEN [vm EXCEPT ![n] = "gone"] ELSE vm
        /\ self' = [self EXCEPT ![n] = AfterView(n, r)]
        /\ UNCHANGED <<headVars, histVars, startVars, todo, wire, client, boundVars>>

(* What an exception out of push_state does to its caller: job_watcher_logged
   resets the workers and reports once more; a boot fails; an answered 500 reboots
   the containers; handle_errors and watch_reservation have nobody behind them. *)
AfterFailedPush(n, b) ==
    /\ self' = CASE b.kind = "start" /\ self[n].phase = "assigning" ->
                        [self EXCEPT ![n].phase = "unannounced"]
                 [] b.kind \in {"ready", "reboot"} ->
                        [self EXCEPT ![n].status = "FAILED", ![n].phase = "failed"]
                 [] b.kind = "refuse" ->
                        [self EXCEPT ![n].status = "BOOTING", ![n].phase = "rebooting"]
                 [] OTHER -> self
    /\ todo' = CASE b.kind = "reinit" -> Queued(n, "again")
                 [] b.kind \in {"ready", "reboot"} -> Queued(n, "failed")
                 [] b.kind = "refuse" -> Queued(n, "reboot")
                 [] OTHER -> todo
    /\ vm' = IF b.kind = "bye" THEN [vm EXCEPT ![n] = "gone"] ELSE vm

(* The head is down, or the request or its response is lost. *)
LosePush(n) ==
    \E b \in wire[n] \cup reply[n] :
        /\ Awake(n)
        /\ IF headUp THEN losses < MaxLosses /\ losses' = losses + 1
                     ELSE UNCHANGED losses
        /\ AfterFailedPush(n, b)
        /\ wire' = [wire EXCEPT ![n] = {}]
        /\ reply' = [reply EXCEPT ![n] = {}]
        /\ UNCHANGED <<headVars, histVars, startVars, client, restarts>>

-----------------------------------------------------------------------------
(* The node: a job comes and goes. *)

(* reboot_containers: the workers are up. *)
FinishBoot(n) ==
    /\ Awake(n) /\ self[n].phase = "booting"
    /\ self' = [self EXCEPT ![n].status = "READY", ![n].phase = "idle"]
    /\ todo' = Queued(n, "ready")
    /\ UNCHANGED <<headVars, histVars, startVars, vm, netVars, client, boundVars>>

(* CallHookOnJobStartMiddleware takes any job while the node is neither running,
   booting nor shutting down. *)
Accepts(n) == self[n].phase = "idle" /\ self[n].status = "READY"

(* The client knows the node: it was told of it, and waited until it had booted. *)
Addressable(j, n) ==
    /\ n \in histJobs[j].given
    /\ nodes[n].status # "BOOTING" \/ \E a \in Attempts : n \in chosen[j][a].ready
    /\ Awake(n) /\ client[j][n] = "unasked"

(* The client's POST /jobs/{id} reaches a free node: on_job_start.  The watch on
   the reservation is canceled, with the push it may be waiting to send. *)
AssignJob(j, n) ==
    /\ Addressable(j, n) /\ Accepts(n)
    /\ client' = [client EXCEPT ![j][n] = "asked"]
    /\ self' = [self EXCEPT ![n] = [status |-> "RUNNING", cur |-> j, res |-> NoJob,
                                    void |-> FALSE, phase |-> "assigning"]]
    /\ todo' = [todo EXCEPT ![n] = Append(@, [kind |-> "start", job |-> j])]
    /\ UNCHANGED <<headVars, histVars, startVars, vm, netVars, boundVars>>

(* 409 or 503: the client removes the node from its job. *)
RefuseJob(j, n) ==
    /\ Addressable(j, n) /\ ~Accepts(n)
    /\ client' = [client EXCEPT ![j][n] = "removed"]
    /\ UNCHANGED <<headVars, histVars, startVars, nodeVars, netVars, boundVars>>

(* execute answers 200 and the job watcher starts; lost: the client asks again. *)
ExecuteJob(n) ==
    LET j == self[n].cur
    IN  /\ Awake(n) /\ self[n].phase \in {"assigning", "unannounced"}
        /\ self' = [self EXCEPT ![n].phase = "running"]
        /\ \/ client' = [client EXCEPT ![j][n] = "running"] /\ UNCHANGED losses
           \/ /\ losses < MaxLosses /\ losses' = losses + 1
              /\ client' = [client EXCEPT ![j][n] = "unasked"]
        /\ UNCHANGED <<headVars, histVars, startVars, vm, todo, netVars, restarts>>

StartPushPending(n) ==
    \/ \E b \in wire[n] \cup reply[n] : b.kind = "start"
    \/ \E i \in DOMAIN todo[n] : todo[n][i].kind = "start"

(* execute finds no compatible worker: back to READY once the RUNNING push is in. *)
NoCompatibleWorker(n) ==
    /\ Awake(n) /\ self[n].phase = "assigning" /\ ~StartPushPending(n)
    /\ client' = [client EXCEPT ![self[n].cur][n] = "removed"]
    /\ self' = [self EXCEPT ![n] = [@ EXCEPT !.status = "READY", !.cur = NoJob,
                                             !.phase = "idle"]]
    /\ todo' = Queued(n, "refuse")
    /\ UNCHANGED <<headVars, histVars, startVars, vm, netVars, boundVars>>

(* handle_errors: the client disconnected while uploading its function.  The node
   goes back to READY, unless the RUNNING push had failed: then the await raises
   and the node stays as it is, with no watcher. *)
DisconnectMidAssign(n) ==
    /\ losses < MaxLosses /\ losses' = losses + 1
    /\ Awake(n) /\ self[n].phase \in {"assigning", "unannounced"}
    /\ ~StartPushPending(n)
    /\ client' = [client EXCEPT ![self[n].cur][n] = "unasked"]
    /\ IF self[n].phase = "assigning"
       THEN /\ self' = [self EXCEPT ![n] = [@ EXCEPT !.status = "READY", !.cur = NoJob,
                                                     !.phase = "idle"]]
            /\ todo' = Queued(n, "rollback")
       ELSE /\ self' = [self EXCEPT ![n].phase = "wedged"]
            /\ UNCHANGED todo
    /\ UNCHANGED <<headVars, histVars, startVars, vm, netVars, restarts>>

(* The job watcher is done with the job, for whatever reason: reset_workers, which
   ends in reinit_node ... *)
LeaveJob(n) ==
    /\ Awake(n) /\ self[n].phase = "running"
    /\ self' = [self EXCEPT ![n] = [status |-> "READY", cur |-> NoJob, res |-> NoJob,
                                    void |-> FALSE, phase |-> "idle"]]
    /\ todo' = Queued(n, "reinit")
    /\ UNCHANGED <<headVars, histVars, startVars, vm, netVars, client, boundVars>>

(* ... or in reboot_containers, when workers were lost or do not reset. *)
LeaveJobByReboot(n) ==
    /\ Awake(n) /\ self[n].phase = "running"
    /\ self' = [self EXCEPT ![n].status = "BOOTING", ![n].phase = "rebooting"]
    /\ todo' = Queued(n, "reboot")
    /\ UNCHANGED <<headVars, histVars, startVars, vm, netVars, client, boundVars>>

(* watch_reservation gives the reservation up: the job is over, or its client was
   too slow. *)
ExpireReservation(n) ==
    /\ headUp /\ Awake(n) /\ self[n].phase = "idle" /\ self[n].status = "READY"
    /\ self[n].res # NoJob
    /\ \/ jobs[self[n].res] # "RUNNING" /\ UNCHANGED losses
       \/ losses < MaxLosses /\ losses' = losses + 1
    /\ self' = [self EXCEPT ![n].res = NoJob, ![n].void = TRUE]
    /\ UNCHANGED <<headVars, histVars, startVars, vm, todo, netVars, client, restarts>>

(* No request is open and every push of a transition point has ended. *)
Settled(n) == todo[n] = <<>> /\ ~self[n].void /\ \A b \in wire[n] \cup reply[n] : b.kind = "loop"

(* shutdown_if_idle_for_too_long: minutes after the last request. *)
ShutDownIdle(n) ==
    /\ Awake(n) /\ self[n].phase = "idle" /\ self[n].status = "READY" /\ Settled(n)
    /\ self[n].cur = NoJob /\ self[n].res = NoJob
    /\ self' = [self EXCEPT ![n].status = "DELETED", ![n].phase = "closing"]
    /\ todo' = Queued(n, "bye")
    /\ UNCHANGED <<headVars, histVars, startVars, vm, netVars, client, boundVars>>

-----------------------------------------------------------------------------
StartStep == \E j \in Jobs, a \in Attempts :
    \/ SelectNodes(j, a) \/ ReplayStart(j, a) \/ AdmitJob(j, a) \/ RefuseStart(j, a)

HeadStep ==
    \/ PauseAdmission \/ ResumeAdmission \/ CrashHead \/ RestartHead
    \/ \E n \in Nodes, j \in Jobs : StartNode(n, j) \/ FailNode(n, j)
    \/ \E j \in Jobs, status \in {"COMPLETED", "FAILED"} : EndJob(j, status)
    \/ \E n \in Nodes : BootFails(n) \/ DeleteNode(n) \/ GoStale(n) \/ SuspectNode(n) \/ ReapNode(n)

PushStep(n) ==
    LoopPush(n) \/ SendPush(n) \/ SendExpire(n) \/ HandlePush(n) \/ ReceiveView(n) \/ LosePush(n)

JobStep(n) ==
    \/ FinishBoot(n) \/ ExecuteJob(n) \/ NoCompatibleWorker(n) \/ DisconnectMidAssign(n)
    \/ LeaveJob(n) \/ LeaveJobByReboot(n) \/ ExpireReservation(n) \/ ShutDownIdle(n)
    \/ \E j \in Jobs : AssignJob(j, n) \/ RefuseJob(j, n)

Next ==
    \/ StartStep
    \/ HeadStep
    \/ \E n \in Nodes : PushStep(n) \/ JobStep(n)

Spec == Init /\ [][Next]_vars

(* Node.start's loop sees that the node it waits for is FAILED in the head's records. *)
GiveUpBoot(n) == BootFails(n) /\ nodes[n].status = "FAILED"

(* A head that died is restarted and serves requests, its background tasks run, a
   node pushes every second.  Node.start asks every second about
   the boot it waits for, and gives up once the head's record is FAILED.  _push_lock is a
   FIFO lock, so a waiting push is not overtaken by the loop for ever. *)
Fairness ==
    /\ WF_vars(RestartHead)
    /\ \A n \in Nodes :
           /\ WF_vars(HandlePush(n)) /\ WF_vars(ReceiveView(n))
           /\ WF_vars(LoopPush(n)) /\ SF_vars(SendPush(n))
           /\ WF_vars(DeleteNode(n)) /\ WF_vars(GiveUpBoot(n))

FairSpec == Spec /\ Fairness

-----------------------------------------------------------------------------
Statuses == {"absent", "FAILED", "DELETED"} \cup LiveStatuses
JobIds == Jobs \cup {NoJob}
NodeRecord == [status : Statuses, cur : JobIds, res : JobIds, scope : JobIds]
JobStatuses == {"none", "RUNNING", "COMPLETED", "FAILED"}
Kinds == {"loop", "start", "reinit", "again", "rollback", "refuse", "expire", "ready",
          "reboot", "failed", "bye"}
Phases == {"idle", "assigning", "unannounced", "running", "wedged", "rebooting",
           "booting", "failed", "closing"}
SelfRecord == [status : Statuses, cur : JobIds, res : JobIds, void : BOOLEAN,
               phase : Phases]
Calls == [kind : Kinds, job : JobIds]
Bodies == [kind : Kinds, job : JobIds, status : Statuses \cup {Keep},
           cur : JobIds \cup {Keep}, res : JobIds \cup {Keep}]
Views == [kind : Kinds, job : JobIds, status : Statuses, res : JobIds]

HeadTypes ==
    /\ headUp \in BOOLEAN /\ paused \in BOOLEAN
    /\ nodes \in [Nodes -> NodeRecord]
    /\ fresh \in [Nodes -> BOOLEAN]
    /\ jobs \in [Jobs -> JobStatuses]
    /\ given \in [Jobs -> SUBSET Nodes]
    /\ toBoot \subseteq Nodes \X Jobs
    /\ watched \subseteq Nodes /\ doomed \subseteq Nodes /\ suspects \subseteq Nodes

HistTypes ==
    /\ hist \in [Nodes -> NodeRecord]
    /\ histJobs \in [Jobs -> [status : JobStatuses, given : SUBSET Nodes]]

StartTypes ==
    /\ request \in [Jobs -> [Attempts -> {"new", "selected", "answered"}]]
    /\ chosen \in [Jobs -> [Attempts -> [ready : SUBSET Nodes, planned : SUBSET Nodes]]]

NodeTypes ==
    /\ vm \in [Nodes -> {"none", "up", "gone"}]
    /\ self \in [Nodes -> SelfRecord]
    /\ todo \in [Nodes -> Seq(Calls)]

NetTypes ==
    /\ wire \in [Nodes -> SUBSET Bodies]
    /\ reply \in [Nodes -> SUBSET Views]

ClientTypes ==
    /\ client \in [Jobs -> [Nodes -> {"unasked", "asked", "running", "removed"}]]
    /\ losses \in 0..MaxLosses /\ restarts \in 0..MaxRestarts

(* Type correctness: in particular no field that a push left out is ever stored. *)
TypeOK ==
    HeadTypes /\ HistTypes /\ StartTypes /\ NodeTypes /\ NetTypes /\ ClientTypes

(* The restarted head reads back what the head knew: every durable write of
   update_node, admit_job and update_job reached the history db; only tombstones
   of an earlier head are not read back. *)
HistoryInStep ==
    headUp => /\ \A n \in Nodes :
                    hist[n] = nodes[n] \/ (nodes[n] = Absent /\ hist[n].status = "DELETED")
              /\ \A j \in Jobs : histJobs[j] = [status |-> jobs[j], given |-> given[j]]

(* A node that was booted for a job is that job's alone: neither the head nor the
   node itself ever takes another job for it, and no other job's client is told
   of it, across lost pushes, retried requests and restarts of the head. *)
GrownForOneJob ==
    \A n \in Nodes, j \in Jobs : nodes[n].scope = j =>
        /\ {nodes[n].res, nodes[n].cur, self[n].res, self[n].cur} \subseteq {NoJob, j}
        /\ \A k \in Jobs \ {j} : n \notin given[k]

(* A reservation is given up before another job gets the node: of two requests
   that selected the same node, the slower one does not take it over. *)
ReservationsHold ==
    [][\A n \in Nodes : nodes[n].res # NoJob
                            => nodes'[n].res \in {nodes[n].res, NoJob}]_vars

(* What the head does keep of "no two jobs take the same node" (REQUIREMENTS.md R13). *)
NodesPromisedOnce == []GrownForOneJob /\ ReservationsHold

(* No two jobs take the same node: while a node works for one running job, the
   head promises it to no other.  No run checks it: with three jobs, or a client
   that disconnects, it breaks (see the README). *)
NodeNotPromisedTwice ==
    \A n \in Nodes, j, k \in Jobs :
        /\ Awake(n) /\ self[n].cur = j /\ jobs[j] = "RUNNING"
        /\ nodes[n].res = k /\ jobs[k] = "RUNNING"
        => j = k

(* A retried start_job reserves and boots nothing beyond the one response its
   client acts on, also when the head restarts in between. *)
ReservedAsAnswered ==
    headUp => \A n \in Nodes, j \in Jobs :
        j \in {nodes[n].res, nodes[n].scope} => n \in given[j]

(* Only a running job keeps a warm node reserved: a job that ends in any way, in
   any order with pushes and restarts, gives its nodes back. *)
EndedJobsHoldNothing ==
    \A n \in Nodes : nodes[n].scope = NoJob /\ nodes[n].res # NoJob
                         => jobs[nodes[n].res] = "RUNNING"

(* `burla deploy` snapshots the history while no job runs or is admitted. *)
PausedMeansIdle == paused => \A j \in Jobs : jobs[j] # "RUNNING"

(* A recorded failure or cancellation is final, also across restarts: a node that
   reports completion late does not turn the job into a success. *)
FailureSticks ==
    [][\A j \in Jobs : histJobs[j].status = "FAILED" => histJobs'[j].status = "FAILED"]_vars

(* DELETED nodes stay tombstones: no late push brings one back to life. *)
NoResurrection ==
    [][\A n \in Nodes : hist[n].status = "DELETED" => hist'[n].status \notin LiveStatuses]_vars

(* A client drops no node that runs its job, unless it had the head fail it: it
   would stop collecting that node's results.
   No run checks it: one lost message breaks it (see the README). *)
NoRunningNodeRemoved ==
    \A n \in Nodes, j \in Jobs :
        /\ Awake(n) /\ self[n].phase = "running" /\ self[n].cur = j
        /\ nodes[n].status # "FAILED"
        => client[j][n] # "removed"

(* Every VM booted for a job is deleted when the job ends (REQUIREMENTS.md R7),
   also one that Node.start only records after that. *)
ScopedVmGone ==
    \A n \in Nodes :
        (/\ vm[n] = "up"
         /\ \E j \in Jobs : nodes[n].scope = j /\ jobs[j] \in {"COMPLETED", "FAILED"})
            ~> (vm[n] = "gone")

(* The nodes booted for a job come and go as the head's record of them says. *)
HeadFollowsNodes == NoResurrection /\ ScopedVmGone
=============================================================================
