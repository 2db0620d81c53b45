------------------------------- MODULE VmFleet -------------------------------
(* The life of a node's VM, from Node.start to the delete that ends its bill.
   Three parties decide about it without a common view: the head (the threads of
   Node.start, deletes in the background, cluster restarts and shutdowns, two
   reapers), the VM itself (startup script, node service, its watchdogs) and the
   cloud.  Which node gets which job is ClusterState's matter: here a node is
   busy or not. *)
EXTENDS Integers, FiniteSets

CONSTANTS
    Nodes,      \* names, each used for one VM, in the order they are made up
    Tasks,      \* requests to restart or to shut down the cluster
    Quantity,   \* nodes a restart boots
    Mixes       \* what a run may begin with, see MixesAssumption

Clouds == {"gcp", "gcpKeys", "aws", "azure", "azureLease"}
(* Bounded events: crash and gone (the head), script and boot (a node fails in
   it), reboot (of a node's containers), hang (a boot outlasts its timeout), silence
   (the pushes of a node that lives do not arrive for minutes), lost (a request of a
   node), api (a delete call that raises), service (the node service is killed), create
   (create_instance raises), slow (it takes a quarter of an hour), conflict (its insert was retried), spot (a
   preemption), person (someone stops a VM), ask (a delete of one node), grow (a
   node for a job), job (a node gets work). *)
Kinds == {"crash", "gone", "script", "boot", "reboot", "hang", "silence", "lost", "api", "service",
          "create", "slow", "conflict", "spot", "person", "ask", "grow", "job"}

ASSUME NodesAssumption == Nodes \subseteq Nat /\ IsFiniteSet(Nodes) /\ Quantity \in Nat
(* idles: the nodes have an idle timeout; plan: what each task does; may: how
   often each kind happens; late: the head goes only when every VM has booted. *)
ASSUME MixesAssumption ==
    \A mix \in Mixes :
        /\ mix.cloud \in Clouds /\ mix.idles \in BOOLEAN /\ mix.late \in BOOLEAN
        /\ mix.plan \in [Tasks -> {"none", "stop", "restart"}]
        /\ mix.may \in [Kinds -> Nat]

VARIABLES
    mix,       \* the run's surroundings
    head,      \* "up", "down" (it will be back) or "gone"
    rec,       \* the head's status of each node
    bare,      \* records made by a push alone, without region and boot time
    row,       \* the status in the nodes table of history.db
    hosted,    \* records that have host and addresses
    starter,   \* the thread of Node.start
    dels,      \* deletes in progress at the head: [node, by, step]
    task,      \* restarts and shutdowns: [at, took, mine]
    suspects,  \* what the node reaper found, and whether the VM existed
    reaper,    \* the node reaper's task is alive
    vm,        \* the cloud's view: "none", "on", "off", "gone"
    marked,    \* VMs whose guest attribute says that Burla wants them gone
    agent,     \* what runs in the VM
    busy,      \* nodes that work on a job
    may,       \* what is left of mix.may
    asked,     \* nodes somebody asked to delete (history variable)
    stopped,   \* VMs a person stopped (history variable)
    doubted    \* nodes that live and were given up, by others or by themselves (history variable)

recVars == <<rec, bare, row, hosted>>
headVars == <<head, recVars, starter, dels, task, suspects, reaper>>
nodeVars == <<vm, marked, agent, busy>>
histVars == <<asked, stopped, doubted>>
vars == <<mix, headVars, nodeVars, may, histVars>>

LiveStatuses == {"BOOTING", "READY"}
NoTask == [at |-> "new", took |-> {}, mine |-> {}]

Init ==
    /\ mix \in Mixes
    /\ head = "up" /\ reaper = TRUE
    /\ rec = [n \in Nodes |-> "absent"] /\ row = [n \in Nodes |-> "absent"]
    /\ bare = {} /\ hosted = {} /\ dels = {} /\ suspects = {}
    /\ starter = [n \in Nodes |-> "none"]
    /\ task = [t \in Tasks |-> NoTask]
    /\ vm = [n \in Nodes |-> "none"] /\ agent = [n \in Nodes |-> "none"]
    /\ marked = {} /\ busy = {}
    /\ may = mix.may
    /\ asked = {} /\ stopped = {} /\ doubted = {}

Up == head = "up"
Costs(kinds) ==
    /\ \A k \in kinds : may[k] > 0
    /\ may' = [k \in Kinds |-> IF k \in kinds THEN may[k] - 1 ELSE may[k]]
Spend(k) == Costs({k})
Lives(n) == vm[n] \in {"on", "off"}
Doubt(n) == doubted' = doubted \cup {n} /\ UNCHANGED <<asked, stopped>>

-----------------------------------------------------------------------------
(* cluster_state.update_node: see ClusterState for its rules and its fields. *)

Merged(old, new) ==
    IF \/ old \in {"DELETED", "FAILED"} /\ new \in LiveStatuses
       \/ old = "FAILED" /\ new = "DELETED"
    THEN old ELSE new

Update(names, status) ==
    /\ rec' = [n \in Nodes |-> IF n \in names THEN Merged(rec[n], status) ELSE rec[n]]
    /\ row' = [n \in Nodes |-> IF n \in names THEN Merged(rec[n], status) ELSE row[n]]

(* A push on a name the head does not know makes a record of what it carries. *)
Pushed(n, status) ==
    /\ Update({n}, status)
    /\ bare' = IF rec[n] = "absent" THEN bare \cup {n} ELSE bare
    /\ hosted' = IF rec[n] = "absent" THEN hosted \ {n} ELSE hosted

-----------------------------------------------------------------------------
(* Node.start, in a thread of the head. *)

Unused(n) == rec[n] = "absent" /\ row[n] = "absent" /\ vm[n] = "none" /\ starter[n] = "none"

(* New names are made up one after the other. *)
New(names) == /\ \A n \in names : Unused(n)
              /\ \A n \in names, m \in Nodes \ names : Unused(m) => n < m

Start(names) ==
    /\ New(names)
    /\ Update(names, "BOOTING")
    /\ starter' = [n \in Nodes |-> IF n \in names THEN "create" ELSE starter[n]]

GrowNode(n) ==
    /\ Up /\ Spend("grow")
    /\ Start({n})
    /\ UNCHANGED <<mix, head, bare, hosted, dels, task, suspects, reaper, nodeVars, histVars>>

StarterTo(n, step) == starter' = [starter EXCEPT ![n] = step]

(* create_instance: the cloud has the VM before the call returns its addresses,
   and the VM starts its script at once. *)
InsertVm(n) ==
    /\ starter[n] = "create"
    /\ StarterTo(n, "inserted")
    /\ vm' = [vm EXCEPT ![n] = "on"] /\ agent' = [agent EXCEPT ![n] = "script"]
    /\ UNCHANGED <<mix, head, recVars, dels, task, suspects, reaper, marked, busy, may,
                   histVars>>

(* It returns, and the record gets host and addresses. *)
CreateReturns(n) ==
    /\ starter[n] = "inserted"
    /\ StarterTo(n, "wait")
    /\ hosted' = hosted \cup {n}
    /\ UNCHANGED <<mix, head, rec, bare, row, dels, task, suspects, reaper, nodeVars, may, histVars>>

(* No capacity, no address, an API error: before or after the VM exists. *)
CreateRaises(n) ==
    /\ starter[n] \in {"create", "inserted"} /\ Spend("create")
    /\ StarterTo(n, "failing")
    /\ UNCHANGED <<mix, head, recVars, dels, task, suspects, reaper, nodeVars, histVars>>

(* GCP: an insert repeated after a transient error meets its own VM and is
   taken for a deletion (InstanceDeletedMidBoot): the thread ends. *)
InsertConflicts(n) ==
    /\ mix.cloud \in {"gcp", "gcpKeys"}
    /\ starter[n] = "inserted" /\ Spend("conflict")
    /\ StarterTo(n, "done")
    /\ UNCHANGED <<mix, head, recVars, dels, task, suspects, reaper, nodeVars, histVars>>

(* The loop that waits for READY, asking the node itself and the record. *)
StarterSeesReady(n) ==
    /\ starter[n] = "wait" /\ agent[n] = "ready" /\ vm[n] = "on"
    /\ StarterTo(n, "done")
    /\ UNCHANGED <<mix, head, recVars, dels, task, suspects, reaper, nodeVars, may, histVars>>

StarterSeesDeleted(n) ==
    /\ starter[n] = "wait" /\ rec[n] = "DELETED"
    /\ StarterTo(n, "done")
    /\ UNCHANGED <<mix, head, recVars, dels, task, suspects, reaper, nodeVars, may, histVars>>

(* A boot timeout comes sooner or later when nothing runs in the VM, and else
   only when the boot hangs. *)
BootTimesOut(n) ==
    IF agent[n] \in {"none", "dead"} THEN UNCHANGED <<may, histVars>>
    ELSE Spend("hang") /\ Doubt(n)

(* FAILED in the record, or NODE_BOOT_TIMEOUT (a node that is ready was seen). *)
StarterSeesFailure(n) ==
    /\ starter[n] = "wait" /\ rec[n] # "DELETED" /\ agent[n] # "ready"
    /\ IF rec[n] = "FAILED" THEN UNCHANGED <<may, histVars>> ELSE BootTimesOut(n)
    /\ StarterTo(n, "failing")
    /\ UNCHANGED <<mix, head, recVars, dels, task, suspects, reaper, nodeVars>>

(* MUTANT: the except clause leaves the VM to the reaper. *)
StarterFailsKeepsVm(n) ==
    /\ starter[n] = "failing"
    /\ StarterTo(n, "done")
    /\ Update({n}, "FAILED")
    /\ UNCHANGED <<mix, head, bare, hosted, dels, task, suspects, reaper, nodeVars, may, histVars>>

(* The except clause: FAILED, then delete(), whose DELETED no longer changes it. *)
StarterFails(n) ==
    /\ starter[n] = "failing"
    /\ StarterTo(n, "done")
    /\ Update({n}, "FAILED")
    /\ dels' = dels \cup {[node |-> n, by |-> "starter", step |-> "vm"]}
    /\ UNCHANGED <<mix, head, bare, hosted, task, suspects, reaper, nodeVars, may, histVars>>

-----------------------------------------------------------------------------
(* Deletes: node.delete (mark, then the VM), self_delete (the VM, then mark). *)

Gone(n) ==
    /\ vm' = [vm EXCEPT ![n] = IF @ = "none" THEN "none" ELSE "gone"]
    /\ agent' = [agent EXCEPT ![n] = "none"]
    /\ busy' = busy \ {n}
    /\ UNCHANGED marked

(* DELETE /v1/cluster/{node} of the dashboard: 404 unless the head knows it. *)
AskDelete(n) ==
    /\ Up /\ rec[n] \notin {"absent", "DELETED"} /\ Spend("ask")
    /\ dels' = dels \cup {[node |-> n, by |-> "ask", step |-> "mark"]}
    /\ asked' = asked \cup {n}
    /\ UNCHANGED <<mix, head, recVars, starter, task, suspects, reaper, nodeVars, stopped, doubted>>

(* POST .../fail of a client that gave the node up. *)
AskFail(n) ==
    /\ Up /\ rec[n] # "absent" /\ Spend("ask")
    /\ Update({n}, "FAILED")
    /\ dels' = dels \cup {[node |-> n, by |-> "ask", step |-> "vm"]}
    /\ asked' = asked \cup {n}
    /\ UNCHANGED <<mix, head, bare, hosted, starter, task, suspects, reaper, nodeVars, stopped, doubted>>

Mark(d) ==
    /\ d \in dels /\ d.step = "mark"
    /\ Update({d.node}, "DELETED")
    /\ dels' = (dels \ {d}) \cup {[d EXCEPT !.step = "vm"]}
    /\ UNCHANGED <<mix, head, bare, hosted, starter, task, suspects, reaper, nodeVars, may, histVars>>

(* provider.delete_instance: nothing happens when the cloud has no such VM yet. *)
DeleteVm(d) ==
    /\ d \in dels /\ d.step \in {"vm", "vmThenMark"}
    /\ dels' = dels \ {d}
    /\ Gone(d.node)
    /\ IF d.step = "vmThenMark" THEN Update({d.node}, "DELETED") ELSE UNCHANGED <<rec, row>>
    /\ UNCHANGED <<mix, head, bare, hosted, starter, task, suspects, reaper, may, histVars>>

(* The cloud's API refuses.  A restart or shutdown waits for every delete and
   then raises: it goes no further. *)
DeleteRaises(d) ==
    /\ d \in dels /\ d.step \in {"vm", "vmThenMark"} /\ Spend("api")
    /\ dels' = dels \ {d}
    /\ task' = IF d.by \in Tasks THEN [task EXCEPT ![d.by].at = "failed"] ELSE task
    /\ UNCHANGED <<mix, head, recVars, starter, suspects, reaper, nodeVars, histVars>>

-----------------------------------------------------------------------------
(* _shutdown_cluster and _restart_cluster. *)

Active == {n \in Nodes : rec[n] \in LiveStatuses}

BeginTask(t) ==
    /\ Up /\ mix.plan[t] # "none" /\ task[t].at = "new"
    /\ task' = [task EXCEPT ![t] = [NoTask EXCEPT !.at = "deleting", !.took = Active]]
    /\ dels' = dels \cup {[node |-> n, by |-> t, step |-> "mark"] : n \in Active}
    /\ asked' = asked \cup Active
    /\ UNCHANGED <<mix, head, recVars, starter, suspects, reaper, nodeVars, may, stopped,
                   doubted>>

Deleted(t) == task[t].at = "deleting" /\ \A d \in dels : d.by # t

(* FAILED tombstones are dropped; a restart then boots the configured nodes. *)
EndDeletes(t) ==
    /\ Deleted(t)
    /\ LET kept == [n \in Nodes |-> IF rec[n] = "FAILED" THEN "absent" ELSE rec[n]]
           boots == mix.plan[t] = "restart"
       IN  \E names \in SUBSET Nodes :
             /\ New(names) /\ Cardinality(names) = IF boots THEN Quantity ELSE 0
             /\ rec' = [n \in Nodes |-> IF n \in names THEN "BOOTING" ELSE kept[n]]
             /\ row' = [n \in Nodes |-> IF n \in names THEN "BOOTING" ELSE row[n]]
             /\ starter' = [n \in Nodes |-> IF n \in names THEN "create" ELSE starter[n]]
             /\ task' = [task EXCEPT ![t] = [@ EXCEPT !.at = IF boots THEN "booting" ELSE "done",
                                                     !.mine = names]]
    /\ UNCHANGED <<mix, head, bare, hosted, dels, suspects, reaper, nodeVars, may, histVars>>

TaskEnds(t) ==
    /\ task[t].at = "booting" /\ \A n \in task[t].mine : starter[n] = "done"
    /\ task' = [task EXCEPT ![t].at = "done"]
    /\ UNCHANGED <<mix, head, recVars, starter, dels, suspects, reaper, nodeVars, may,
                   histVars>>

-----------------------------------------------------------------------------
(* The reapers. *)

(* The state push loop runs beside everything the node service does, from its
   start to its decision to leave. *)
Pushing(n) == agent[n] \in {"boot", "install", "parked", "ready", "reboot", "halted", "wedged"}

(* READY without a push for REAPER_NODE_SILENCE_SEC: nobody pushes, or what is
   pushed does not arrive.  Its own node ends itself after three such minutes. *)
Silent(n) ==
    IF Pushing(n) THEN Spend("silence") /\ Doubt(n) ELSE UNCHANGED <<may, histVars>>

(* READY and silent, or BOOTING for too long: a node that is ready and whose
   pushes arrive is not, its record says so a second later. *)
Overdue(n) ==
    CASE rec[n] = "READY" -> Silent(n)
      [] rec[n] = "BOOTING" /\ starter[n] \in {"create", "inserted"} -> Spend("slow") /\ Doubt(n)
      [] rec[n] = "BOOTING" /\ starter[n] \notin {"create", "inserted"} ->
            agent[n] # "ready" /\ BootTimesOut(n)
      [] OTHER -> FALSE

(* The reaper asks the cloud which of the overdue nodes exist ... *)
Suspect(n) ==
    /\ Up /\ reaper /\ Overdue(n) /\ n \notin bare
    /\ \A s \in suspects : s.node # n
    /\ suspects' = suspects \cup {[node |-> n, existed |-> Lives(n)]}
    /\ UNCHANGED <<mix, head, recVars, starter, dels, task, reaper, nodeVars>>

(* ... deletes those that did, and marks them all. *)
Reap(s) ==
    /\ s \in suspects
    /\ suspects' = suspects \ {s}
    /\ IF s.existed THEN Gone(s.node) ELSE UNCHANGED nodeVars
    /\ Update({s.node}, "DELETED")
    /\ UNCHANGED <<mix, head, bare, hosted, starter, dels, task, reaper, may, histVars>>

(* A record without a boot time or a region: KeyError outside every try, at once for
   one that is BOOTING, and the task is over. *)
ReaperDies(n) ==
    /\ Up /\ reaper /\ n \in bare
    /\ \/ rec[n] = "BOOTING" /\ UNCHANGED <<may, histVars>>
       \/ rec[n] = "READY" /\ Silent(n)
    /\ reaper' = FALSE /\ suspects' = {}
    /\ UNCHANGED <<mix, head, recVars, starter, dels, task, nodeVars>>

(* delete_stopped_instances: on GCP what asked to be deleted, on AWS nothing, on
   Azure what stopped from inside (a person's stop deallocates). *)
Reapable(n) ==
    CASE mix.cloud \in {"gcp", "gcpKeys"} -> n \in marked
      [] mix.cloud = "aws" -> FALSE
      [] OTHER -> n \notin stopped

ReapStopped(n) ==
    /\ Up /\ vm[n] = "off" /\ Reapable(n)
    /\ Gone(n)
    /\ UNCHANGED <<mix, headVars, may, histVars>>

-----------------------------------------------------------------------------
(* The head process. *)

Dies(state) ==
    /\ head' = state
    /\ rec' = [n \in Nodes |-> "absent"]
    /\ starter' = [n \in Nodes |-> "none"]
    /\ dels' = {} /\ suspects' = {}
    /\ task' = [t \in Tasks |-> IF task[t].at = "new" THEN NoTask
                                ELSE [task[t] EXCEPT !.at = "failed"]]
    /\ UNCHANGED <<mix, bare, row, hosted, reaper, nodeVars, histVars>>

Crash == Up /\ Spend("crash") /\ Dies("down")

Booting(n) == agent[n] \in {"script", "boot", "install"} \/ starter[n] = "create"

Disappear ==
    /\ Up /\ Spend("gone")
    /\ mix.late => \A n \in Nodes : ~Booting(n)
    /\ Dies("gone")

(* load_from_history loads every row that is not DELETED. *)
Restart ==
    /\ head = "down"
    /\ head' = "up" /\ reaper' = TRUE
    /\ rec' = [n \in Nodes |-> IF row[n] = "DELETED" THEN "absent" ELSE row[n]]
    /\ UNCHANGED <<mix, bare, row, hosted, starter, dels, task, suspects, nodeVars, may, histVars>>

-----------------------------------------------------------------------------
(* In the VM: the startup script and the node service. *)

AgentTo(n, state) == agent' = [agent EXCEPT ![n] = state]

(* The certificate (409 unless the record has the addresses and is not DELETED),
   the source, the installation: each waits for the head with a bound, then the
   service starts. *)
Certifies(n) == n \in hosted /\ rec[n] \notin {"absent", "DELETED"}

ScriptDone(n) ==
    /\ Up /\ agent[n] = "script" /\ vm[n] = "on" /\ Certifies(n)
    /\ AgentTo(n, "boot")
    /\ UNCHANGED <<mix, headVars, vm, marked, busy, may, histVars>>

(* A failure is told to the head in two requests that are not repeated: a push
   of FAILED, then self_delete. *)
Requests == {"failed", "delete"}

Report(n, landed) ==
    /\ Up \/ landed = {}
    /\ IF "failed" \in landed THEN Pushed(n, "FAILED") ELSE UNCHANGED recVars
    /\ dels' = IF "delete" \in landed
               THEN dels \cup {[node |-> n, by |-> "self", step |-> "vmThenMark"]}
               ELSE dels

LossOf(landed) == IF Up /\ landed # Requests THEN {"lost"} ELSE {}

(* No certificate within 120 attempts. *)
Hopeless(n) == head = "gone" \/ (Up /\ ~Certifies(n) /\ starter[n] # "inserted")

(* handle_error, which ends the script and not the VM. *)
ScriptFails(n) ==
    /\ agent[n] = "script" /\ vm[n] = "on"
    /\ \E landed \in SUBSET Requests :
         /\ Report(n, landed)
         /\ Costs(LossOf(landed) \cup IF Hopeless(n) THEN {} ELSE {"script"})
    /\ AgentTo(n, "dead")
    /\ UNCHANGED <<mix, head, starter, task, suspects, reaper, vm, marked, busy, histVars>>

(* reboot_containers, first as part of the service's start and then after a job
   or a request; it begins with a push, and returns when the head says that the
   node is DELETED or FAILED. *)
FirstPush(n) ==
    /\ Up /\ agent[n] = "boot"
    /\ Pushed(n, "BOOTING")
    /\ AgentTo(n, IF rec'[n] = "BOOTING" THEN "install" ELSE "parked")
    /\ UNCHANGED <<mix, head, starter, dels, task, suspects, reaper, vm, marked, busy, may, histVars>>

BeginReboot(n) ==
    /\ Up /\ agent[n] = "ready" /\ n \notin busy /\ Spend("reboot")
    /\ Pushed(n, "BOOTING")
    /\ AgentTo(n, IF rec'[n] = "BOOTING" THEN "reboot" ELSE "halted")
    /\ UNCHANGED <<mix, head, starter, dels, task, suspects, reaper, vm, marked, busy, histVars>>

(* The workers run and the host is known: READY, and the head agrees. *)
BootDone(n) ==
    /\ Up /\ agent[n] \in {"install", "reboot"} /\ n \in hosted /\ rec[n] # "absent"
    /\ IF rec[n] \in {"DELETED", "FAILED"}
       THEN /\ AgentTo(n, IF agent[n] = "install" THEN "parked" ELSE "halted")
            /\ UNCHANGED recVars
       ELSE /\ AgentTo(n, "ready")
            /\ Pushed(n, "READY")
    /\ UNCHANGED <<mix, head, starter, dels, task, suspects, reaper, vm, marked, busy, may, histVars>>

(* A push that fails is an error too.  At the service's start it ends the
   service; later it leaves one that is BOOTING for good and reports FAILED. *)
BootFails(n) ==
    /\ agent[n] \in {"boot", "install", "reboot"}
    /\ \E landed \in {{}, {"failed"}, Requests} :
         /\ Report(n, landed)
         /\ Costs(LossOf(landed) \cup IF Up /\ agent[n] # "reboot" THEN {"boot"} ELSE {})
    /\ AgentTo(n, IF agent[n] = "reboot" THEN "wedged" ELSE "dead")
    /\ UNCHANGED <<mix, head, starter, task, suspects, reaper, vm, marked, busy, histVars>>

(* The state push loop.  DELETED in the answer makes the node leave. *)
Reported(n) ==
    CASE agent[n] = "ready" -> "READY" [] agent[n] = "wedged" -> "FAILED" [] OTHER -> "BOOTING"

Push(n) ==
    /\ Up /\ Pushing(n)
    /\ Pushed(n, Reported(n))
    /\ IF rec'[n] = "DELETED"
       THEN AgentTo(n, "leaving") /\ busy' = busy \ {n}
       ELSE UNCHANGED <<agent, busy>>
    /\ UNCHANGED <<mix, head, starter, dels, task, suspects, reaper, vm, marked, may, histVars>>

(* Three minutes of failing pushes: the head is gone, or lives and is not reached
   through the relay. *)
OrphanLeaves(n) ==
    /\ Pushing(n)
    /\ IF head = "gone" THEN UNCHANGED <<may, histVars>> ELSE Spend("silence") /\ Doubt(n)
    /\ AgentTo(n, "leaving") /\ busy' = busy \ {n}
    /\ UNCHANGED <<mix, headVars, vm, marked>>

(* shutdown_if_idle_for_too_long and shutdown_if_never_ready: one last push, of
   DELETED, then _shutdown_self. *)
LastPush(n) ==
    \/ Up /\ Pushed(n, "DELETED") /\ UNCHANGED may
    \/ (Up => may["lost"] > 0) /\ Costs(IF Up THEN {"lost"} ELSE {}) /\ UNCHANGED recVars

(* MUTANT: the idle watchdog looks at no job. *)
OccupiedNever(n) == FALSE

(* A job whose end nobody can tell does not count when the head is gone. *)
Occupied(n) == n \in busy /\ head # "gone"

IdleOut(n) ==
    /\ mix.idles /\ agent[n] \in {"parked", "ready", "halted"} /\ ~Occupied(n)
    /\ LastPush(n)
    /\ AgentTo(n, "leaving") /\ busy' = busy \ {n}
    /\ UNCHANGED <<mix, head, starter, dels, task, suspects, reaper, vm, marked, histVars>>

NeverReady(n) ==
    /\ agent[n] \in {"boot", "install", "parked"}
    /\ LastPush(n)
    /\ AgentTo(n, "leaving")
    /\ UNCHANGED <<mix, head, starter, dels, task, suspects, reaper, vm, marked, busy, histVars>>

(* MUTANT: the guest attribute is never written. *)
MarksNothing(n) == marked

(* The guest attribute, which only GCP has. *)
Marks(n) == IF mix.cloud \in {"gcp", "gcpKeys"} THEN marked \cup {n} ELSE marked

(* _shutdown_self: the head is asked first; who cannot reach it deletes itself
   with the keys the VM has.  Then the mark, and poweroff: a stop on GCP and
   Azure, a termination on AWS.  With a delete lease the VM stays on. *)
HasKeys == mix.cloud \in {"gcpKeys", "azure", "azureLease"}

PoweredOff == CASE mix.cloud = "aws" -> "gone" [] mix.cloud = "azureLease" -> "on" [] OTHER -> "off"

Leave(n) ==
    /\ agent[n] = "leaving"
    /\ AgentTo(n, "none")
    /\ \/ /\ Up /\ UNCHANGED may
          /\ dels' = dels \cup {[node |-> n, by |-> "self", step |-> "vmThenMark"]}
          /\ vm' = [vm EXCEPT ![n] = PoweredOff]
       \/ /\ Costs(IF Up THEN {"lost"} ELSE {})
          /\ UNCHANGED dels
          /\ vm' = [vm EXCEPT ![n] = IF HasKeys THEN "gone" ELSE PoweredOff]
    /\ marked' = Marks(n)
    /\ UNCHANGED <<mix, head, recVars, starter, task, suspects, reaper, busy, histVars>>

(* The lease daemon of a client-hosted Azure node deletes the VM when the lease
   runs out and the head cannot be reached; a head that can renews it. *)
LeaseRunsOut(n) ==
    /\ mix.cloud = "azureLease" /\ vm[n] = "on" /\ ~Up
    /\ Gone(n)
    /\ UNCHANGED <<mix, headVars, may, histVars>>

BeginJob(n) ==
    /\ Up /\ rec[n] = "READY" /\ agent[n] = "ready" /\ n \notin busy /\ Spend("job")
    /\ busy' = busy \cup {n}
    /\ UNCHANGED <<mix, headVars, vm, marked, agent, histVars>>

EndJob(n) ==
    /\ Up /\ n \in busy
    /\ busy' = busy \ {n}
    /\ UNCHANGED <<mix, headVars, vm, marked, agent, may, histVars>>

(* Nothing restarts the service's unit. *)
ServiceDies(n) ==
    /\ Pushing(n) /\ Spend("service")
    /\ AgentTo(n, "dead") /\ busy' = busy \ {n}
    /\ UNCHANGED <<mix, headVars, vm, marked, histVars>>

(* A VM that is halted from outside runs its shutdown hook: POST /shutdown, whose
   push says DELETED, and on GCP the mark. *)
Hook(n) ==
    IF Up /\ Pushing(n) /\ agent[n] # "wedged" THEN Pushed(n, "DELETED") ELSE UNCHANGED recVars

Preempt(n) ==
    /\ vm[n] = "on" /\ Spend("spot")
    /\ Hook(n)
    /\ Gone(n)
    /\ UNCHANGED <<mix, head, starter, dels, task, suspects, reaper, histVars>>

PersonStops(n) ==
    /\ vm[n] = "on" /\ Spend("person")
    /\ Hook(n)
    /\ vm' = [vm EXCEPT ![n] = "off"] /\ AgentTo(n, "none") /\ busy' = busy \ {n}
    /\ marked' = Marks(n)
    /\ stopped' = stopped \cup {n}
    /\ UNCHANGED <<mix, head, starter, dels, task, suspects, reaper, asked, doubted>>

-----------------------------------------------------------------------------
StarterStep(n) ==
    \/ InsertVm(n) \/ CreateReturns(n) \/ StarterSeesReady(n) \/ StarterSeesDeleted(n)
    \/ StarterSeesFailure(n) \/ StarterFails(n)

DeleteStep == \E d \in dels : Mark(d) \/ DeleteVm(d)

TaskStep(t) == EndDeletes(t) \/ TaskEnds(t)

ReaperStep == (\E n \in Nodes : Suspect(n) \/ ReaperDies(n)) \/ (\E s \in suspects : Reap(s))

NodeStep(n) ==
    \/ ScriptDone(n) \/ FirstPush(n) \/ BootDone(n) \/ Push(n) \/ OrphanLeaves(n)
    \/ IdleOut(n) \/ Leave(n) \/ LeaseRunsOut(n) \/ EndJob(n)

Mishap(n) ==
    \/ CreateRaises(n) \/ InsertConflicts(n) \/ ScriptFails(n) \/ BootFails(n) \/ ServiceDies(n)
    \/ Preempt(n) \/ PersonStops(n) \/ NeverReady(n)

Request(n) == GrowNode(n) \/ AskDelete(n) \/ AskFail(n) \/ BeginReboot(n) \/ BeginJob(n)

Next ==
    \/ \E n \in Nodes : StarterStep(n) \/ NodeStep(n) \/ Mishap(n) \/ Request(n) \/ ReapStopped(n)
    \/ DeleteStep \/ ReaperStep
    \/ \E d \in dels : DeleteRaises(d)
    \/ \E t \in Tasks : BeginTask(t) \/ TaskStep(t)
    \/ Crash \/ Disappear \/ Restart

Spec == Init /\ [][Next]_vars

(* Threads run, timeouts run out and a head that is down comes back; nothing
   makes anybody ask for anything or fail, except what waits for a head in vain. *)
Fairness ==
    /\ \A n \in Nodes :
         /\ WF_vars(StarterStep(n)) /\ WF_vars(NodeStep(n)) /\ WF_vars(ReapStopped(n))
         /\ WF_vars(Hopeless(n) /\ ScriptFails(n)) /\ WF_vars(~Up /\ BootFails(n))
         /\ WF_vars(NeverReady(n))
    /\ WF_vars(DeleteStep) /\ WF_vars(ReaperStep) /\ WF_vars(Restart)
    /\ \A t \in Tasks : WF_vars(TaskStep(t))

FairSpec == Spec /\ Fairness

-----------------------------------------------------------------------------
Statuses == {"absent", "BOOTING", "READY", "FAILED", "DELETED"}
Agents == {"none", "script", "boot", "install", "parked", "ready", "reboot", "halted", "wedged",
           "leaving", "dead"}

(* Every variable has its type; nothing runs in a VM that is not on; a thread, a
   delete or a suspicion needs a head; only READY nodes have work; on AWS nothing
   but a person stops a VM.  [Node.start; _poweroff_self] *)
TypeOK ==
    /\ mix \in Mixes /\ head \in {"up", "down", "gone"} /\ reaper \in BOOLEAN
    /\ rec \in [Nodes -> Statuses] /\ row \in [Nodes -> Statuses]
    /\ bare \subseteq Nodes /\ hosted \subseteq Nodes /\ marked \subseteq Nodes
    /\ asked \subseteq Nodes /\ stopped \subseteq Nodes /\ doubted \subseteq Nodes
    /\ starter \in [Nodes -> {"none", "create", "inserted", "wait", "failing", "done"}]
    /\ dels \subseteq [node : Nodes, by : Tasks \cup {"starter", "ask", "self"},
                       step : {"mark", "vm", "vmThenMark"}]
    /\ suspects \subseteq [node : Nodes, existed : BOOLEAN]
    /\ \A t \in Tasks :
         /\ task[t].at \in {"new", "deleting", "booting", "done", "failed"}
         /\ task[t].mine \subseteq Nodes /\ task[t].took \subseteq Nodes
    /\ vm \in [Nodes -> {"none", "on", "off", "gone"}] /\ agent \in [Nodes -> Agents]
    /\ busy \subseteq {n \in Nodes : agent[n] = "ready"}
    /\ may \in [Kinds -> Nat]
    /\ \A n \in Nodes :
         /\ vm[n] # "on" => agent[n] = "none"
         /\ mix.cloud = "aws" /\ vm[n] = "off" => n \in stopped
    /\ ~Up => dels = {} /\ suspects = {} /\ \A n \in Nodes : starter[n] = "none" /\ rec[n] = "absent"

(* The status the head will have once it is back. *)
Known(n) == IF Up THEN rec[n] ELSE IF row[n] = "DELETED" THEN "absent" ELSE row[n]

(* Somebody is left who will end the VM's bill or has reason to keep it: a thread
   of Node.start, a delete, the reapers, the startup script while a head may
   answer it, or the node service. *)
Minded(n) ==
    \/ starter[n] \in {"create", "inserted", "wait", "failing"}
    \/ \E d \in dels : d.node = n
    \/ \E s \in suspects : s.node = n /\ s.existed
    \/ head # "gone" /\ (reaper \/ ~Up) /\ Known(n) \in LiveStatuses /\ n \notin bare
    \/ agent[n] = "script" \/ agent[n] = "leaving" \/ (Pushing(n) /\ agent[n] # "wedged")
    \/ agent[n] = "wedged" /\ (head = "gone" \/ Known(n) = "DELETED")
    \/ vm[n] = "off" /\ (Reapable(n) \/ head = "gone")
    \/ mix.cloud = "azureLease" /\ ~Up

(* No VM is left to bill with nobody to end it, whatever one of the bounded
   events of a mix does to it.  [REQUIREMENTS R7; node_reaper_loop, self_delete,
   _shutdown_self, Node.start's except clause] *)
EveryVmMinded == \A n \in Nodes : Lives(n) /\ n \notin stopped => Minded(n)

(* What may stay: a node that serves with no idle timeout to end it, a VM that a
   person stopped, and on GCP a stopped VM while there is no head to delete it. *)
MayStay(n) ==
    \/ ~mix.idles /\ agent[n] = "ready" /\ head = "up" /\ n \notin asked
    \/ vm[n] = "off" /\ (n \in stopped \/ head = "gone")

(* Every VM goes: when its node was asked to go, when the head is gone or after
   the idle timeout.  [REQUIREMENTS R7] *)
VmsGo == \A n \in Nodes : []<>(~Lives(n) \/ MayStay(n))

(* A VM under a running job goes in this step, or starts to leave. *)
JobLosesVm(n) == n \in busy /\ (vm'[n] # "on" \/ agent'[n] = "leaving")

(* Somebody asked for the node's deletion, the head is gone (a lease: or down), or
   the cloud or a person took the VM away. *)
Excused(n) ==
    \/ n \in asked \/ head = "gone" \/ n \in stopped'
    \/ mix.cloud = "azureLease" /\ ~Up
    \/ may'["spot"] # may["spot"]

(* A VM under a running job goes, or starts to leave, only with an excuse, or because
   this very node was given up while it lived: its pushes did not arrive for the
   silence limit, or its boot had outlasted the timeout before it became ready after
   all (the reaper acts on what it saw before it asked the cloud).
   [shutdown_if_idle_for_too_long, node_reaper_loop, _state_push_loop, the lease daemon] *)
BusyVmKept == [][\A n \in Nodes : JobLosesVm(n) => Excused(n) \/ n \in doubted']_vars

(* "Nothing in the cluster may conclude 'dead' from silence alone, because the cost of
   being wrong is killing a healthy job."  [test_node_silent_but_alive.py]
   No run checks it: both the reaper and the node itself do (see the README). *)
SilenceIsNotDeath == [][\A n \in Nodes : JobLosesVm(n) => Excused(n)]_vars

(* What a finished shutdown or restart deleted does not come back as a node, except
   as the record a late push makes of a FAILED one, whose tombstone was dropped.
   [_shutdown_cluster; update_node's tombstones] *)
CleanSweep ==
    \A t \in Tasks : task[t].at \in {"booting", "done"} =>
        \A n \in task[t].took : rec[n] \in LiveStatuses => n \in bare

(* A VM that a person stopped is left alone.  [delete_stopped_instances]
   No run checks it: a stop by a person breaks it on GCP (see the README). *)
PersonsStopKept == [][\A n \in stopped : vm[n] = "off" => vm'[n] = "off"]_vars

(* Between the starters, deletes, reapers, sweeps and the nodes themselves no VM
   falls into a gap: somebody still minds it, and a sweep that is over leaves no
   record of what it took. *)
NothingUnminded == TypeOK /\ EveryVmMinded /\ CleanSweep
=============================================================================
