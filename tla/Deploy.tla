------------------------------- MODULE Deploy -------------------------------
(* `burla deploy` on one cloud account: what a machine does, step by step, to
   put a head on a VM and to move the history of its own local head there, the
   attempts that fail on the way and are repeated, other machines deploying at
   the same time, and the calls that arrive meanwhile.  The head's own work is
   ClusterState's matter, the local head's LocalHead's. *)
EXTENDS Integers, FiniteSets, Sequences

CONSTANTS
    Machines,     \* that may deploy
    LoggedIn,     \* those with a `burla login` as a user of the cluster
    Jobs,         \* each is called once, anywhere
    Versions,     \* of burla, as numbers
    Plans,        \* what a run may do, see DeployAssumption
    CallsMeet     \* whether a call may start a local head while its machine deploys

None == "none"

(* What an account is given before the head, in this order. *)
GcpServices == <<"services">>
GcpBucket == <<"bucket", "cors">>
GcpAccounts == <<"account", "roles">>
AwsBucket == <<"bucket", "cors">>
AwsRole(name) == <<name, name \o "Policy", name \o "Profile">>
AwsRoles == AwsRole("node") \o AwsRole("head") \o <<"headSsm">>
AwsGroup == <<"group">>
AzureGroup == <<"providers", "resourceGroup">>
AzureNetwork == <<"nsg", "vnet", "subnets">>
AzureStorage == <<"storage", "container", "cors">>
AzureNodeIdentity == <<"nodeIdentity", "deleteRole">>
AzureIdentities == AzureNodeIdentity \o <<"headIdentity", "roles">>

Parts == [gcp   |-> GcpServices \o GcpBucket \o GcpAccounts,
          aws   |-> AwsBucket \o AwsRoles \o AwsGroup,
          azure |-> AzureGroup \o AzureNetwork \o AzureStorage \o AzureIdentities]

AllParts == (UNION {{Parts[c][k] : k \in DOMAIN Parts[c]} : c \in DOMAIN Parts}) \cup {"address"}
Steps == {"prepare", "token", "save", "look", "pause", "snapshot", "describe", "start", "shutdown",
          "register", "create", "stopVm", "metadata", "startVm", "update", "wait", "upload",
          "finish", "version", "config"}

(* by: the machines that deploy; raise and kill: the steps at which a deploy may
   raise or be killed; blind: the lookups of the head that may fail; lose: what can
   happen to the VM; faults: how often any of that happens, at most; again: how
   often a deploy is repeated although one succeeded. *)
ASSUME DeployAssumption ==
    /\ Versions \subseteq Nat \ {0} /\ CallsMeet \in BOOLEAN
    /\ Plans \subseteq [cloud : DOMAIN Parts, by : SUBSET Machines, versions : SUBSET Versions,
                       raise : SUBSET Steps, kill : SUBSET Steps, blind : SUBSET {"look", "describe"},
                       lose : SUBSET {"setup", "stop"}, faults : Nat, again : Nat]

VARIABLES
    plan,       \* what happens in this run
    made,       \* the parts that exist
    vm,         \* the head VM: [n, on, boot, script, box]
    hist,       \* jobs in the deployed head's database
    imported,   \* snapshots it has taken
    backend,    \* [token, url]: the cluster and its dashboard are registered
    local,      \* per machine, its own head: [up, paused, running, db, history]
    saved,      \* per machine: [token, config]
    at,         \* per machine: the step of its deploy, None when there is none
    run,        \* per machine, what the deploy remembers: [todo, ver, first, held, snap, seen];
                \* held when it paused the local head, snap the snapshot, if any
    done,       \* machines whose deploy succeeded
    called,     \* jobs that have been called
    faults, again

cloud == plan.cloud
machine == <<local, saved>>
account == <<plan, made, vm, hist, imported, backend>>
progress == <<at, run, done>>
vars == <<account, machine, progress, called, faults, again>>

(* boot is the startup script in GCP's metadata, which runs at every boot, script
   the one that has yet to run, box the container that Docker restarts. *)
VmStates == [n : Nat, on : BOOLEAN, boot : Versions \cup {0}, script : Versions \cup {0}, box : Versions \cup {0}]
RunStates == [todo : Seq(AllParts), ver : Versions \cup {0}, first : BOOLEAN, held : BOOLEAN,
              snap : SUBSET SUBSET Jobs, seen : {None, "running", "stopped"}]

TypeOK ==
    /\ plan \in Plans /\ made \subseteq AllParts /\ vm \in VmStates
    /\ hist \subseteq Jobs /\ imported \subseteq SUBSET Jobs
    /\ backend \in [token : BOOLEAN, url : BOOLEAN]
    /\ local \in [Machines -> [up : BOOLEAN, paused : BOOLEAN, running : SUBSET Jobs, db : BOOLEAN,
                               history : SUBSET Jobs]]
    /\ saved \in [Machines -> [token : BOOLEAN, config : BOOLEAN]]
    /\ at \in [Machines -> Steps \cup {None}] /\ run \in [Machines -> RunStates]
    /\ done \subseteq Machines /\ called \subseteq Jobs /\ faults \in 0..plan.faults /\ again \in 0..plan.again

Idle == [todo |-> <<>>, ver |-> 0, first |-> FALSE, held |-> FALSE, snap |-> {}, seen |-> None]

Init ==
    /\ plan \in Plans /\ made = {}
    /\ vm = [n |-> 0, on |-> FALSE, boot |-> 0, script |-> 0, box |-> 0]
    /\ hist = {} /\ imported = {} /\ backend = [token |-> FALSE, url |-> FALSE]
    /\ local = [m \in Machines |-> [up |-> FALSE, paused |-> FALSE, running |-> {}, db |-> FALSE, history |-> {}]]
    /\ saved = [m \in Machines |-> [token |-> FALSE, config |-> FALSE]]
    /\ at = [m \in Machines |-> None] /\ run = [m \in Machines |-> Idle]
    /\ done = {} /\ called = {} /\ faults = 0 /\ again = 0

Serves == vm.on /\ vm.box # 0
Go(m, step) == at' = [at EXCEPT ![m] = step]
Note(m, r) == run' = [run EXCEPT ![m] = r]

-----------------------------------------------------------------------------
(* deploy, deploy_aws and deploy_azure: every step can be found done. *)

Start(m) ==
    /\ at[m] = None /\ m \in plan.by
    /\ IF m \in done THEN again < plan.again /\ again' = again + 1 ELSE UNCHANGED again
    /\ \E v \in plan.versions : Note(m, [Idle EXCEPT !.todo = Parts[cloud], !.ver = v])
    /\ Go(m, "prepare")
    /\ UNCHANGED <<account, machine, done, called, faults>>

(* ensure_network takes a VNet that exists for a network that is complete. *)
SkipNetwork(todo) ==
    IF todo # <<>> /\ Head(todo) = "nsg" /\ "vnet" \in made THEN SubSeq(todo, 4, Len(todo)) ELSE todo

Prepare(m) ==
    /\ at[m] = "prepare"
    /\ LET todo == SkipNetwork(run[m].todo)
       IN IF todo = <<>>
          THEN Go(m, "token") /\ UNCHANGED <<made, run>>
          ELSE /\ made' = made \cup {Head(todo)} /\ Note(m, [run[m] EXCEPT !.todo = Tail(todo)])
               /\ UNCHANGED at
    /\ UNCHANGED <<plan, vm, hist, imported, backend, machine, done, called, faults, again>>

(* get_or_register_cluster_token: the first to ask registers the cluster. *)
MayHaveToken(m) == saved[m].token \/ ~backend.token \/ m \in LoggedIn

(* Whoever is not given the token ends in Refused. *)
Token(m) ==
    /\ at[m] = "token" /\ MayHaveToken(m)
    /\ IF saved[m].token
       THEN Go(m, "look") /\ UNCHANGED backend
       ELSE Go(m, "save") /\ backend' = [backend EXCEPT !.token = TRUE]
    /\ UNCHANGED <<plan, made, vm, hist, imported, machine, run, done, called, faults, again>>

Save(m) ==
    /\ at[m] = "save" /\ saved' = [saved EXCEPT ![m].token = TRUE] /\ Go(m, "look")
    /\ UNCHANGED <<account, local, run, done, called, faults, again>>

(* MUTANT: a VM that is stopped is not listed. *)
SeenRunning == IF vm.n = 0 \/ ~vm.on THEN None ELSE "running"

Seen == IF vm.n = 0 THEN None ELSE IF vm.on THEN "running" ELSE "stopped"

(* A lookup that fails raises nothing: it is read as that there is no head. *)
Looks(step, seen) ==
    \/ seen = Seen /\ UNCHANGED faults
    \/ /\ step \in plan.blind /\ faults < plan.faults /\ faults' = faults + 1
       /\ Seen # None /\ seen = None

Migrates == cloud # "azure"

(* Only a deploy that finds no head moves the local history. *)
Look(m) ==
    /\ at[m] = "look"
    /\ \E seen \in {Seen, None} :
          LET first == Migrates /\ seen = None
          IN /\ Looks("look", seen) /\ Note(m, [run[m] EXCEPT !.first = first])
             /\ Go(m, IF first THEN "pause" ELSE "describe")
    /\ UNCHANGED <<account, machine, done, called, again>>

(* The head refuses to pause while it runs a job. *)
MayPause(m) == local[m].running = {}

Pause(m) ==
    /\ at[m] = "pause" /\ Go(m, "snapshot")
    /\ IF local[m].up
       THEN /\ MayPause(m) /\ local' = [local EXCEPT ![m].paused = TRUE]
            /\ Note(m, [run[m] EXCEPT !.held = TRUE])
       ELSE UNCHANGED <<local, run>>
    /\ UNCHANGED <<account, saved, done, called, faults, again>>

Snapshot(m) ==
    /\ at[m] = "snapshot" /\ Go(m, "describe")
    /\ Note(m, [run[m] EXCEPT !.snap = IF local[m].db THEN {local[m].history} ELSE {}])
    /\ UNCHANGED <<account, machine, done, called, faults, again>>

(* MUTANT: as on Azure, the cluster is shut down before a stopped VM is started. *)
DescribedAsAzure(seen) == IF seen = None THEN "register" ELSE "shutdown"

(* Azure describes the VM, shuts its cluster down and only then starts it. *)
Described(seen) ==
    CASE seen = None -> "register"
      [] seen = "stopped" /\ cloud # "azure" -> "start"
      [] OTHER -> "shutdown"

Describe(m) ==
    /\ at[m] = "describe"
    /\ \E seen \in {Seen, None} :
          Looks("describe", seen) /\ Note(m, [run[m] EXCEPT !.seen = seen]) /\ Go(m, Described(seen))
    /\ made' = made \cup {"address"}
    /\ UNCHANGED <<plan, vm, hist, imported, backend, machine, done, called, again>>

(* A VM that boots: Docker restarts what ran, GCP also runs the startup script. *)
Booted == [vm EXCEPT !.on = TRUE, !.script = IF cloud = "gcp" THEN vm.boot ELSE vm.script]

StartVm(m) ==
    /\ at[m] \in {"start", "startVm"} /\ vm' = Booted
    /\ Go(m, IF at[m] = "start" THEN "shutdown" ELSE "wait")
    /\ UNCHANGED <<plan, made, hist, imported, backend, machine, run, done, called, faults, again>>

(* _shutdown_cluster_for_upgrade: a head that does not answer within a minute ends
   the deploy (see Refused). *)
Shutdown(m) ==
    /\ at[m] = "shutdown" /\ Serves /\ Go(m, "register")
    /\ UNCHANGED <<account, machine, run, done, called, faults, again>>

Register(m) ==
    /\ at[m] = "register" /\ backend' = [backend EXCEPT !.url = TRUE]
    /\ Go(m, IF run[m].seen = None THEN "create" ELSE IF cloud = "gcp" THEN "stopVm" ELSE "update")
    /\ UNCHANGED <<plan, made, vm, hist, imported, machine, run, done, called, faults, again>>

(* A name is taken once on GCP and Azure; AWS tells instances apart by their id. *)
GcpCreates == vm.n = 0 /\ "account" \in made
AwsCreates == {"headProfile", "group"} \subseteq made
AzureCreates == vm.n = 0 /\ {"subnets", "headIdentity"} \subseteq made
Creatable ==
    CASE cloud = "gcp" -> GcpCreates [] cloud = "aws" -> AwsCreates [] cloud = "azure" -> AzureCreates

(* The new VM has an empty database and the address; its startup script is yet to run. *)
Create(m) ==
    /\ at[m] = "create" /\ Creatable
    /\ vm' = [n |-> vm.n + 1, on |-> TRUE, boot |-> IF cloud = "gcp" THEN run[m].ver ELSE 0,
              script |-> run[m].ver, box |-> 0]
    /\ hist' = {} /\ imported' = {} /\ Go(m, "wait")
    /\ UNCHANGED <<plan, made, backend, machine, run, done, called, faults, again>>

(* GCP: stop, add-metadata, start. *)
StopVm(m) ==
    /\ at[m] = "stopVm" /\ vm' = [vm EXCEPT !.on = FALSE, !.script = 0] /\ Go(m, "metadata")
    /\ UNCHANGED <<plan, made, hist, imported, backend, machine, run, done, called, faults, again>>

Metadata(m) ==
    /\ at[m] = "metadata" /\ vm' = [vm EXCEPT !.boot = run[m].ver] /\ Go(m, "startVm")
    /\ UNCHANGED <<plan, made, hist, imported, backend, machine, run, done, called, faults, again>>

(* The commands remove the container before they run its successor. *)
AwsCommands(v) == [vm EXCEPT !.box = v]
AzureCommands(v) == [Booted EXCEPT !.box = v]
Torn == [vm EXCEPT !.box = 0]

(* _run_head_update awaits the commands' end and raises when they failed. *)
UpdateAws(m) ==
    /\ at[m] = "update" /\ cloud = "aws" /\ vm.on
    /\ vm' = AwsCommands(run[m].ver) /\ Go(m, "wait")
    /\ UNCHANGED <<plan, made, hist, imported, backend, machine, run, done, called, faults, again>>

(* Azure looks first whether the VM is on. *)
UpdateAzure(m) ==
    /\ at[m] = "update" /\ cloud = "azure"
    /\ vm' = AzureCommands(run[m].ver) /\ Go(m, "wait")
    /\ UNCHANGED <<plan, made, hist, imported, backend, machine, run, done, called, faults, again>>

ServesIt(v) == vm.on /\ vm.box = v

AfterWait(m) ==
    IF ~run[m].first THEN "version" ELSE IF run[m].snap # {} THEN "upload" ELSE "finish"

Wait(m) ==
    /\ at[m] = "wait" /\ ServesIt(run[m].ver) /\ Go(m, AfterWait(m))
    /\ UNCHANGED <<account, machine, run, done, called, faults, again>>

(* MUTANT: the snapshot takes the place of what the head has recorded. *)
ImportsOver(snap) ==
    IF snap \in imported THEN UNCHANGED <<hist, imported>>
    ELSE hist' = snap /\ imported' = imported \cup {snap}

(* import_history: the same upload again changes nothing, and history is only
   taken into an empty database. *)
Imports(snap) ==
    IF snap \in imported THEN UNCHANGED <<hist, imported>>
    ELSE hist = {} /\ hist' = snap /\ imported' = imported \cup {snap}

Upload(m) ==
    /\ at[m] = "upload" /\ Serves /\ (\E snap \in run[m].snap : Imports(snap)) /\ Go(m, "finish")
    /\ UNCHANGED <<plan, made, vm, backend, machine, run, done, called, faults, again>>

(* finish_history_migration: the local head is stopped, with what it runs. *)
Finish(m) ==
    /\ at[m] = "finish"
    /\ local' = [local EXCEPT ![m].up = FALSE, ![m].paused = FALSE, ![m].running = {}]
    /\ Go(m, "version")
    /\ UNCHANGED <<account, saved, run, done, called, faults, again>>

Version(m) ==
    /\ at[m] = "version" /\ Go(m, "config")
    /\ UNCHANGED <<account, machine, run, done, called, faults, again>>

(* save_deployed_cluster_config is best-effort. *)
Config(m) ==
    /\ at[m] = "config" /\ Go(m, None) /\ Note(m, Idle) /\ done' = done \cup {m}
    /\ \/ saved' = [saved EXCEPT ![m].config = TRUE]
       \/ faults < plan.faults /\ "config" \in plan.raise /\ UNCHANGED saved
    /\ UNCHANGED <<account, local, called, faults, again>>

-----------------------------------------------------------------------------
(* A deploy that ends early. *)

(* The steps between the pause and the end of the migration that resume it. *)
Guarded == {"describe", "start", "shutdown", "register", "create", "stopVm", "metadata", "startVm",
            "update", "wait", "upload", "finish"}
Resumes(m) == at[m] \in Guarded /\ run[m].held

Unwound(m) ==
    /\ Go(m, None) /\ Note(m, Idle)
    /\ local' = IF Resumes(m) THEN [local EXCEPT ![m].paused = FALSE] ELSE local
    /\ UNCHANGED <<plan, made, hist, imported, backend, saved, done, called, again>>

(* What the next step needs is not there: AuthError, LocalHeadError, an existing
   cluster that did not shut down, a name that is taken, a head that never became
   reachable, a history that is not empty. *)
Hopeless(m) ==
    \/ at[m] = "token" /\ ~MayHaveToken(m)
    \/ at[m] = "pause" /\ local[m].up /\ ~MayPause(m)
    \/ at[m] = "shutdown" /\ ~Serves
    \/ at[m] = "create" /\ ~Creatable
    \/ at[m] = "update" /\ cloud = "aws" /\ ~vm.on
    \/ at[m] = "wait" /\ ~ServesIt(run[m].ver) /\ (~vm.on \/ vm.script = 0)
    \/ at[m] = "upload" /\ (~Serves \/ (hist # {} /\ \A snap \in run[m].snap : snap \notin imported))

Refused(m) == Hopeless(m) /\ Unwound(m) /\ UNCHANGED <<vm, faults>>

Breaks(m) ==
    /\ at[m] \in plan.raise /\ faults < plan.faults /\ faults' = faults + 1
    /\ Unwound(m) /\ UNCHANGED vm

(* The commands of an update fail half-way: SSM says so; on Azure the deploy waits
   in vain unless it finds an error in the output. *)
UpdateFails(m) ==
    /\ at[m] = "update" /\ vm.on /\ "setup" \in plan.lose /\ faults < plan.faults
    /\ faults' = faults + 1 /\ vm' = Torn
    /\ \/ Unwound(m)
       \/ /\ cloud = "azure" /\ Go(m, "wait")
          /\ UNCHANGED <<plan, made, hist, imported, backend, machine, run, done, called, again>>

(* The process is killed: nothing is unwound. *)
Killed(m) ==
    /\ at[m] \in plan.kill /\ faults < plan.faults /\ faults' = faults + 1
    /\ Go(m, None) /\ Note(m, Idle) /\ UNCHANGED <<account, machine, done, called, again>>

-----------------------------------------------------------------------------
(* Meanwhile: the VM, the local heads and the calls. *)

SetUp == [vm EXCEPT !.box = vm.script, !.script = 0]

SetupEnds ==
    /\ vm.on /\ vm.script # 0
    /\ \/ vm' = SetUp /\ UNCHANGED faults
       \/ /\ "setup" \in plan.lose /\ faults < plan.faults /\ faults' = faults + 1
          /\ vm' = [Torn EXCEPT !.script = 0]
    /\ UNCHANGED <<plan, made, hist, imported, backend, machine, progress, called, again>>

(* Somebody stops the head VM. *)
VmStops ==
    /\ vm.on /\ "stop" \in plan.lose /\ faults < plan.faults /\ faults' = faults + 1
    /\ vm' = [vm EXCEPT !.on = FALSE]
    /\ UNCHANGED <<plan, made, hist, imported, backend, machine, progress, called, again>>

(* deployed_dashboard_url: a machine that has not saved the cluster's address asks
   the backend, with the token it has or is given; a job is in the cluster's
   database once it starts. *)
CallsDeployed(m, j) ==
    /\ j \notin called /\ (saved[m].config \/ (backend.url /\ MayHaveToken(m)))
    /\ saved' = IF saved[m].config THEN saved ELSE [saved EXCEPT ![m] = [token |-> TRUE, config |-> TRUE]]
    /\ IF Serves THEN called' = called \cup {j} /\ hist' = hist \cup {j} ELSE UNCHANGED <<called, hist>>
    /\ UNCHANGED <<plan, made, vm, imported, backend, local, progress, faults, again>>

(* A call that knows of no cluster leaves one registered, and its token here; it
   finds the local head or starts it. *)
CallsLocal(m, j) ==
    /\ j \notin called /\ ~saved[m].config /\ ~backend.url /\ MayHaveToken(m)
    /\ IF local[m].up THEN ~local[m].paused ELSE CallsMeet \/ at[m] = None
    /\ called' = called \cup {j}
    /\ backend' = [backend EXCEPT !.token = TRUE] /\ saved' = [saved EXCEPT ![m].token = TRUE]
    /\ local' = [local EXCEPT ![m].up = TRUE, ![m].db = TRUE, ![m].running = @ \cup {j}]
    /\ UNCHANGED <<plan, made, vm, hist, imported, progress, faults, again>>

JobEnds(m, j) ==
    /\ j \in local[m].running
    /\ local' = [local EXCEPT ![m].running = @ \ {j}, ![m].history = @ \cup {j}]
    /\ UNCHANGED <<account, saved, progress, called, faults, again>>

(* The dashboard is closed, or the last call has ended. *)
LocalStops(m) ==
    /\ local[m].up /\ local[m].running = {}
    /\ local' = [local EXCEPT ![m].up = FALSE, ![m].paused = FALSE]
    /\ UNCHANGED <<account, saved, progress, called, faults, again>>

Deploys(m) ==
    \/ Prepare(m) \/ Token(m) \/ Save(m) \/ Look(m) \/ Pause(m) \/ Snapshot(m) \/ Describe(m)
    \/ StartVm(m) \/ Shutdown(m) \/ Register(m) \/ Create(m) \/ StopVm(m) \/ Metadata(m)
    \/ UpdateAws(m) \/ UpdateAzure(m) \/ Wait(m) \/ Upload(m) \/ Finish(m) \/ Version(m) \/ Config(m) \/ Refused(m)

Next ==
    \/ \E m \in Machines : Start(m) \/ Deploys(m) \/ Breaks(m) \/ UpdateFails(m) \/ Killed(m) \/ LocalStops(m)
    \/ \E m \in Machines, j \in Jobs : CallsDeployed(m, j) \/ CallsLocal(m, j) \/ JobEnds(m, j)
    \/ SetupEnds \/ VmStops

Spec == Init /\ [][Next]_vars

(* A deploy goes on, its user repeats it until it succeeds, a VM's setup and a job
   come to an end. *)
FairSpec ==
    /\ Spec /\ WF_vars(SetupEnds)
    /\ \A m \in Machines : WF_vars(Deploys(m)) /\ WF_vars(Start(m) /\ m \notin done)
    /\ \A m \in Machines, j \in Jobs : WF_vars(JobEnds(m, j))

-----------------------------------------------------------------------------
(* However many machines deploy, fail and deploy again, the account never has two
   heads.  On AWS the plans of the run leave out what makes a second one: two deploys
   at once, and a failed lookup in _deploy_head_instance. *)
OneHead == vm.n <= 1

(* A first deploy that ends the local head's life has moved all its jobs, and cut
   none short (finish_history_migration). *)
Moved(m) == at[m] = "finish" => local[m].running = {} /\ local[m].history \subseteq hist
HistoryMoved == \A m \in Machines : Moved(m)

(* Nothing is left paused by a deploy that is over: the local head admits jobs
   again (resume_history_migration). *)
LocalAdmitsAgain == \A m \in Machines : local[m].paused => at[m] # None

(* Whatever is deployed over it, the deployed head keeps the jobs it has recorded
   (a second head would have none of them). *)
DeployedHistoryKept == [][hist \subseteq hist']_vars

Whole == (vm.on => vm.box # 0) /\ made = {Parts[cloud][k] : k \in DOMAIN Parts[cloud]} \cup {"address"}

(* What no repetition makes up for: a VM whose setup failed, a cluster whose token the
   machine does not have and may not ask for, a VNet without its subnets. *)
LeftBare == vm.n > 0 /\ vm.box = 0 /\ vm.script = 0
LockedOut == \A m \in plan.by : ~MayHaveToken(m)
HalfNetwork == "vnet" \in made /\ "subnets" \notin made

(* A deploy that one machine repeats until it succeeds does, unless it comes to one of
   these three: in the end the account has everything the head needs and a head that
   runs whenever its VM does (_deploy_gcp, deploy_aws, deploy_azure). *)
Converges ==
    Cardinality(plan.by) = 1 =>
        <>[](done # {} /\ Whole) \/ <>[]LeftBare \/ <>[]LockedOut \/ <>[]HalfNetwork

(* The jobs of a machine whose deploy made the account's cluster are in it.
   No run checks it: Azure, or a first attempt that fails, breaks it (see the README). *)
HistoryCarried == \A m \in done : local[m].history \subseteq hist

(* The account is in order at every moment of deploys that fail, are killed and run
   again: one head, the local history moved before its head ends, and no local head
   left paused. *)
AccountInOrder == TypeOK /\ OneHead /\ HistoryMoved /\ LocalAdmitsAgain
=============================================================================
