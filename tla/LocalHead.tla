------------------------------ MODULE LocalHead ------------------------------
(* The head a machine runs for itself: calls of remote_parallel_map and
   dashboards start, share and stop it, `burla deploy` moves its history to a
   deployed cluster.  They are processes of their own that meet in head.json
   (read and written without a lock), in dashboard.owner (under lifecycle.lock),
   in history.db and in the head's own state.  The tunnel process (frpc) goes
   with its head and is left out. *)
EXTENDS Integers, FiniteSets

CONSTANTS
    Calls,       \* calls of remote_parallel_map, one job each
    Dashboards,  \* runs of `burla dashboard`
    Deployer,    \* the process of `burla deploy`
    MaxHeads,    \* head processes started in a run
    Scenarios    \* what a run may begin with, see ScenariosAssumption

Actors == Calls \cup Dashboards \cup {Deployer}
NoOne == "none"

(* Events that are bounded: crashes (a call or a head that is killed), losses
   (a request that fails, a probe that times out, a relay that does not come
   up), interrupts (Ctrl-C in a dashboard), abandons (Ctrl-C or an error before the
   dashboard is attached, an error after), deploys. *)
Kinds == {"crashes", "losses", "interrupts", "abandons", "deploys"}

ASSUME SizesAssumption == MaxHeads \in Nat /\ NoOne \notin Actors
ASSUME ActorsAssumption ==
    Calls \cap Dashboards = {} /\ Deployer \notin Calls \cup Dashboards
(* running: head 1 is up, as an earlier dashboard left it; actors: who acts. *)
ASSUME ScenariosAssumption ==
    \A sc \in Scenarios :
        /\ sc.running \in BOOLEAN /\ sc.actors \subseteq Actors
        /\ sc.may \in [Kinds -> Nat]

VARIABLES
    head,      \* head processes: [state, port, paused, jobs]
    db,        \* status of each call's job in history.db
    record,    \* head.json: [pid, url]
    owner,     \* dashboard.owner
    lock,      \* who holds lifecycle.lock over several steps
    pc, mem,   \* where each process is, and its local variables
    cloud,     \* the deployed cluster: [vm, history, selected]
    snapshot,  \* the deployer's copy of history.db
    kept,      \* heads a dashboard left running on purpose (history variable)
    may,       \* what is left of the scenario
    mishaps    \* what has happened of it, "collision": two heads started at once,
               \* "leaked": one that its starter did not write down (history)

shared == <<record, owner, lock>>
calm == <<may, mishaps>>
vars == <<head, db, shared, pc, mem, cloud, snapshot, kept, calm>>

Pids == 1 .. MaxHeads
NoPid == 0
(* A url is a port: 0 is PREFERRED_HEAD_PORT, a head that finds it taken listens
   on a port of its own. *)
Preferred == 0
NoUrl == -1

Unused == [state |-> "unused", port |-> Preferred, paused |-> FALSE, jobs |-> {}]
NoMem == [initial |-> NoPid, before |-> NoPid, seen |-> NoPid, mine |-> NoPid,
          pid |-> NoPid, url |-> NoUrl, owned |-> FALSE]

Spend(k) ==
    /\ may[k] > 0 /\ may' = [may EXCEPT ![k] = @ - 1]
    /\ mishaps' = mishaps \cup {k}

Init ==
    \E sc \in Scenarios :
        /\ head = [h \in Pids |-> IF h = 1 /\ sc.running
                                  THEN [Unused EXCEPT !.state = "up"] ELSE Unused]
        /\ record = IF sc.running THEN [pid |-> 1, url |-> Preferred]
                    ELSE [pid |-> NoPid, url |-> NoUrl]
        /\ owner = IF sc.running THEN 1 ELSE NoPid
        /\ kept = IF sc.running THEN {1} ELSE {}
        /\ pc = [a \in Actors |-> IF a \in sc.actors THEN "begin" ELSE "done"]
        /\ may = sc.may
        /\ db = [c \in Calls |-> "none"]
        /\ lock = NoOne /\ mem = [a \in Actors |-> NoMem]
        /\ cloud = [vm |-> FALSE, history |-> {}, selected |-> FALSE]
        /\ snapshot = {} /\ mishaps = {}

-----------------------------------------------------------------------------
(* Heads *)

Alive(h) == h # NoPid /\ head[h].state \in {"booting", "up"}
Listening(url) == {h \in Pids : head[h].state = "up" /\ head[h].port = url}
Answers(url) == Listening(url) # {}
At(url) == CHOOSE h \in Listening(url) : TRUE

(* _terminate_pid: what the heads are once one was told to go. *)
Terminated(h) ==
    [k \in Pids |-> IF k = h /\ Alive(k)
                    THEN [head[k] EXCEPT !.state = "dead", !.jobs = {}] ELSE head[k]]

(* A defect: pause_job_admission looks at the jobs and pauses nothing. *)
PausedNot(h) == head
(* pause_job_admission, once no job was found. *)
Paused(h) == [head EXCEPT ![h].paused = TRUE]

Ended == {c \in Calls : db[c] = "ended"}
Running == {c \in Calls : db[c] = "running"}

(* A head that comes up takes over the jobs history.db has as RUNNING; one that
   finds its port taken exits. *)
Boot(h) ==
    /\ head[h].state = "booting"
    /\ head' = [head EXCEPT ![h] =
           IF Answers(@.port) THEN [@ EXCEPT !.state = "dead"]
           ELSE [@ EXCEPT !.state = "up", !.jobs = Running]]
    /\ UNCHANGED <<db, shared, pc, mem, cloud, snapshot, kept, calm>>

HeadDies(h) ==
    /\ Alive(h) /\ Spend("crashes")
    /\ head' = Terminated(h)
    /\ UNCHANGED <<db, shared, pc, mem, cloud, snapshot, kept>>

(* Nobody waits for the job any more: the head fails it. *)
ReapJob(h, c) ==
    /\ head[h].state = "up" /\ c \in head[h].jobs /\ pc[c] # "job"
    /\ head' = [head EXCEPT ![h].jobs = @ \ {c}]
    /\ db' = [db EXCEPT ![c] = "ended"]
    /\ UNCHANGED <<shared, pc, mem, cloud, snapshot, kept, calm>>

-----------------------------------------------------------------------------
(* Starting or reusing a head: _run_local_head, for calls and dashboards. *)

Starting(a) == pc[a] \in {"spawn", "record", "boot"}
(* After the head answers, or cannot be had. *)
Served(a) == IF a \in Calls THEN "pid" ELSE "attach"
Unserved(a) == IF a \in Calls THEN "done" ELSE "undo"

(* _head_matches says no, or does not hear back in time. *)
NotFound(url) == (~Answers(url) /\ UNCHANGED calm) \/ Spend("losses")

ReadRecord(a) ==
    /\ pc[a] = "read"
    /\ \/ /\ Answers(record.url)
          /\ pc' = [pc EXCEPT ![a] = Served(a)]
          /\ mem' = [mem EXCEPT ![a].url = record.url]
          /\ UNCHANGED calm
       \/ /\ Answers(record.url) /\ Spend("losses")
          /\ pc' = [pc EXCEPT ![a] = Unserved(a)] /\ UNCHANGED mem
       \/ /\ NotFound(record.url)
          /\ pc' = [pc EXCEPT ![a] = "spawn"]
          /\ mem' = [mem EXCEPT ![a].seen = record.pid]
    /\ UNCHANGED <<head, db, shared, cloud, snapshot, kept>>

(* The head it read of goes, and its own takes the preferred port if that is
   free.  Another one may be starting a head, or have done so since. *)
PortFor(h, others) ==
    IF \E k \in Pids : others[k].state = "up" /\ others[k].port = Preferred THEN h
    ELSE Preferred

SpawnHead(a) ==
    /\ pc[a] = "spawn"
    /\ \E h \in Pids :
          /\ head[h].state = "unused" /\ \A k \in 1 .. (h - 1) : head[k].state # "unused"
          /\ LET others == Terminated(mem[a].seen)
                 url == PortFor(h, others)
             IN /\ head' = [others EXCEPT ![h] =
                              [Unused EXCEPT !.state = "booting", !.port = url]]
                /\ mem' = [mem EXCEPT ![a].mine = h, ![a].url = url]
    /\ pc' = [pc EXCEPT ![a] = "record"]
    /\ mishaps' = IF \/ \E b \in Actors \ {a} : Starting(b)
                     \/ record.pid \notin {mem[a].seen, NoPid}
                  THEN mishaps \cup {"collision"} ELSE mishaps
    /\ UNCHANGED <<db, shared, cloud, snapshot, kept, may>>

(* head.json is overwritten when the process is there. *)
RecordHead(a) ==
    /\ pc[a] = "record"
    /\ record' = [pid |-> mem[a].mine, url |-> mem[a].url]
    /\ pc' = [pc EXCEPT ![a] = "boot"]
    /\ UNCHANGED <<head, db, owner, lock, mem, cloud, snapshot, kept, calm>>

(* Whoever breaks off in between has started a head that nobody knows of. *)
BreaksOff(a, k) ==
    /\ may[k] > 0 /\ may' = [may EXCEPT ![k] = @ - 1]
    /\ mishaps' = mishaps \cup {k} \cup IF pc[a] = "record" THEN {"leaked"} ELSE {}

(* Whatever answers at the url will do; head.json is written once more, with the
   tunnel. *)
HeadReady(a) ==
    /\ pc[a] = "boot" /\ Answers(mem[a].url)
    /\ record' = [pid |-> mem[a].mine, url |-> mem[a].url]
    /\ \/ pc' = [pc EXCEPT ![a] = Served(a)] /\ UNCHANGED calm
       \/ pc' = [pc EXCEPT ![a] = Unserved(a)] /\ Spend("losses")
    /\ UNCHANGED <<head, db, owner, lock, mem, cloud, snapshot, kept>>

HeadNeverReady(a) ==
    /\ pc[a] = "boot" /\ ~Answers(mem[a].url)
    /\ \/ head[mem[a].mine].state = "dead" /\ UNCHANGED calm
       \/ Spend("losses")
    /\ pc' = [pc EXCEPT ![a] = Unserved(a)]
    /\ UNCHANGED <<head, db, shared, mem, cloud, snapshot, kept>>

-----------------------------------------------------------------------------
(* A call of remote_parallel_map *)

(* _acquire_head_for_job: the deployed cluster, a head that runs, or one of its
   own. *)
Acquire(c) ==
    /\ pc[c] = "begin"
    /\ \/ /\ cloud.selected
          /\ pc' = [pc EXCEPT ![c] = "done"] /\ UNCHANGED <<mem, calm>>
       \/ /\ ~cloud.selected /\ Answers(record.url)
          /\ pc' = [pc EXCEPT ![c] = "acquired"]
          /\ mem' = [mem EXCEPT ![c].url = record.url]
          /\ UNCHANGED calm
       \/ /\ ~cloud.selected /\ NotFound(record.url)
          /\ pc' = [pc EXCEPT ![c] = "read"] /\ UNCHANGED mem
    /\ UNCHANGED <<head, db, shared, cloud, snapshot, kept>>

(* start_local_head_for_job reads the pid back from head.json. *)
OwnHead(c) ==
    /\ pc[c] = "pid"
    /\ mem' = [mem EXCEPT ![c].pid = record.pid, ![c].owned = TRUE]
    /\ pc' = [pc EXCEPT ![c] = IF record.pid = NoPid THEN "done" ELSE "acquired"]
    /\ UNCHANGED <<head, db, shared, cloud, snapshot, kept, calm>>

Admits(url) == Answers(url) /\ ~head[At(url)].paused

StartJob(c) ==
    /\ pc[c] = "acquired"
    /\ \/ /\ Admits(mem[c].url)
          /\ head' = [head EXCEPT ![At(mem[c].url)].jobs = @ \cup {c}]
          /\ db' = [db EXCEPT ![c] = "running"]
          /\ pc' = [pc EXCEPT ![c] = "job"]
       \/ /\ ~Admits(mem[c].url)
          /\ pc' = [pc EXCEPT ![c] = "release"] /\ UNCHANGED <<head, db>>
    /\ UNCHANGED <<shared, mem, cloud, snapshot, kept, calm>>

OnHead(c) == Answers(mem[c].url) /\ c \in head[At(mem[c].url)].jobs

EndJob(c) ==
    /\ pc[c] = "job"
    /\ \/ /\ OnHead(c)
          /\ head' = [head EXCEPT ![At(mem[c].url)].jobs = @ \ {c}]
          /\ db' = [db EXCEPT ![c] = "ended"]
       \/ ~OnHead(c) /\ UNCHANGED <<head, db>>
    /\ pc' = [pc EXCEPT ![c] = "release"]
    /\ UNCHANGED <<shared, mem, cloud, snapshot, kept, calm>>

(* release_head: only a head the call started, that no dashboard took over and
   that head.json still names.  Its cluster is shut down, which cancels the jobs
   it runs, and then the process goes. *)
(* A defect: the dashboard is not asked. *)
MayStopAnyway(c) == mem[c].owned /\ record.pid = mem[c].pid
MayStop(c) ==
    /\ mem[c].owned
    /\ owner # mem[c].pid
    /\ record.pid = mem[c].pid

Release(c) ==
    /\ pc[c] = "release" /\ lock = NoOne
    /\ \/ /\ MayStop(c)
          /\ lock' = c
          /\ pc' = [pc EXCEPT ![c] = "stopping"]
          /\ IF Answers(mem[c].url)
             THEN LET h == At(mem[c].url)
                  IN /\ db' = [d \in Calls |-> IF d \in head[h].jobs THEN "ended" ELSE db[d]]
                     /\ head' = [head EXCEPT ![h].jobs = {}]
             ELSE UNCHANGED <<db, head>>
       \/ /\ ~MayStop(c)
          /\ pc' = [pc EXCEPT ![c] = "done"] /\ UNCHANGED <<lock, db, head>>
    /\ UNCHANGED <<record, owner, mem, cloud, snapshot, kept, calm>>

(* _stop_recorded_head, if head.json names pid: process and record go. *)
StopRecorded(pid) ==
    IF record.pid = pid
    THEN head' = Terminated(pid) /\ record' = [record EXCEPT !.pid = NoPid]
    ELSE UNCHANGED <<head, record>>

ReleaseEnds(c) ==
    /\ pc[c] = "stopping"
    /\ StopRecorded(mem[c].pid)
    /\ lock' = NoOne
    /\ pc' = [pc EXCEPT ![c] = "done"]
    /\ UNCHANGED <<db, owner, mem, cloud, snapshot, kept, calm>>

CallKilled(c) ==
    /\ pc[c] \in {"spawn", "record", "boot", "acquired", "job", "release", "stopping"}
    /\ BreaksOff(c, "crashes")
    /\ pc' = [pc EXCEPT ![c] = "done"]
    /\ lock' = IF lock = c THEN NoOne ELSE lock
    /\ UNCHANGED <<head, db, record, owner, mem, cloud, snapshot, kept>>

-----------------------------------------------------------------------------
(* burla dashboard *)

(* A head that runs is claimed before it is looked at, so that the call that
   started it does not stop it. *)
Claim(d) ==
    /\ pc[d] = "begin" /\ lock = NoOne
    /\ \/ /\ cloud.selected
          /\ pc' = [pc EXCEPT ![d] = "done"] /\ UNCHANGED <<mem, owner>>
       \/ /\ ~cloud.selected
          /\ mem' = [mem EXCEPT ![d].initial = record.pid, ![d].before = owner]
          /\ owner' = IF record.pid # NoPid THEN record.pid ELSE owner
          /\ pc' = [pc EXCEPT ![d] = "read"]
    /\ UNCHANGED <<head, db, record, lock, cloud, snapshot, kept, calm>>

Attach(d) ==
    /\ pc[d] = "attach" /\ lock = NoOne
    /\ \/ /\ record.pid # NoPid
          /\ mem' = [mem EXCEPT ![d].pid = record.pid]
          /\ owner' = record.pid
          /\ pc' = [pc EXCEPT ![d] = "attached"]
       \/ /\ record.pid = NoPid
          /\ pc' = [pc EXCEPT ![d] = "undo"] /\ UNCHANGED <<mem, owner>>
    /\ UNCHANGED <<head, db, record, lock, cloud, snapshot, kept, calm>>

(* Ctrl-C or an error before it is attached. *)
InterruptStart(d) ==
    /\ pc[d] \in {"read", "spawn", "record", "boot", "attach"}
    /\ BreaksOff(d, "abandons")
    /\ pc' = [pc EXCEPT ![d] = "undo"]
    /\ UNCHANGED <<head, db, shared, mem, cloud, snapshot, kept>>

Undo(d) ==
    /\ pc[d] = "undo" /\ lock = NoOne
    /\ IF record.pid # mem[d].initial
       THEN StopRecorded(record.pid) ELSE UNCHANGED <<head, record>>
    /\ owner' = mem[d].before
    /\ pc' = [pc EXCEPT ![d] = "done"]
    /\ UNCHANGED <<db, lock, mem, cloud, snapshot, kept, calm>>

(* Ctrl-C: the head is stopped if it is idle, and admits no job from then on.
   The answer to the pause may be lost. *)
InterruptDashboard(d) ==
    /\ pc[d] = "attached" /\ Spend("interrupts")
    /\ LET url == mem[d].url
           idle == Answers(url) /\ head[At(url)].jobs = {}
       IN /\ head' = IF idle THEN Paused(At(url)) ELSE head
          /\ \/ idle /\ pc' = [pc EXCEPT ![d] = "stop"] /\ UNCHANGED kept
             \/ /\ ~idle /\ Answers(url)
                /\ pc' = [pc EXCEPT ![d] = "done"]
                /\ kept' = kept \cup {mem[d].pid}
             \/ pc' = [pc EXCEPT ![d] = "unsure"] /\ UNCHANGED kept
    /\ UNCHANGED <<db, shared, mem, cloud, snapshot>>

(* The pause could not be confirmed: it is taken back, whoever asked for it. *)
ResumeUnsure(d) ==
    /\ pc[d] = "unsure"
    /\ head' = IF Answers(mem[d].url)
               THEN [head EXCEPT ![At(mem[d].url)].paused = FALSE] ELSE head
    /\ kept' = kept \cup {mem[d].pid}
    /\ pc' = [pc EXCEPT ![d] = "done"]
    /\ UNCHANGED <<db, shared, mem, cloud, snapshot, calm>>

(* Also when the head is gone by itself. *)
StopDashboard(d) ==
    /\ lock = NoOne
    /\ \/ pc[d] = "stop"
       \/ pc[d] = "attached" /\ ~Alive(mem[d].pid)
    /\ owner' = IF owner = mem[d].pid THEN NoPid ELSE owner
    /\ StopRecorded(mem[d].pid)
    /\ pc' = [pc EXCEPT ![d] = "done"]
    /\ UNCHANGED <<db, lock, mem, cloud, snapshot, kept, calm>>

(* What an attached dashboard does may raise: it stops a head of its own start,
   whatever runs on it, and restores the owner there was. *)
DashboardFails(d) ==
    /\ pc[d] = "attached" /\ lock = NoOne /\ Spend("abandons")
    /\ IF mem[d].pid # mem[d].initial
       THEN StopRecorded(mem[d].pid) ELSE UNCHANGED <<head, record>>
    /\ owner' = mem[d].before
    /\ pc' = [pc EXCEPT ![d] = "done"]
    /\ UNCHANGED <<db, lock, mem, cloud, snapshot, kept>>

-----------------------------------------------------------------------------
(* burla deploy *)

(* prepare_history_migration: only a first deploy migrates. *)
PrepareMigration ==
    /\ pc[Deployer] = "begin" /\ Spend("deploys")
    /\ \/ /\ cloud.vm
          /\ pc' = [pc EXCEPT ![Deployer] = "vm"]
          /\ mem' = [mem EXCEPT ![Deployer] = NoMem] /\ UNCHANGED head
       \/ /\ ~cloud.vm /\ Answers(record.url) /\ head[At(record.url)].jobs # {}
          /\ pc' = [pc EXCEPT ![Deployer] = "done"] /\ UNCHANGED <<mem, head>>
       \/ /\ ~cloud.vm /\ Answers(record.url) /\ head[At(record.url)].jobs = {}
          /\ head' = Paused(At(record.url))
          /\ mem' = [mem EXCEPT ![Deployer].url = record.url, ![Deployer].owned = TRUE]
          /\ pc' = [pc EXCEPT ![Deployer] = "snapshot"]
       \/ /\ ~cloud.vm /\ ~Answers(record.url)
          /\ mem' = [mem EXCEPT ![Deployer].owned = TRUE]
          /\ pc' = [pc EXCEPT ![Deployer] = "snapshot"] /\ UNCHANGED head
    /\ UNCHANGED <<db, shared, cloud, snapshot, kept>>

TakeSnapshot ==
    /\ pc[Deployer] = "snapshot"
    /\ snapshot' = Ended
    /\ pc' = [pc EXCEPT ![Deployer] = "vm"]
    /\ UNCHANGED <<head, db, shared, mem, cloud, kept, calm>>

(* The VM comes up, or the deploy ends with or without it. *)
DeployHeadVm ==
    /\ pc[Deployer] = "vm"
    /\ \/ /\ cloud' = [cloud EXCEPT !.vm = TRUE]
          /\ pc' = [pc EXCEPT ![Deployer] = IF mem[Deployer].owned THEN "upload" ELSE "save"]
          /\ UNCHANGED calm
       \/ /\ Spend("losses")
          /\ \E made \in BOOLEAN : cloud' = [cloud EXCEPT !.vm = @ \/ made]
          /\ pc' = [pc EXCEPT ![Deployer] = "abort"]
    /\ UNCHANGED <<head, db, shared, mem, snapshot, kept>>

(* import_snapshot: one transaction, into a history that is empty. *)
Imported == IF cloud.history = {} THEN snapshot ELSE cloud.history

(* The answer may be lost. *)
UploadHistory ==
    /\ pc[Deployer] = "upload"
    /\ \/ /\ cloud' = [cloud EXCEPT !.history = Imported]
          /\ pc' = [pc EXCEPT ![Deployer] = "finish"] /\ UNCHANGED calm
       \/ /\ Spend("losses")
          /\ cloud' \in {cloud, [cloud EXCEPT !.history = Imported]}
          /\ pc' = [pc EXCEPT ![Deployer] = "abort"]
    /\ UNCHANGED <<head, db, shared, mem, snapshot, kept>>

AbortDeploy ==
    /\ pc[Deployer] = "abort"
    /\ \/ /\ Answers(mem[Deployer].url)
          /\ head' = [head EXCEPT ![At(mem[Deployer].url)].paused = FALSE]
          /\ UNCHANGED calm
       \/ ~Answers(mem[Deployer].url) /\ UNCHANGED <<head, calm>>
       \/ Spend("losses") /\ UNCHANGED head
    /\ pc' = [pc EXCEPT ![Deployer] = "begin"]
    /\ UNCHANGED <<db, shared, mem, cloud, snapshot, kept>>

FinishMigration ==
    /\ pc[Deployer] = "finish" /\ lock = NoOne
    /\ owner' = NoPid
    /\ StopRecorded(record.pid)
    /\ pc' = [pc EXCEPT ![Deployer] = "save"]
    /\ UNCHANGED <<db, lock, mem, cloud, snapshot, kept, calm>>

SelectDeployed ==
    /\ pc[Deployer] = "save"
    /\ \/ /\ cloud' = [cloud EXCEPT !.selected = TRUE]
          /\ pc' = [pc EXCEPT ![Deployer] = "done"] /\ UNCHANGED calm
       \/ /\ Spend("losses")
          /\ pc' = [pc EXCEPT ![Deployer] = "begin"] /\ UNCHANGED cloud
    /\ UNCHANGED <<head, db, shared, mem, snapshot, kept>>

-----------------------------------------------------------------------------
Next ==
    \/ \E h \in Pids : Boot(h) \/ HeadDies(h) \/ \E c \in Calls : ReapJob(h, c)
    \/ \E a \in Calls \cup Dashboards :
          ReadRecord(a) \/ SpawnHead(a) \/ RecordHead(a) \/ HeadReady(a) \/ HeadNeverReady(a)
    \/ \E c \in Calls :
          \/ Acquire(c) \/ OwnHead(c) \/ StartJob(c) \/ EndJob(c)
          \/ Release(c) \/ ReleaseEnds(c) \/ CallKilled(c)
    \/ \E d \in Dashboards :
          \/ Claim(d) \/ Attach(d) \/ InterruptStart(d) \/ Undo(d)
          \/ InterruptDashboard(d) \/ ResumeUnsure(d) \/ StopDashboard(d)
          \/ DashboardFails(d)
    \/ PrepareMigration \/ TakeSnapshot \/ DeployHeadVm \/ UploadHistory
    \/ AbortDeploy \/ FinishMigration \/ SelectDeployed

Spec == Init /\ [][Next]_vars

-----------------------------------------------------------------------------
(* Properties *)

Places == {"begin", "read", "spawn", "record", "boot", "pid", "acquired", "job", "release",
           "stopping", "attach", "attached", "undo", "unsure", "stop", "snapshot",
           "vm", "upload", "abort", "finish", "save", "done"}

(* The types, and that the lifecycle lock is held by a call that stops its head
   and by nobody else. *)
TypeOK ==
    /\ head \in [Pids -> [state : {"unused", "booting", "up", "dead"},
                          port : {Preferred} \cup Pids, paused : BOOLEAN,
                          jobs : SUBSET Calls]]
    /\ \A h \in Pids : head[h].jobs # {} => head[h].state = "up"
    /\ db \in [Calls -> {"none", "running", "ended"}]
    /\ record.pid \in {NoPid} \cup Pids /\ owner \in {NoPid} \cup Pids
    /\ pc \in [Actors -> Places]
    /\ \A a \in Actors : lock = a <=> pc[a] = "stopping"
    /\ kept \subseteq Pids /\ snapshot \subseteq Calls /\ cloud.history \subseteq Calls

(* A head that lives is the one head.json names, or is about to be written there,
   so that the next one who cannot reach it kills it (_local_head.py,
   _run_local_head: "Written before the readiness wait so a failed boot never leaks
   the process").  Excepted are two who start a head at once, which lose one of
   them, and one who is killed between the start of the process and the write. *)
HeadsRecorded ==
    mishaps \cap {"collision", "leaked"} = {} =>
    \A h \in Pids : Alive(h) =>
        \/ record.pid = h
        \/ \E a \in Calls \cup Dashboards : pc[a] = "record" /\ mem[a].mine = h

(* The comment without the exception: "a failed boot never leaks the process".
   No run checks it: a kill between Popen and the write leaks one (see the README). *)
NeverLeaked == "leaked" \notin mishaps

(* The processes of a machine are through, nothing failed, and no dashboard left
   its head running on purpose: no head is left ("leaves no head and no nodes
   running when it finishes", src/REQUIREMENTS.md, R3). *)
NothingLeft ==
    /\ \A a \in Actors : pc[a] \in {"done", "begin"}
    /\ mishaps \cap {"collision", "crashes", "losses", "abandons"} = {}
    => \A h \in Pids : Alive(h) => h \in kept

(* A head that is stopped after Ctrl-C in its dashboard runs no job when it goes:
   jobs are not admitted between the look at it and the kill (src/REQUIREMENTS.md,
   R19).  Of the other ways a head is stopped nothing of the kind holds: see
   SharedHeadSpared. *)
StoppedIdle ==
    "collision" \notin mishaps =>
    \A d \in Dashboards :
        pc[d] = "stop" /\ Alive(mem[d].pid) => head[mem[d].pid].jobs = {}

(* The end of the call that started a head cancels no other call's job on it.
   No run checks it: release_head asks for dashboards and not for jobs (see the
   README). *)
SharedHeadSpared ==
    [][\A c, d \in Calls :
          c # d /\ pc[c] = "release" /\ pc'[c] = "stopping" /\ db[d] = "running"
          => db'[d] = "running"]_vars

(* The call that started a head does not stop it under a dashboard that attached
   since ("must relinquish cleanup before the dashboard attaches, or its normal
   teardown can kill the shared service"). *)
DashboardKept ==
    [][\A d \in Dashboards, c \in Calls :
          /\ pc[d] = "attached" /\ Alive(mem[d].pid)
          /\ pc[c] = "stopping" /\ pc'[c] = "done"
          => Alive(mem[d].pid)']_vars

(* From the copy of the history until the local head is stopped nothing is written
   that the copy lacks: the head was idle and admits no job, whoever asks
   (prepare_history_migration: "Quiesce the account-wide ad hoc head"), as long as
   no Ctrl-C in a dashboard resumes or stops the head meanwhile. *)
CopyStaysTrue ==
    /\ pc[Deployer] \in {"vm", "upload", "finish"} /\ mem[Deployer].url # NoUrl
    /\ mishaps \cap {"crashes", "losses", "interrupts"} = {}
    => snapshot = Ended /\ Running = {}

(* A machine pointed at the deployed cluster finds its finished jobs there ("A
   first deploy carries this machine's client-hosted job history and settings into
   the deployed cluster", src/REQUIREMENTS.md, R5). A deploy that fails after it
   made the VM is not the first when it is run again, and copies nothing.
   No run checks it: a repeated deploy breaks it (see the README). *)
HistoryMigrated == cloud.selected => Ended \subseteq cloud.history

(* The machine's heads are accounted for whatever its processes do at once: each
   that lives is on record or about to be, none is left when all are through, Ctrl-C
   in a dashboard stops none with a job on it, and none has its history copied with
   one. *)
HeadsAccounted == TypeOK /\ HeadsRecorded /\ NothingLeft /\ StoppedIdle /\ CopyStaysTrue
=============================================================================
