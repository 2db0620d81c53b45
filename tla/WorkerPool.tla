------------------------------ MODULE WorkerPool ------------------------------
(* The workers of one node during one job (worker_client.py): the input loop of
   each worker, the RAM monitor that parks or kills workers under memory pressure,
   the recovery loop that resumes and re-adds them, the revocation of running
   inputs for an idle peer, slots the head takes back, and the end of the job.

   A worker is its WorkerClient together with its container.  Memory, CPU shares
   and progress are choices (which workers are shed, whether a parked heap fits
   back into RAM); the order of the queue, logs and the backpressure of the
   results queue are left out.  All state belongs to one event loop: an action
   is what runs between two awaits. *)
EXTENDS Integers, FiniteSets

CONSTANTS
    Workers,      \* room for that many WorkerClients (INSTANCE_N_CPUS)
    FirstWorkers, \* those the node booted with
    Inputs,       \* the inputs in the node's queue
    NoInput,      \* current_input is None
    Faults,       \* the sets of faults a behaviour may combine, see Init
    MaxSheds,     \* bound on parks and pressure kills
    MaxShocks     \* bound on faults of a behaviour

ASSUME WorkersAssumption == IsFiniteSet(Workers) /\ FirstWorkers \subseteq Workers
ASSUME InputsAssumption == IsFiniteSet(Inputs)
ASSUME NoInputAssumption == NoInput \notin Inputs
ASSUME FaultsAssumption ==
    Faults \subseteq SUBSET {"process", "container", "peer", "rollback", "endMidPark"}
ASSUME BoundsAssumption == MaxSheds \in Nat /\ MaxShocks \in Nat

VARIABLES
    dynamicRam,   \* SELF["dynamic_func_ram"]
    faults,       \* what may happen in this behaviour
    worker,       \* per worker: its WorkerClient, see Worker
    slow,         \* the workers whose container really has the 1% CPU quota
    queue,        \* SELF["inputs_queue"]
    resultsOf,    \* per input: the results put in results_queue
    handed,       \* the inputs revoked for a peer
    erred,        \* a result is an error other than the user function's own
    parking,      \* the workers park_workers_for_memory has still to park; it
                  \* holds dynamic_retire_lock while there are any
    monitorUp,    \* dynamic_ram_monitor_task has not crashed
    toShed,       \* SELF["shed_slots_pending"]
    target,       \* SELF["target_parallelism"]
    reboot,       \* SELF["reboot_containers_after_job"]
    stage,        \* "running", "failed" (the watcher crashed), "over"
    sheds, shocks \* what was used of the bounds

poolVars == <<worker, slow, parking>>
jobVars == <<queue, resultsOf, handed, erred>>
slotVars == <<toShed, target, reboot>>
modeVars == <<dynamicRam, faults, monitorUp, stage, sheds, shocks>>
vars == <<poolVars, jobVars, slotVars, modeVars>>

(* life: "spare" (not created yet), "active", "retired" (.retired).
   at: where _process_inputs stands: the top of the loop, waiting for the lock in
     _unthrottle_one_parked_worker, waiting while workers are parked, in
     inputs_queue.get(), in call_function, with a result, an error or its last
     error in hand (finish_input), in _raise_if_worker_failed, waiting for the
     lock in _retire_after_dynamic_worker_failure, or returned.
   current: .current_input; input: the same input in a local variable of the loop.
   proc: "up"; "stale": the process ended and worker_host_pid still names it;
     "relaunched": it ended and the pid is that of its successor, which does not
     have the connection; "gone": the container is not running.
   fits: its swapped pages fit back into RAM. *)
Worker == [life : {"spare", "active", "retired"},
           at : {"top", "handoff", "wait", "get", "call", "result", "error",
                 "lastError", "failing", "failed", "returned"},
           current : Inputs \cup {NoInput}, input : Inputs \cup {NoInput},
           proc : {"up", "stale", "relaunched", "gone"},
           throttled : BOOLEAN, swapParked : BOOLEAN, reclaiming : BOOLEAN,
           fits : BOOLEAN]

(* A WorkerClient with its container just booted, or not created yet. *)
Fresh(life) == [life |-> life, at |-> IF life = "spare" THEN "returned" ELSE "top",
                current |-> NoInput, input |-> NoInput, proc |-> "up",
                throttled |-> FALSE, swapParked |-> FALSE, reclaiming |-> FALSE,
                fits |-> TRUE]

Init ==
    /\ dynamicRam \in BOOLEAN
    /\ faults \in Faults
    /\ worker = [w \in Workers |->
                   Fresh(IF w \in FirstWorkers THEN "active" ELSE "spare")]
    /\ slow = {} /\ parking = {}
    /\ queue = Inputs
    /\ resultsOf = [i \in Inputs |-> 0]
    /\ handed = {} /\ erred = FALSE
    /\ monitorUp = TRUE /\ toShed = 0
    /\ target = Cardinality(FirstWorkers)
    /\ reboot = FALSE /\ stage = "running" /\ sheds = 0 /\ shocks = 0

Running == stage = "running"
LockFree == parking = {}
Active == {w \in Workers : worker[w].life = "active"}
Parked == {w \in Active : worker[w].throttled}
Busy == {w \in Active : worker[w].current # NoInput}

(* .is_idle: set at the top of the loop, cleared by the next input. *)
Idle(w) == worker[w].at \in {"top", "handoff", "wait", "get"}

(* Parallelism the monitors count: neither parked nor idle. *)
RunningUnthrottled == {w \in Busy \ Parked : ~Idle(w)}

At(w, label) == Running /\ worker[w].at = label
Goto(w, label) == worker' = [worker EXCEPT ![w].at = label]

-----------------------------------------------------------------------------
(* _kill_worker_process: killpg raises ProcessLookupError when the pid names a
   process that is gone; otherwise the container is removed as well. *)
KillRaises(V) == \E v \in V : worker[v].proc \in {"stale", "gone"}

(* The workers of V retired, their input taken away, their process killed. *)
Retired(V) ==
    [v \in Workers |->
       IF v \notin V THEN worker[v]
       ELSE [worker[v] EXCEPT !.life = "retired", !.current = NoInput,
               !.proc = IF @ \in {"up", "relaunched"} THEN "gone" ELSE @]]

CurrentInputs(V) == {worker[v].current : v \in V}

(* The top of the loop of _process_inputs: a slot taken back is given up here;
   then parked attempts come first; else the worker asks for an input. *)
ShedSelf(w) ==
    /\ At(w, "top") /\ worker[w].life = "active" /\ toShed > 0
    /\ toShed' = toShed - 1
    /\ worker' = [Retired({w}) EXCEPT ![w].at = "returned"]
    /\ slow' = slow \ {w}
    /\ reboot' = TRUE
    /\ UNCHANGED <<parking, jobVars, target, modeVars>>

LoopTop(w) ==
    /\ At(w, "top") /\ ~(worker[w].life = "active" /\ toShed > 0)
    /\ Goto(w, IF Parked # {} THEN "handoff" ELSE "get")
    /\ UNCHANGED <<slow, parking, jobVars, slotVars, modeVars>>

(* _unthrottle_one_parked_worker: of the parked workers, one that was only
   throttled or whose memory fits back (the one with most progress). *)
Resumable == {v \in Parked : worker[v].swapParked => worker[v].fits}

Resumed(v) == [worker EXCEPT ![v].throttled = FALSE, ![v].swapParked = FALSE]

Handoff(w) ==
    /\ At(w, "handoff") /\ LockFree
    /\ \/ /\ Resumable = {}
          /\ Goto(w, "wait")
          /\ UNCHANGED slow
       \/ \E v \in Resumable :
             /\ worker' = [Resumed(v) EXCEPT ![w].at = "wait"]
             /\ slow' = slow \ {v}
    /\ UNCHANGED <<parking, jobVars, slotVars, modeVars>>

StopWaiting(w) ==
    /\ At(w, "wait") /\ Parked = {}
    /\ Goto(w, "get")
    /\ UNCHANGED <<slow, parking, jobVars, slotVars, modeVars>>

(* inputs_queue.get() returns: nothing is checked again before the call. *)
TakeInput(w, i) ==
    /\ At(w, "get") /\ i \in queue
    /\ queue' = queue \ {i}
    /\ worker' = [worker EXCEPT ![w].current = i, ![w].input = i,
                    ![w].at = "call"]
    /\ UNCHANGED <<slow, parking, resultsOf, handed, erred, slotVars, modeVars>>

(* The response is read; current_input stays set while finish_input waits for the
   input's logs.  A parked call may still answer. *)
CallEnds(w) ==
    /\ At(w, "call") /\ worker[w].proc = "up"
    /\ Goto(w, "result")
    /\ UNCHANGED <<slow, parking, jobVars, slotVars, modeVars>>

CallBreaks(w) ==
    /\ At(w, "call") /\ worker[w].proc # "up"
    /\ Goto(w, "failing")
    /\ UNCHANGED <<slow, parking, jobVars, slotVars, modeVars>>

(* A result is dropped if the worker was retired meanwhile. *)
Dropped(w) == worker[w].life = "retired"

PutResult(i) == resultsOf' = [resultsOf EXCEPT ![i] = @ + 1]

ConcludeKeepsCurrent(w) ==
    /\ Running /\ worker[w].at \in {"result", "error", "lastError"}
    /\ worker' = [worker EXCEPT ![w].input = NoInput,
                    ![w].at = IF Dropped(w) \/ @ = "lastError" THEN "returned" ELSE "top"]
    /\ IF Dropped(w) THEN UNCHANGED <<resultsOf, erred>>
       ELSE /\ PutResult(worker[w].input)
            /\ erred' = (erred \/ worker[w].at # "result")
    /\ UNCHANGED <<slow, parking, queue, handed, slotVars, modeVars>>

Conclude(w) ==
    /\ Running /\ worker[w].at \in {"result", "error", "lastError"}
    /\ worker' = [worker EXCEPT ![w].current = NoInput, ![w].input = NoInput,
                    ![w].at = IF Dropped(w) \/ @ = "lastError" THEN "returned" ELSE "top"]
    /\ IF Dropped(w) THEN UNCHANGED <<resultsOf, erred>>
       ELSE /\ PutResult(worker[w].input)
            /\ erred' = (erred \/ worker[w].at # "result")
    /\ UNCHANGED <<slow, parking, queue, handed, slotVars, modeVars>>

IntendedIfParked(w) == worker[w].current = NoInput \/ worker[w].throttled

(* The handlers of call_function's exceptions.  Retired, or its input taken away:
   the kill was intended and nothing is reported.  A process that ended (or a
   container that was OOM-killed) retires the worker of a dynamic-RAM job and is
   the last error of a fixed-RAM one; a stopped container is an error result. *)
Intended(w) == worker[w].current = NoInput \/ worker[w].life = "retired"

HandleFailure(w) ==
    /\ At(w, "failing")
    /\ \E oomKilled \in BOOLEAN :
          worker' = [worker EXCEPT
            ![w].input = IF Intended(w) THEN NoInput ELSE @,
            ![w].current = IF Intended(w) THEN NoInput ELSE @,
            ![w].at =
              CASE Intended(w) -> "returned"
                [] ~Intended(w) /\ worker[w].proc = "gone" /\ ~oomKilled -> "error"
                [] OTHER -> IF dynamicRam THEN "failed" ELSE "lastError"]
    /\ UNCHANGED <<slow, parking, jobVars, slotVars, modeVars>>

(* _retire_after_dynamic_worker_failure, once it has the lock: nothing to do if a
   pressure retirement requeued the input; the last worker reports the error; else
   the worker retires, its input is requeued and its container deleted. *)
RetireAfterFailure(w) ==
    /\ At(w, "failed") /\ LockFree
    /\ LET i == worker[w].input
           left == [worker EXCEPT ![w].at = "returned", ![w].current = NoInput,
                      ![w].input = NoInput]
       IN \/ /\ worker[w].current = NoInput
             /\ worker' = left
             /\ UNCHANGED <<slow, queue, resultsOf, erred, reboot>>
          \/ /\ worker[w].current # NoInput /\ Active \ {w} = {}
             /\ worker' = [left EXCEPT ![w].life = "retired"]
             /\ PutResult(i) /\ erred' = TRUE /\ reboot' = TRUE
             /\ UNCHANGED <<slow, queue>>
          \/ /\ worker[w].current # NoInput /\ Active \ {w} # {}
             /\ worker' = [left EXCEPT ![w].life = "retired", ![w].proc = "gone"]
             /\ queue' = queue \cup {i} /\ slow' = slow \ {w} /\ reboot' = TRUE
             /\ UNCHANGED <<resultsOf, erred>>
    /\ UNCHANGED <<parking, handed, toShed, target, modeVars>>

-----------------------------------------------------------------------------
(* The monitor kills workers (retire_workers_for_pressure).  The selection is
   made before the lock is taken, so it is filtered again under the lock; one
   active worker remains.  A kill that raises ends the monitor's task. *)
Killable(V) ==
    /\ V # {} /\ V \subseteq Busy
    /\ Cardinality(V) <= Cardinality(Active) - 1

RetireForPressure(V) ==
    /\ LockFree /\ Killable(V)
    /\ worker' = Retired(V)
    /\ queue' = queue \cup CurrentInputs(V)
    /\ slow' = slow \ {v \in V : worker'[v].proc = "gone"}
    /\ reboot' = TRUE
    /\ monitorUp' = (monitorUp /\ ~KillRaises(V))
    /\ UNCHANGED <<parking, resultsOf, handed, erred, toShed, target>>

Monitoring == Running /\ dynamicRam /\ monitorUp

KillForPressure ==
    /\ Monitoring /\ sheds < MaxSheds
    /\ \E V \in SUBSET Workers : RetireForPressure(V)
    /\ sheds' = sheds + 1
    /\ UNCHANGED <<dynamicRam, faults, stage, shocks>>

DeadlockedOnlyParked ==
    /\ \E v \in Busy : worker[v].swapParked
    /\ \A v \in Active : worker[v].throttled /\ ~worker[v].reclaiming
    /\ Resumable = {}

(* The deadlock backstop: idle workers wait on parked ones none of which fits back
   into RAM; after PARKED_UNRESUMABLE_KILL_SECONDS one of them is killed. *)
Deadlocked ==
    /\ \E v \in Busy : worker[v].swapParked
    /\ \E v \in Active \ Parked : Idle(v)
    /\ \A v \in Active : ~worker[v].reclaiming
    /\ Resumable = {}

KillUnresumable ==
    /\ Monitoring /\ Deadlocked
    /\ \E v \in Busy : worker[v].swapParked /\ RetireForPressure({v})
    /\ UNCHANGED <<dynamicRam, faults, stage, sheds, shocks>>

(* park_workers_for_memory: under the lock at least one RUNNING unthrottled worker
   is left; the workers chosen are then throttled one docker call at a time.  The
   monitor parks no more while a reclaim is in flight. *)
Parkable(V) ==
    /\ V # {} /\ V \subseteq Busy \ Parked
    /\ Cardinality(V) <= Cardinality(RunningUnthrottled) - 1

BeginPark ==
    /\ Monitoring /\ LockFree /\ sheds < MaxSheds
    /\ \A v \in Active : ~worker[v].reclaiming
    /\ \E V \in SUBSET Workers : Parkable(V) /\ parking' = V
    /\ sheds' = sheds + 1
    /\ UNCHANGED <<worker, slow, jobVars, slotVars, dynamicRam, faults, monitorUp,
                   stage, shocks>>

(* park_for_memory: the quota, then swap access, which fails while the process is
   relaunched.  Without a container the call raises and the monitor ends. *)
ParkOne(w) ==
    /\ Running /\ w \in parking
    /\ \/ /\ worker[w].proc # "gone"
          /\ \E fits \in BOOLEAN :
                worker' = [worker EXCEPT ![w].throttled = TRUE, ![w].reclaiming = TRUE,
                             ![w].swapParked = worker[w].proc # "stale",
                             ![w].fits = fits]
          /\ slow' = slow \cup {w}
          /\ parking' = parking \ {w}
          /\ UNCHANGED monitorUp
       \/ /\ worker[w].proc = "gone"
          /\ parking' = {} /\ monitorUp' = FALSE
          /\ UNCHANGED <<worker, slow>>
    /\ UNCHANGED <<jobVars, slotVars, dynamicRam, faults, stage, sheds, shocks>>

(* _reclaim_parked_worker_memory ends: done, stalled, aborted or cgroup gone. *)
ReclaimEnds(w) ==
    /\ Running /\ worker[w].reclaiming
    /\ worker' = [worker EXCEPT ![w].reclaiming = FALSE]
    /\ UNCHANGED <<slow, parking, jobVars, slotVars, modeVars>>

(* Other attempts end and leave room for a parked heap. *)
MemoryFrees(w) ==
    /\ Running /\ w \in Parked /\ ~worker[w].fits
    /\ worker' = [worker EXCEPT ![w].fits = TRUE]
    /\ UNCHANGED <<slow, parking, jobVars, slotVars, modeVars>>

-----------------------------------------------------------------------------
(* The recovery loop: parked workers first, ... *)
RecoverParked ==
    /\ Running /\ LockFree
    /\ \E v \in Resumable : worker' = Resumed(v) /\ slow' = slow \ {v}
    /\ UNCHANGED <<parking, jobVars, slotVars, modeVars>>

(* ... then, with queued work, a fresh worker: up to the target, or one past it
   while RAM has room (memory_probe).  It takes the place of a retired one, if
   any, whose input loop is over. *)
Unused(w) ==
    /\ worker[w].life # "active" /\ worker[w].at = "returned"
    /\ ~worker[w].reclaiming

ReaddWorker ==
    /\ Running /\ Parked = {} /\ queue # {}
    /\ LET deficit == target - Cardinality(Active) IN
          /\ deficit > 0 \/ dynamicRam
          /\ target' = IF deficit > 0 THEN target ELSE target + 1
    /\ \E w \in Workers : /\ Unused(w)
                          /\ worker' = [worker EXCEPT ![w] = Fresh("active")]
                          /\ slow' = slow \ {w}
    /\ UNCHANGED <<parking, jobVars, toShed, reboot, modeVars>>

(* The RAM monitor returns when it finds no active worker; nobody starts it again. *)
MonitorReturns ==
    /\ Monitoring /\ Active = {} /\ LockFree
    /\ monitorUp' = FALSE
    /\ UNCHANGED <<poolVars, jobVars, slotVars, dynamicRam, faults, stage, sheds, shocks>>

(* A monitor finds the process of an active worker gone: the pid of the relaunched
   one is read, or, without a running container, the worker is retired.  The RAM
   monitor looks at every worker, the CPU loop at the unthrottled ones. *)
Relocate(w) ==
    /\ Running /\ w \in Active
    /\ (monitorUp /\ dynamicRam /\ LockFree) \/ ~worker[w].throttled
    /\ \/ /\ worker[w].proc = "stale"
          /\ worker' = [worker EXCEPT ![w].proc = "relaunched"]
          /\ UNCHANGED reboot
       \/ /\ worker[w].proc = "gone"
          /\ worker' = [worker EXCEPT ![w].life = "retired"]
          /\ reboot' = TRUE
    /\ UNCHANGED <<slow, parking, jobVars, toShed, target, modeVars>>

(* revoke_inputs_for_idle_peer: the peer takes parked attempts and, while the
   cores are saturated, up to half of the running ones.  If a kill raises, so does
   the request: the inputs are neither requeued nor handed over. *)
Revocable(V) ==
    /\ V # {} /\ V \subseteq Busy
    /\ Cardinality(V \ Parked) <= Cardinality(Busy \ Parked) \div 2

RevokeForPeer ==
    /\ Running /\ LockFree /\ queue = {}
    /\ "peer" \in faults /\ shocks < MaxShocks
    /\ \E V \in SUBSET Workers :
          /\ Revocable(V)
          /\ worker' = Retired(V)
          /\ slow' = slow \ {v \in V : worker'[v].proc = "gone"}
          /\ handed' = IF KillRaises(V) THEN handed ELSE handed \cup CurrentInputs(V)
    /\ reboot' = TRUE
    /\ shocks' = shocks + 1
    /\ UNCHANGED <<parking, queue, resultsOf, erred, toShed, target, dynamicRam,
                   faults, monitorUp, stage, sheds>>

(* The head takes back minted slots (mint_shed, applied by push_state). *)
RollBackMint ==
    /\ Running /\ "rollback" \in faults /\ shocks < MaxShocks
    /\ \E n \in 1..target : target' = target - n /\ toShed' = toShed + n
    /\ shocks' = shocks + 1
    /\ UNCHANGED <<poolVars, jobVars, reboot, dynamicRam, faults, monitorUp, stage, sheds>>

(* The job watcher retires workers that wait on an empty queue: their task is
   cancelled, then they are killed; a kill that raises fails the job. *)
ShedIdle ==
    /\ Running /\ toShed > 0 /\ LockFree /\ queue = {}
    /\ \E V \in SUBSET {w \in Active \ Busy : Idle(w)} :
          /\ V # {}
          /\ \/ Cardinality(V) = toShed
             \/ /\ Cardinality(V) < toShed /\ V = {w \in Active \ Busy : Idle(w)}
          /\ toShed' = toShed - Cardinality(V)
          /\ worker' = [v \in Workers |->
                IF v \in V THEN [Retired(V)[v] EXCEPT !.at = "returned"] ELSE worker[v]]
          /\ slow' = slow \ {v \in V : worker'[v].proc = "gone"}
          /\ stage' = IF KillRaises(V) THEN "failed" ELSE stage
    /\ reboot' = TRUE
    /\ UNCHANGED <<parking, jobVars, target, dynamicRam, faults, monitorUp, sheds, shocks>>

(* The watcher's safety net for inputs nobody would run. *)
ReclaimStranded ==
    /\ Running /\ queue # {} /\ target = 0 /\ Active = {}
    /\ target' = Cardinality(queue)
    /\ UNCHANGED <<poolVars, jobVars, toShed, reboot, modeVars>>

-----------------------------------------------------------------------------
(* What may go wrong under a worker, at any moment: its process ends (a crash, an
   exit, the kernel's OOM killer) and the container's shell starts another one,
   or its container stops. *)
ProcessEnds(w) ==
    /\ Running /\ "process" \in faults /\ shocks < MaxShocks
    /\ worker[w].life # "spare" /\ worker[w].proc = "up"
    /\ worker' = [worker EXCEPT ![w].proc = "stale"]
    /\ shocks' = shocks + 1
    /\ UNCHANGED <<slow, parking, jobVars, slotVars, dynamicRam, faults, monitorUp,
                   stage, sheds>>

ContainerStops(w) ==
    /\ Running /\ "container" \in faults /\ shocks < MaxShocks
    /\ worker[w].life # "spare" /\ worker[w].proc = "up"
    /\ worker' = [worker EXCEPT ![w].proc = "gone"]
    /\ slow' = slow \ {w}
    /\ shocks' = shocks + 1
    /\ UNCHANGED <<parking, jobVars, slotVars, dynamicRam, faults, monitorUp, stage, sheds>>

(* The job ends, for whatever reason, and reset_workers runs: the monitors are
   cancelled, in the middle of a docker call if one parks a worker, then every
   input loop.  After a retirement, or if a reset fails, all containers are
   rebooted; else reset() undoes the throttling it knows of and restarts the
   workers that were in a call, and the same containers serve the next job. *)
CannotReset(w) == worker[w].proc = "gone" \/ (worker[w].proc # "up" /\ Idle(w))

RebootNeeded == reboot \/ \E w \in Active : CannotReset(w)

KnownThrottled == {w \in Workers : worker[w].throttled}

EndJob ==
    /\ stage \in {"running", "failed"}
    /\ parking = {} \/ "endMidPark" \in faults
    /\ \E W \in {{}} \cup {{w} : w \in parking} :
          slow' = IF RebootNeeded THEN {} ELSE (slow \cup W) \ KnownThrottled
    /\ worker' = [w \in Workers |->
                    Fresh(IF w \in FirstWorkers THEN "active" ELSE "spare")]
    /\ parking' = {} /\ queue' = {} /\ monitorUp' = TRUE
    /\ toShed' = 0 /\ target' = 0 /\ reboot' = FALSE
    /\ stage' = "over" /\ sheds' = 0 /\ shocks' = 0
    /\ UNCHANGED <<resultsOf, handed, erred, dynamicRam, faults>>

Over == stage = "over" /\ UNCHANGED vars

-----------------------------------------------------------------------------
InputLoop(w) ==
    \/ ShedSelf(w) \/ LoopTop(w) \/ Handoff(w) \/ StopWaiting(w)
    \/ \E i \in Inputs : TakeInput(w, i)
    \/ CallEnds(w) \/ CallBreaks(w) \/ Conclude(w)
    \/ HandleFailure(w) \/ RetireAfterFailure(w)

Next ==
    \/ \E w \in Workers : InputLoop(w) \/ ParkOne(w) \/ ReclaimEnds(w) \/ Relocate(w)
    \/ KillForPressure \/ KillUnresumable \/ BeginPark
    \/ MonitorReturns \/ RecoverParked \/ ReaddWorker
    \/ RevokeForPeer \/ RollBackMint \/ ShedIdle \/ ReclaimStranded
    \/ \E w \in Workers : ProcessEnds(w) \/ ContainerStops(w) \/ MemoryFrees(w)
    \/ EndJob
    \/ Over

Spec == Init /\ [][Next]_vars

(* Tasks run, docker calls and reclaims end, and calls of unparked workers return
   (the user's functions terminate).  The gates of the recovery loop open in the
   end: they measure load, and a node whose unparked workers all wait has none.
   No fairness for pressure, memory that frees, faults or the end of the job. *)
Fairness ==
    /\ \A w \in Workers :
          /\ WF_vars(ShedSelf(w) \/ LoopTop(w) \/ Handoff(w) \/ StopWaiting(w))
          /\ WF_vars(\E i \in Inputs : TakeInput(w, i))
          /\ WF_vars(CallEnds(w) /\ ~worker[w].throttled)
          /\ WF_vars(CallBreaks(w) \/ Conclude(w) \/ HandleFailure(w))
          /\ WF_vars(RetireAfterFailure(w))
          /\ WF_vars(ParkOne(w))
          /\ WF_vars(ReclaimEnds(w))
    /\ WF_vars(KillUnresumable)
    /\ WF_vars(RecoverParked)
    /\ WF_vars(ReaddWorker)
    /\ WF_vars(ReclaimStranded)

FairSpec == Spec /\ Fairness

(* And what the code relies on beyond its backstop: a parked heap fits back into
   RAM in the end, unless the worker has an input and another waits for work. *)
BackstopApplies(w) == w \in Busy /\ \E v \in Active \ Parked : Idle(v)

SpecMemoryFrees ==
    FairSpec /\ \A w \in Workers : WF_vars(MemoryFrees(w) /\ ~BackstopApplies(w))

-----------------------------------------------------------------------------
(* Type correctness. *)
TypeOK ==
    /\ dynamicRam \in BOOLEAN /\ faults \in Faults
    /\ worker \in [Workers -> Worker]
    /\ slow \subseteq Workers /\ parking \subseteq Workers
    /\ queue \subseteq Inputs /\ handed \subseteq Inputs
    /\ resultsOf \in [Inputs -> Nat]
    /\ erred \in BOOLEAN /\ monitorUp \in BOOLEAN /\ reboot \in BOOLEAN
    /\ toShed \in Nat /\ target \in Nat
    /\ stage \in {"running", "failed", "over"}
    /\ sheds \in 0..MaxSheds /\ shocks \in 0..MaxShocks

(* The places that still answer for input i. *)
Owners(i) ==
    {w \in Workers : worker[w].current = i
                     /\ (w \in Active \/ worker[w].at = "failed")}
        \cup (IF i \in queue THEN {"queue"} ELSE {})
        \cup (IF i \in handed THEN {"peer"} ELSE {})

(* "exactly-once holds": parks, kills, revocations, failures and late results
   never leave two owners of an input, nor an owner of one that has its result. *)
OneOwner == stage = "running" =>
    \A i \in Inputs : Cardinality(Owners(i)) + resultsOf[i] <= 1

(* A monitor that retires a worker without a container leaves its input to the
   handlers, which take the retirement for an intended kill. *)
ContainerLost == "container" \in faults /\ shocks > 0

(* No input falls between the tasks that hand it around: it is queued, held by a
   worker that will answer for it, given to a peer, or has its result.  Except
   when a container is lost. *)
InputsKept == \A i \in Inputs : Owners(i) # {} \/ resultsOf[i] > 0

NoInputLost == stage = "running" /\ ~ContainerLost => InputsKept

(* reset(): "without this the next job would inherit a ~1%-CPU worker". *)
NextJobAtFullSpeed == stage = "over" => slow = {}

(* Whatever is parked, killed, shed or revoked on the way, every input gets a
   result or is given to a peer, unless the job ends first. *)
EveryInputEnds ==
    <>(stage # "running" \/ erred \/ ContainerLost
         \/ \A i \in Inputs : resultsOf[i] > 0 \/ i \in handed)

(* The pool implements what the job is promised of its inputs; an input given to
   a peer waits again, for that peer's workers. *)
Status(i) ==
    IF i \in queue \cup handed THEN "waiting"
    ELSE IF \E w \in Workers : worker[w].current = i THEN "running"
    ELSE IF resultsOf[i] > 0 THEN "done" ELSE "waiting"

Promise == INSTANCE JobInputs WITH status <- [i \in Inputs |-> Status(i)]
KeepsPromise == Promise!Spec

(* Every input of a running job has exactly one owner, whatever parks, kills,
   revocations, relocations and failures of its workers overlap, and a job leaves
   no worker throttled for the next one (worker_client.py). *)
InputsOwned == TypeOK /\ OneOwner /\ NoInputLost /\ NextJobAtFullSpeed
=============================================================================
