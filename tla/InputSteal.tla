----------------------------- MODULE InputSteal -----------------------------
(* How the inputs of one job move between the nodes that run it: the pull-based
   work stealing of node_service (get_inputs / ack_transfer in job_endpoints.py,
   _input_steal_loop and the exits of _job_watcher in job_watcher.py), the
   worker-side moves it races with (_process_inputs, pressure retirement and
   revocation in worker_client.py) and the network between two nodes, which may
   lose, delay or duplicate what it carries.

   The model starts once every input is uploaded (should_steal requires
   all_inputs_uploaded).  An input is a model value; the order inside a queue,
   byte sizes and pickling are left out.  The number of workers and of slots is
   abstracted to "some" or "none". *)
EXTENDS Integers, FiniteSets

CONSTANTS
    Nodes,       \* the nodes assigned to the job
    Inputs,      \* the job's inputs
    Transfers,   \* the transfer ids (uuid4) a behaviour may use: a bound on steals
    MaxShocks,   \* bound on pressure retirements, worker deaths and lost slots
    Dynamic,     \* func_ram is "dynamic": an attempt whose worker died is retried, and
                 \* workers are added back
    LateGet,     \* TRUE: a GET its sender gave up on may still reach the donor
    Detached,    \* is_background_job
    Scoped,      \* the nodes were booted for this job (job_scope_id)
    NoTransfer,  \* active_input_steal_id is None
    NoNode

ASSUME InputsAssumption == IsFiniteSet(Inputs)
ASSUME MaxShocksAssumption == MaxShocks \in Nat
ASSUME DynamicAssumption == Dynamic \in BOOLEAN
ASSUME LateGetAssumption == LateGet \in BOOLEAN
ASSUME DetachedAssumption == Detached \in BOOLEAN
ASSUME ScopedAssumption == Scoped \in BOOLEAN
ASSUME NoTransferAssumption == NoTransfer \notin Transfers
ASSUME NoNodeAssumption == NoNode \notin Nodes

VARIABLES
    jobStatus,      \* the head's JOBS[job]["status"]
    nodeState,      \* per node: "working", "stopped" (job_watcher_stop_event set),
                    \* "left" (current_job is no longer this job)
    inputsQueue,    \* per node: SELF["inputs_queue"]
    running,        \* per node: the current_input of its workers
    results,        \* per node: results_queue plus pending_result_batch
    produced,       \* per input: how many results some node has queued for it
    delivered,      \* the inputs whose result the client has
    hasTarget,      \* per node: target_parallelism > 0
    hasWorkers,     \* per node: some worker is not retired
    neighborEmpty,  \* per node: SEC_NEIGHBOR_HAD_NO_INPUTS is running
    activeSteal,    \* per node: SELF["active_input_steal_id"]
    phase,          \* per node: where _input_steal_loop stands
    donor,          \* per transfer: the neighbor it was sent to
    ask,            \* per transfer: requester_queue_size, requester_idle_workers > 0
    parked,         \* the transfers in their donor's pending_transfers
    batch,          \* per transfer: the items its donor stashed
    received,       \* per transfer: the requester enqueued the items
    getReq, getResp, getDeny,  \* GET requests, 200 and 404 responses in flight
    ackReq, ackResp,           \* ACK requests and 200 responses in flight
    shocks

jobVars == <<jobStatus, delivered>>
nodeVars == <<nodeState, inputsQueue, running, results, produced>>
slotVars == <<hasTarget, hasWorkers, shocks>>
stealVars == <<activeSteal, phase, donor, ask, received, neighborEmpty>>
netVars == <<getReq, getResp, getDeny, ackReq, ackResp>>
vars == <<jobVars, nodeVars, slotVars, stealVars, parked, batch, netVars>>

Working(n) == nodeState[n] = "working"

(* The ids in SELF["pending_transfers"] of node m. *)
PendingTransfers(m) == {t \in parked : donor[t] = m}

(* The parameters of a GET that is not in flight. *)
NoAsk == [size |-> 0, idle |-> FALSE]

(* Every input is uploaded, to any node, and no worker has started. *)
Init ==
    /\ jobStatus = "RUNNING"
    /\ nodeState = [n \in Nodes |-> "working"]
    /\ \E at \in [Inputs -> Nodes] :
           inputsQueue = [n \in Nodes |-> {i \in Inputs : at[i] = n}]
    /\ running = [n \in Nodes |-> {}]
    /\ results = [n \in Nodes |-> {}]
    /\ produced = [i \in Inputs |-> 0]
    /\ delivered = {}
    /\ hasTarget = [n \in Nodes |-> TRUE]
    /\ hasWorkers = [n \in Nodes |-> TRUE]
    /\ neighborEmpty = [n \in Nodes |-> FALSE]
    /\ activeSteal = [n \in Nodes |-> NoTransfer]
    /\ phase = [n \in Nodes |-> "idle"]
    /\ donor = [t \in Transfers |-> NoNode]
    /\ ask = [t \in Transfers |-> NoAsk]
    /\ parked = {}
    /\ batch = [t \in Transfers |-> {}]
    /\ received = [t \in Transfers |-> FALSE]
    /\ getReq = {} /\ getResp = {} /\ getDeny = {}
    /\ ackReq = {} /\ ackResp = {}
    /\ shocks = 0

-----------------------------------------------------------------------------
(* The workers of a node: _process_inputs and what interrupts it. *)

(* An idle worker takes an input off the queue. *)
StartInput(n, i) ==
    /\ Working(n) /\ hasWorkers[n] /\ i \in inputsQueue[n]
    /\ inputsQueue' = [inputsQueue EXCEPT ![n] = @ \ {i}]
    /\ running' = [running EXCEPT ![n] = @ \cup {i}]
    /\ UNCHANGED <<jobVars, nodeState, results, produced, slotVars, stealVars,
                   parked, batch, netVars>>

(* The call returned or raised: its result goes to the results queue. *)
FinishInput(n, i) ==
    /\ Working(n) /\ i \in running[n]
    /\ running' = [running EXCEPT ![n] = @ \ {i}]
    /\ results' = [results EXCEPT ![n] = @ \cup {i}]
    /\ produced' = [produced EXCEPT ![i] = @ + 1]
    /\ UNCHANGED <<jobVars, nodeState, inputsQueue, slotVars, stealVars,
                   parked, batch, netVars>>

(* Pressure retirement, or a worker that died with others left: the attempt is
   abandoned and its input requeued, in a dynamic job.  The last worker is never
   retired. *)
RequeueInput(n, i) ==
    /\ Dynamic /\ shocks < MaxShocks
    /\ Working(n) /\ i \in running[n]
    /\ shocks' = shocks + 1
    /\ running' = [running EXCEPT ![n] = @ \ {i}]
    /\ inputsQueue' = [inputsQueue EXCEPT ![n] = @ \cup {i}]
    /\ UNCHANGED <<jobVars, nodeState, results, produced, hasTarget, hasWorkers,
                   stealVars, parked, batch, netVars>>

(* The last worker died: nothing is left to retry the input, so the failure is
   delivered as its result.  (In a job that is not dynamic the failure of any worker
   is: with others left, that is FinishInput.) *)
LastWorkerDies(n, i) ==
    /\ shocks < MaxShocks
    /\ Working(n) /\ running[n] = {i}
    /\ shocks' = shocks + 1
    /\ running' = [running EXCEPT ![n] = {}]
    /\ results' = [results EXCEPT ![n] = @ \cup {i}]
    /\ produced' = [produced EXCEPT ![i] = @ + 1]
    /\ hasWorkers' = [hasWorkers EXCEPT ![n] = FALSE]
    /\ UNCHANGED <<jobVars, nodeState, inputsQueue, hasTarget, stealVars,
                   parked, batch, netVars>>

(* A peer's trade, a mint rollback or a replacement takes the node's last slots;
   idle workers are retired with them only while the queue is empty. *)
LoseSlots(n) ==
    /\ shocks < MaxShocks
    /\ Working(n) /\ hasTarget[n]
    /\ shocks' = shocks + 1
    /\ hasTarget' = [hasTarget EXCEPT ![n] = FALSE]
    /\ \/ UNCHANGED hasWorkers
       \/ /\ inputsQueue[n] = {} /\ running[n] = {}
          /\ hasWorkers' = [hasWorkers EXCEPT ![n] = FALSE]
    /\ UNCHANGED <<jobVars, nodeVars, stealVars, parked, batch, netVars>>

(* dynamic_worker_readd_loop, which only a dynamic job has, boots a worker toward the
   target. *)
ReaddWorker(n) ==
    /\ Dynamic
    /\ Working(n) /\ hasTarget[n] /\ ~hasWorkers[n]
    /\ hasWorkers' = [hasWorkers EXCEPT ![n] = TRUE]
    /\ UNCHANGED <<jobVars, nodeVars, hasTarget, shocks, stealVars, parked,
                   batch, netVars>>

(* The watcher's safety net for inputs on a node with no slot and no worker. *)
ReclaimStranded(n) ==
    /\ Working(n) /\ inputsQueue[n] # {} /\ ~hasTarget[n] /\ ~hasWorkers[n]
    /\ hasTarget' = [hasTarget EXCEPT ![n] = TRUE]
    /\ UNCHANGED <<jobVars, nodeVars, hasWorkers, shocks, stealVars, parked,
                   batch, netVars>>

(* The client gathers and acknowledges the results a node holds. *)
GatherResults(n) ==
    /\ Working(n) /\ results[n] # {}
    /\ results' = [results EXCEPT ![n] = {}]
    /\ delivered' = delivered \cup results[n]
    /\ UNCHANGED <<jobStatus, nodeState, inputsQueue, running, produced, slotVars,
                   stealVars, parked, batch, netVars>>

-----------------------------------------------------------------------------
(* The requester's side: one round of _input_steal_loop. *)

(* MUTANT: the input the asking worker waits for is subtracted. *)
RemainingInputsLessOne(n) == Cardinality(inputsQueue[n]) - 1

(* requester_queue_size, as it is when the GET is sent. *)
RemainingInputs(n) == Cardinality(inputsQueue[n])

(* A fresh transfer id and a GET to the neighbor.  The neighbor is cached for
   PEER_RECHECK_INTERVAL_SEC, so it may be any other node, even one that left. *)
BeginSteal(n, m, t) ==
    /\ Working(n) /\ phase[n] = "idle" /\ hasTarget[n]
    /\ m # n /\ donor[t] = NoNode
    /\ activeSteal' = [activeSteal EXCEPT ![n] = t]
    /\ phase' = [phase EXCEPT ![n] = "get"]
    /\ donor' = [donor EXCEPT ![t] = m]
    /\ \E idle \in {FALSE, hasWorkers[n]} :
           ask' = [ask EXCEPT ![t] = [size |-> RemainingInputs(n), idle |-> idle]]
    /\ getReq' = getReq \cup {t}
    /\ UNCHANGED <<jobVars, nodeVars, slotVars, received, neighborEmpty, parked,
                   batch, getResp, getDeny, ackReq, ackResp>>

(* The HTTP client repeats a GET whose connection broke before the answer. *)
ResendGet(n) ==
    /\ phase[n] = "get"
    /\ activeSteal[n] \notin getReq \cup getResp \cup getDeny
    /\ getReq' = getReq \cup {activeSteal[n]}
    /\ UNCHANGED <<jobVars, nodeVars, slotVars, stealVars, parked, batch,
                   getResp, getDeny, ackReq, ackResp>>

(* 200: the items are enqueued while this node still has a slot, and bounced
   (received = false) when a trade took the last one meanwhile; the ACK follows. *)
GetAnswered(n) ==
    LET t == activeSteal[n]
        keep == batch[t] # {} /\ hasTarget[n]
    IN  /\ Working(n) /\ phase[n] = "get" /\ t \in getResp
        /\ inputsQueue' = [inputsQueue EXCEPT ![n] =
                               IF keep THEN @ \cup batch[t] ELSE @]
        /\ received' = [received EXCEPT ![t] = keep]
        /\ phase' = [phase EXCEPT ![n] = "ack"]
        /\ getResp' = getResp \ {t}
        /\ ackReq' = ackReq \cup {t}
        /\ UNCHANGED <<jobVars, nodeState, running, results, produced, slotVars,
                       activeSteal, donor, ask, neighborEmpty, parked, batch,
                       getReq, getDeny, ackResp>>

(* 404: the neighbor is not on this job. *)
GetRefused(n) ==
    LET t == activeSteal[n]
    IN  /\ Working(n) /\ phase[n] = "get" /\ t \in getDeny
        /\ activeSteal' = [activeSteal EXCEPT ![n] = NoTransfer]
        /\ phase' = [phase EXCEPT ![n] = "idle"]
        /\ getDeny' = getDeny \ {t}
        /\ UNCHANGED <<jobVars, nodeVars, slotVars, donor, ask, received,
                       neighborEmpty, parked, batch, getReq, getResp, ackReq, ackResp>>

(* The GET raised (timeout, broken connection): no items, ACK received=false.
   The request itself may still be on its way. *)
GetFails(n) ==
    LET t == activeSteal[n]
    IN  /\ Working(n) /\ phase[n] = "get"
        /\ phase' = [phase EXCEPT ![n] = "ack"]
        /\ getReq' = IF LateGet THEN getReq ELSE getReq \ {t}
        /\ getResp' = getResp \ {t}
        /\ getDeny' = getDeny \ {t}
        /\ ackReq' = ackReq \cup {t}
        /\ UNCHANGED <<jobVars, nodeVars, slotVars, activeSteal, donor, ask,
                       received, neighborEmpty, parked, batch, ackResp>>

(* An ACK that failed is sent again after ACK_RETRY_DELAY_SEC. *)
ResendAck(n) ==
    LET t == activeSteal[n]
    IN  /\ Working(n) /\ phase[n] = "ack"
        /\ t \notin ackReq \cup ackResp
        /\ ackReq' = ackReq \cup {t}
        /\ UNCHANGED <<jobVars, nodeVars, slotVars, stealVars, parked, batch,
                       getReq, getResp, getDeny, ackResp>>

(* 200: the transaction is settled. *)
AckAnswered(n) ==
    LET t == activeSteal[n]
    IN  /\ Working(n) /\ phase[n] = "ack" /\ t \in ackResp
        /\ ackResp' = ackResp \ {t}
        /\ activeSteal' = [activeSteal EXCEPT ![n] = NoTransfer]
        /\ phase' = [phase EXCEPT ![n] = "idle"]
        /\ neighborEmpty' = [neighborEmpty EXCEPT ![n] = ~received[t]]
        /\ UNCHANGED <<jobVars, nodeVars, slotVars, donor, ask, received, parked,
                       batch, getReq, getResp, getDeny, ackReq>>

(* The ACK fails, but the head has deleted the neighbor for having finished its
   part of this job (_neighbor_finished_scoped_job): nothing is left to settle. *)
AckPeerFinished(n) ==
    LET t == activeSteal[n]
    IN  /\ Working(n) /\ phase[n] = "ack"
        /\ Scoped /\ nodeState[donor[t]] = "left"
        /\ activeSteal' = [activeSteal EXCEPT ![n] = NoTransfer]
        /\ phase' = [phase EXCEPT ![n] = "idle"]
        /\ neighborEmpty' = [neighborEmpty EXCEPT ![n] = ~received[t]]
        /\ UNCHANGED <<jobVars, nodeVars, slotVars, donor, ask, received, parked,
                       batch, netVars>>

(* No answer for ACK_RETRY_TIMEOUT_SEC: the job is failed and the loop ends. *)
AckGivesUp(n) ==
    /\ Working(n) /\ phase[n] = "ack"
    /\ activeSteal' = [activeSteal EXCEPT ![n] = NoTransfer]
    /\ phase' = [phase EXCEPT ![n] = "ended"]
    /\ jobStatus' = "FAILED"
    /\ UNCHANGED <<delivered, nodeVars, slotVars, donor, ask, received,
                   neighborEmpty, parked, batch, netVars>>

-----------------------------------------------------------------------------
(* The donor's side: get_inputs and ack_transfer, each under input_transfer_lock. *)

(* Nobody reads the answer to a GET its sender gave up on. *)
Waiting(t) == \E n \in Nodes : activeSteal[n] = t /\ phase[n] = "get"

GetNotOnJob(t) ==
    /\ t \in getReq /\ ~Working(donor[t])
    /\ getReq' = getReq \ {t}
    /\ getDeny' = IF Waiting(t) THEN getDeny \cup {t} ELSE getDeny
    /\ UNCHANGED <<jobVars, nodeVars, slotVars, stealVars, parked, batch,
                   getResp, ackReq, ackResp>>

(* The id is already pending: the same items again. *)
GetReplayed(t) ==
    /\ t \in getReq /\ Working(donor[t]) /\ t \in parked
    /\ getReq' = getReq \ {t}
    /\ getResp' = IF Waiting(t) THEN getResp \cup {t} ELSE getResp
    /\ UNCHANGED <<jobVars, nodeVars, slotVars, stealVars, parked, batch,
                   getDeny, ackReq, ackResp>>

(* target_num: half of what the donor has more than the requester. *)
TargetNum(t) ==
    LET have == Cardinality(inputsQueue[donor[t]])
    IN  (IF have > ask[t].size THEN have - ask[t].size ELSE 1) \div 2

(* What may be taken off the queue: target_num items, fewer at the byte cap. *)
QueueGrants(t) ==
    IF TargetNum(t) = 0 THEN {{}}
    ELSE {S \in SUBSET inputsQueue[donor[t]] :
              Cardinality(S) \in 1..TargetNum(t)}

(* What revoke_inputs_for_idle_peer may take off the workers of an idle peer. *)
RevokeGrants(t) ==
    IF inputsQueue[donor[t]] = {} /\ ask[t].size = 0 /\ ask[t].idle
    THEN SUBSET running[donor[t]]
    ELSE {{}}

GetGranted(t) ==
    LET m == donor[t]
    IN  /\ t \in getReq /\ Working(m) /\ t \notin parked
        /\ \E S \in QueueGrants(t) :
           \E R \in IF S = {} THEN RevokeGrants(t) ELSE {{}} :
              /\ inputsQueue' = [inputsQueue EXCEPT ![m] = @ \ S]
              /\ running' = [running EXCEPT ![m] = @ \ R]
              /\ batch' = [batch EXCEPT ![t] = S \cup R]
              /\ \/ UNCHANGED hasWorkers
                 \/ /\ R # {} /\ R = running[m]
                    /\ hasWorkers' = [hasWorkers EXCEPT ![m] = FALSE]
        /\ parked' = parked \cup {t}
        /\ ask' = [ask EXCEPT ![t] = NoAsk]
        /\ getReq' = getReq \ {t}
        /\ getResp' = IF Waiting(t) THEN getResp \cup {t} ELSE getResp
        /\ UNCHANGED <<jobVars, nodeState, results, produced, hasTarget, shocks,
                       activeSteal, phase, donor, received, neighborEmpty,
                       getDeny, ackReq, ackResp>>

(* MUTANT: the received flag of the ACK is ignored. *)
RequeuesAlways(t) == t \in parked

(* ack_transfer puts a batch back on the donor's queue unless it was received. *)
Requeues(t) == t \in parked /\ ~received[t]

(* The batch leaves pending_transfers and is requeued or forgotten.
   keep: the network delivers the same ACK once more later. *)
AckTransfer(t) ==
    LET m == donor[t]
    IN  /\ t \in ackReq /\ nodeState[m] # "left"
        /\ parked' = parked \ {t}
        /\ batch' = [batch EXCEPT ![t] = {}]
        /\ inputsQueue' = [inputsQueue EXCEPT ![m] =
                               IF Requeues(t) THEN @ \cup batch[t] ELSE @]
        /\ \E keep \in BOOLEAN : ackReq' = IF keep THEN ackReq ELSE ackReq \ {t}
        /\ ackResp' = IF \E n \in Nodes : activeSteal[n] = t /\ phase[n] = "ack"
                      THEN ackResp \cup {t} ELSE ackResp
        /\ UNCHANGED <<jobVars, nodeState, running, results, produced, slotVars,
                       stealVars, getReq, getResp, getDeny>>

(* 404 to an ACK is an error to the requester, which tries again. *)
AckNotOnJob(t) ==
    /\ t \in ackReq /\ nodeState[donor[t]] = "left"
    /\ ackReq' = ackReq \ {t}
    /\ UNCHANGED <<jobVars, nodeVars, slotVars, stealVars, parked, batch,
                   getReq, getResp, getDeny, ackResp>>

(* A request or a response is lost. *)
LoseMessage(t) ==
    /\ t \in getReq \cup getResp \cup getDeny \cup ackReq \cup ackResp
    /\ \/ getReq' = getReq \ {t} /\ UNCHANGED <<getResp, getDeny, ackReq, ackResp>>
       \/ getResp' = getResp \ {t} /\ UNCHANGED <<getReq, getDeny, ackReq, ackResp>>
       \/ getDeny' = getDeny \ {t} /\ UNCHANGED <<getReq, getResp, ackReq, ackResp>>
       \/ ackReq' = ackReq \ {t} /\ UNCHANGED <<getReq, getResp, getDeny, ackResp>>
       \/ ackResp' = ackResp \ {t} /\ UNCHANGED <<getReq, getResp, getDeny, ackReq>>
    /\ UNCHANGED <<jobVars, nodeVars, slotVars, stealVars, parked, batch>>

-----------------------------------------------------------------------------
(* How a node leaves the job, and how the job ends. *)

(* MUTANT: the batches parked for peers are not looked at. *)
DrainedIgnoringParked(n) ==
    /\ inputsQueue[n] = {} /\ running[n] = {} /\ results[n] = {}
    /\ activeSteal[n] = NoTransfer

(* MUTANT: the node's own GET/ACK transaction is not looked at. *)
DrainedIgnoringSteal(n) ==
    /\ inputsQueue[n] = {} /\ running[n] = {} /\ results[n] = {}
    /\ PendingTransfers(n) = {}

(* What _claim_drained_job_part finds under input_transfer_lock: nothing held. *)
Drained(n) ==
    /\ inputsQueue[n] = {}
    /\ PendingTransfers(n) = {}
    /\ activeSteal[n] = NoTransfer
    /\ running[n] = {}
    /\ results[n] = {}

(* A drained node leaves when it has no slot left, or when its neighbor was empty
   for EMPTY_NEIGHBOR_TIMEOUT_SEC. *)
ClaimDrained(n) ==
    /\ Working(n)
    /\ ~hasTarget[n] \/ neighborEmpty[n]
    /\ Drained(n)
    /\ nodeState' = [nodeState EXCEPT ![n] = "stopped"]
    /\ phase' = [phase EXCEPT ![n] = "ended"]
    /\ UNCHANGED <<jobVars, inputsQueue, running, results, produced, slotVars,
                   activeSteal, donor, ask, received, neighborEmpty, parked,
                   batch, netVars>>

(* What reset_workers / reinit_node leave of this job on the node: nothing. *)
Forget(n) ==
    /\ nodeState' = [nodeState EXCEPT ![n] = "left"]
    /\ inputsQueue' = [inputsQueue EXCEPT ![n] = {}]
    /\ running' = [running EXCEPT ![n] = {}]
    /\ results' = [results EXCEPT ![n] = {}]
    /\ parked' = parked \ PendingTransfers(n)
    /\ activeSteal' = [activeSteal EXCEPT ![n] = NoTransfer]
    /\ phase' = [phase EXCEPT ![n] = "ended"]

ResetAfterClaim(n) ==
    /\ nodeState[n] = "stopped"
    /\ Forget(n)
    /\ UNCHANGED <<jobVars, produced, slotVars, donor, ask, received,
                   neighborEmpty, batch, netVars>>

(* all_inputs_processed, with the inputs parked for peers counted as unprocessed. *)
AllInputsProcessed(n) ==
    /\ inputsQueue[n] = {} /\ running[n] = {}
    /\ \A t \in PendingTransfers(n) : batch[t] = {}

(* Everything processed here and the client has all results: COMPLETED, unless
   the job already ended otherwise.  The node's own transfer is just canceled. *)
CompleteJob(n) ==
    /\ Working(n)
    /\ AllInputsProcessed(n)
    /\ delivered = Inputs
    /\ jobStatus' = IF jobStatus = "RUNNING" THEN "COMPLETED" ELSE jobStatus
    /\ Forget(n)
    /\ UNCHANGED <<delivered, produced, slotVars, donor, ask, received,
                   neighborEmpty, batch, netVars>>

(* The client of an attached job exits once it has all results; a node that then
   still counts inputs takes the silence for a disconnect and fails the job.  (A
   node with nothing left completes within one tick, CompleteJob, long before
   CLIENT_CONTACT_TIMEOUT_SEC.) *)
ClientDC(n) ==
    /\ Working(n) /\ ~Detached
    /\ delivered = Inputs /\ ~AllInputsProcessed(n)
    /\ jobStatus' = "FAILED"
    /\ Forget(n)
    /\ UNCHANGED <<delivered, produced, slotVars, donor, ask, received,
                   neighborEmpty, batch, netVars>>

(* The job is FAILED (or canceled) on the head: the watcher drops everything. *)
LeaveFailedJob(n) ==
    /\ Working(n) /\ jobStatus = "FAILED"
    /\ Forget(n)
    /\ UNCHANGED <<jobVars, produced, slotVars, donor, ask, received,
                   neighborEmpty, batch, netVars>>

(* The head's job_reaper_loop: silent job, no node left on it. *)
ReapJob ==
    /\ jobStatus = "RUNNING"
    /\ \A n \in Nodes : nodeState[n] = "left"
    /\ jobStatus' = IF delivered = Inputs THEN "COMPLETED" ELSE "FAILED"
    /\ UNCHANGED <<delivered, nodeVars, slotVars, stealVars, parked, batch, netVars>>

(* Every node is off the job and the job is over. *)
Over ==
    /\ jobStatus # "RUNNING"
    /\ \A n \in Nodes : nodeState[n] = "left"
    /\ UNCHANGED vars

-----------------------------------------------------------------------------
WorkerStep(n) ==
    \/ \E i \in Inputs : StartInput(n, i) \/ FinishInput(n, i)
    \/ \E i \in Inputs : RequeueInput(n, i) \/ LastWorkerDies(n, i)
    \/ LoseSlots(n) \/ ReaddWorker(n) \/ ReclaimStranded(n) \/ GatherResults(n)

StealStep(n) ==
    \/ \E m \in Nodes, t \in Transfers : BeginSteal(n, m, t)
    \/ ResendGet(n) \/ GetAnswered(n) \/ GetRefused(n) \/ GetFails(n)
    \/ ResendAck(n) \/ AckAnswered(n) \/ AckPeerFinished(n) \/ AckGivesUp(n)

DonorStep(t) ==
    \/ GetNotOnJob(t) \/ GetReplayed(t) \/ GetGranted(t)
    \/ AckTransfer(t) \/ AckNotOnJob(t)

LeaveStep(n) ==
    \/ ClaimDrained(n) \/ ResetAfterClaim(n) \/ CompleteJob(n)
    \/ ClientDC(n) \/ LeaveFailedJob(n)

Next ==
    \/ \E n \in Nodes : WorkerStep(n) \/ StealStep(n) \/ LeaveStep(n)
    \/ \E t \in Transfers : DonorStep(t) \/ LoseMessage(t)
    \/ ReapJob
    \/ Over

Spec == Init /\ [][Next]_vars

(* What the code's scheduling guarantees: tasks run, HTTP calls end (answer or
   error), the ACK loop ends after ACK_RETRY_TIMEOUT_SEC at the latest, and the
   head's reaper runs.  Nothing is assumed of the network. *)
NodeFairness(n) ==
    /\ WF_vars(\E i \in Inputs : StartInput(n, i))
    /\ WF_vars(\E i \in Inputs : FinishInput(n, i))
    /\ WF_vars(ReaddWorker(n))
    /\ WF_vars(ReclaimStranded(n))
    /\ WF_vars(GatherResults(n))
    /\ WF_vars(GetAnswered(n) \/ GetRefused(n) \/ GetFails(n))
    /\ WF_vars(AckAnswered(n) \/ AckGivesUp(n))
    /\ WF_vars(LeaveStep(n))

FairSpec ==
    /\ Spec
    /\ \A n \in Nodes : NodeFairness(n)
    /\ WF_vars(ReapJob)

-----------------------------------------------------------------------------
(* Type correctness. *)
TypeOK ==
    /\ jobStatus \in {"RUNNING", "COMPLETED", "FAILED"}
    /\ nodeState \in [Nodes -> {"working", "stopped", "left"}]
    /\ inputsQueue \in [Nodes -> SUBSET Inputs]
    /\ running \in [Nodes -> SUBSET Inputs]
    /\ results \in [Nodes -> SUBSET Inputs]
    /\ produced \in [Inputs -> Nat]
    /\ delivered \subseteq Inputs
    /\ hasTarget \in [Nodes -> BOOLEAN]
    /\ hasWorkers \in [Nodes -> BOOLEAN]
    /\ neighborEmpty \in [Nodes -> BOOLEAN]
    /\ activeSteal \in [Nodes -> Transfers \cup {NoTransfer}]
    /\ phase \in [Nodes -> {"idle", "get", "ack", "ended"}]
    /\ donor \in [Transfers -> Nodes \cup {NoNode}]
    /\ ask \in [Transfers -> [size : Nat, idle : BOOLEAN]]
    /\ parked \subseteq Transfers
    /\ batch \in [Transfers -> SUBSET Inputs]
    /\ received \in [Transfers -> BOOLEAN]
    /\ getReq \subseteq Transfers
    /\ getResp \subseteq Transfers
    /\ getDeny \subseteq Transfers
    /\ ackReq \subseteq Transfers
    /\ ackResp \subseteq Transfers
    /\ shocks \in 0..MaxShocks

(* However transfers, revocations, retirements and message losses interleave, no
   input ever yields two results: "exactly-once semantics" of
   _input_steal_loop, seen from the results queues. *)
AtMostOnce == \A i \in Inputs : produced[i] <= 1

(* An input, or its result, is where someone will still look at it. *)
HeldSomewhere(i) ==
    \/ i \in delivered
    \/ \E n \in Nodes : Working(n) /\ i \in inputsQueue[n] \cup running[n] \cup results[n]
    \/ \E t \in parked : Working(donor[t]) /\ ~received[t] /\ i \in batch[t]

(* While the job is RUNNING no input and no undelivered result is dropped, not
   even by a node that decides to leave while a peer is stealing from it. *)
NoInputLost == jobStatus = "RUNNING" => \A i \in Inputs : HeldSomewhere(i)

(* A job never hangs (REQUIREMENTS.md R8): it ends, whatever is lost on the way. *)
JobEnds == <>(jobStatus # "RUNNING")

(* Every node leaves the job in the end, so it can be reused or deleted (R7). *)
NodesLeave == <>(\A n \in Nodes : nodeState[n] = "left")

(* Wherever its inputs move, the job is kept the promise of JobInputs: an input in
   a queue or under way between two nodes waits. *)
InputStatus(i) ==
    IF \E n \in Nodes : i \in running[n] THEN "running"
    ELSE IF produced[i] > 0 THEN "done" ELSE "waiting"

Promise == INSTANCE JobInputs WITH status <- [i \in Inputs |-> InputStatus(i)]
KeepsPromise == Promise!Spec

(* A job never hangs and leaves no node behind (REQUIREMENTS.md R7, R8): it ends,
   and every node goes back to the pool or is deleted, whatever transfers were
   under way and whatever was lost of them. *)
JobEndsEverywhere == JobEnds /\ NodesLeave
=============================================================================
