---------------------------- MODULE ResultDelivery ----------------------------
(* One job seen from its client: uploading the inputs in chunks, gathering the
   results in acknowledged batches (execute_job, _gather_results and
   _upload_input_chunk in _node.py; upload_inputs and get_results in
   job_endpoints.py), the loop of _execute_job, the heartbeat, and the conditions
   under which each node's _job_watcher and the head's reaper end the job.

   Running an input is one step and inputs do not move between nodes: InputSteal
   models both.  Order inside a queue, sizes, logs and the content of results are
   left out; a batch id is the set of results it names. *)
EXTENDS Integers, FiniteSets

CONSTANTS
    Nodes,       \* the nodes assigned to the job
    Inputs,      \* the job's inputs
    Splits,      \* the ways node_inputs may split the inputs over the nodes
    MaxLosses,   \* bound on lost answers, abandoned polls and lost VMs
    EarlyExit    \* TRUE: the client may stop before every node heard a heartbeat

ASSUME NodesAssumption == IsFiniteSet(Nodes)
ASSUME InputsAssumption == IsFiniteSet(Inputs)
ASSUME SplitsAssumption == Splits \subseteq [Inputs -> Nodes]
ASSUME MaxLossesAssumption == MaxLosses \in Nat
ASSUME EarlyExitAssumption == EarlyExit \in BOOLEAN

(* The k-th time an input was put on a node's queue. *)
Calls == Inputs \X (1..(MaxLosses + 1))

VARIABLES
    detached,       \* is_background_job
    client,         \* "driving", "finished" (returned all results), "gone"
    lists,          \* per node: inputs_with_indicies
    chunk,          \* per node: the input_chunk it is sending
    pc,             \* per node: where its execute_job task stands
    toAck,          \* per node: result_batch_id_to_ack
    count,          \* the sum of result_count
    got,            \* the calls whose result the client has
    queue,          \* per node: SELF["inputs_queue"] and the inputs being run
    results,        \* per node: SELF["results_queue"]
    pending,        \* per node: SELF["pending_result_batch"], {} for None
    ran,            \* per node: the calls it counted (num_results_received)
    nodeState,      \* per node: "working", "left" (off the job), "dead" (VM lost)
    knowsUploaded,  \* per node: SELF["all_inputs_uploaded"]
    heard,          \* the nodes with SELF["client_heartbeat_received"], fixed when
                    \* the client stops
    late,           \* <<node, ack>> of polls the client gave up on
    jobStatus,      \* the head's JOBS[job]["status"]
    uploadedFlag,   \* the head's all_inputs_uploaded
    hasAll,         \* the head's client_has_all_results
    reported,       \* the head's assigned_nodes[n]["current_num_results"]
    silent,         \* no node had client contact for CLIENT_CONTACT_TIMEOUT_SEC
    uploads,        \* per input: how often a node enqueued it
    losses

taskVars == <<lists, chunk, pc, toAck, count, got>>
nodeVars == <<queue, results, pending, ran, nodeState, knowsUploaded, uploads>>
headVars == <<jobStatus, uploadedFlag, hasAll, reported>>
liveVars == <<detached, client, heard, silent>>
vars == <<liveVars, taskVars, nodeVars, headVars, late, losses>>

Working(n) == nodeState[n] = "working"
Driving == client = "driving"
AllResults == count >= Cardinality(Inputs)

Init ==
    /\ detached \in BOOLEAN
    /\ client = "driving"
    /\ \E at \in Splits :
           lists = [n \in Nodes |-> {i \in Inputs : at[i] = n}]
    /\ chunk = [n \in Nodes |-> {}]
    /\ pc = [n \in Nodes |-> "chunk"]
    /\ toAck = [n \in Nodes |-> {}]
    /\ count = 0 /\ got = {}
    /\ queue = [n \in Nodes |-> {}]
    /\ results = [n \in Nodes |-> {}]
    /\ pending = [n \in Nodes |-> {}]
    /\ ran = [n \in Nodes |-> {}]
    /\ nodeState = [n \in Nodes |-> "working"]
    /\ knowsUploaded = [n \in Nodes |-> FALSE]
    /\ heard = {}
    /\ late = {}
    /\ jobStatus = "RUNNING"
    /\ uploadedFlag = FALSE /\ hasAll = FALSE
    /\ reported = [n \in Nodes |-> 0]
    /\ silent = FALSE
    /\ uploads = [i \in Inputs |-> 0]
    /\ losses = 0

-----------------------------------------------------------------------------
(* The client's task of one node: execute_job. *)

(* The next chunk is popped off the node's list; with an empty list the task goes
   straight on to the results. *)
PopChunk(n) ==
    /\ Driving /\ pc[n] = "chunk"
    /\ \/ \E S \in (SUBSET lists[n]) \ {{}} :
              /\ lists' = [lists EXCEPT ![n] = @ \ S]
              /\ chunk' = [chunk EXCEPT ![n] = S]
              /\ pc' = [pc EXCEPT ![n] = "post"]
       \/ /\ lists[n] = {}
          /\ pc' = [pc EXCEPT ![n] = "gather"]
          /\ UNCHANGED <<lists, chunk>>
    /\ UNCHANGED <<liveVars, toAck, count, got, nodeVars, headVars, late, losses>>

NextCall(i) == <<i, uploads[i] + 1>>

(* upload_inputs puts the chunk on the node's queue. *)
Enqueue(n) ==
    /\ pc[n] = "post" /\ Working(n)
    /\ queue' = [queue EXCEPT ![n] = @ \cup {NextCall(i) : i \in chunk[n]}]
    /\ uploads' = [i \in Inputs |-> uploads[i] + IF i \in chunk[n] THEN 1 ELSE 0]
    /\ UNCHANGED <<liveVars, lists, toAck, count, got, results, pending, ran,
                   nodeState, knowsUploaded, headVars, late>>

(* The POST is answered; a client that is gone may have it in flight still. *)
UploadAnswered(n) ==
    /\ Enqueue(n)
    /\ chunk' = [chunk EXCEPT ![n] = {}]
    /\ pc' = [pc EXCEPT ![n] = "gather"]
    /\ UNCHANGED losses

(* The answer is lost: _post_with_retries sends the same chunk again. *)
UploadRepeated(n) ==
    /\ Driving /\ losses < MaxLosses
    /\ Enqueue(n)
    /\ losses' = losses + 1
    /\ UNCHANGED <<chunk, pc>>

(* What get_results does with an acknowledgement before it looks for a batch. *)
(* Only the batch that was sent last is cleared. *)
Acknowledged(n, ack) == IF pending[n] = ack THEN {} ELSE pending[n]

(* get_results: the unacknowledged batch again, else a new one off the queue
   (_get_result_batch; fewer than all of it at the byte cap), else none. *)
Serve(n, ack, batch) ==
    /\ Working(n)
    /\ \/ /\ Acknowledged(n, ack) # {} /\ batch = Acknowledged(n, ack)
          /\ UNCHANGED results
       \/ /\ Acknowledged(n, ack) = {}
          /\ batch \in IF results[n] = {} THEN {{}} ELSE (SUBSET results[n]) \ {{}}
          /\ results' = [results EXCEPT ![n] = @ \ batch]
    /\ pending' = [pending EXCEPT ![n] = batch]
    /\ UNCHANGED <<liveVars, lists, chunk, queue, ran, nodeState, knowsUploaded,
                   uploads, headVars>>

(* MUTANT: the batch is never acknowledged. *)
AckNothing(batch) == {}

(* What the next poll acknowledges. *)
AckOf(batch) == batch

(* A poll is answered: its results are the client's, and the next poll will
   acknowledge them. *)
PollAnswered(n) ==
    /\ Driving /\ pc[n] = "gather"
    /\ \E batch \in {pending[n]} \cup SUBSET results[n] :
           /\ Serve(n, toAck[n], batch)
           /\ toAck' = [toAck EXCEPT ![n] = AckOf(batch)]
           /\ count' = count + Cardinality(batch)
           /\ got' = got \cup batch
    /\ pc' = [pc EXCEPT ![n] = "chunk"]
    /\ UNCHANGED <<late, losses>>

(* The node answered but the answer is lost; the acknowledgement is kept for the
   next poll. *)
PollAnswerLost(n) ==
    /\ Driving /\ pc[n] = "gather" /\ losses < MaxLosses
    /\ \E batch \in {pending[n]} \cup SUBSET results[n] : Serve(n, toAck[n], batch)
    /\ losses' = losses + 1
    /\ pc' = [pc EXCEPT ![n] = "chunk"]
    /\ UNCHANGED <<toAck, count, got, late>>

(* The poll times out on its way; the node may still serve it, to nobody. *)
PollTimesOut(n) ==
    /\ Driving /\ pc[n] = "gather" /\ losses < MaxLosses
    /\ losses' = losses + 1
    /\ late' = late \cup {<<n, toAck[n]>>}
    /\ pc' = [pc EXCEPT ![n] = "chunk"]
    /\ UNCHANGED <<liveVars, lists, chunk, toAck, count, got, nodeVars, headVars>>

LatePoll(n, ack) ==
    /\ late' = late \ {<<n, ack>>}
    /\ \/ \E batch \in {pending[n]} \cup SUBSET results[n] : Serve(n, ack, batch)
       \/ /\ ~Working(n)
          /\ UNCHANGED <<liveVars, lists, chunk, nodeVars, headVars>>
    /\ UNCHANGED <<pc, toAck, count, got, losses>>

(* 404, or a node deleted with its scoped job: the task is done, whatever is left
   on its list. *)
PollNotOnJob(n) ==
    /\ Driving /\ pc[n] = "gather" /\ nodeState[n] = "left"
    /\ pc' = [pc EXCEPT ![n] = "done"]
    /\ UNCHANGED <<liveVars, lists, chunk, toAck, count, got, nodeVars, headVars,
                   late, losses>>

-----------------------------------------------------------------------------
(* The client's main loop: _execute_job, and the ways it stops. *)

(* Every list is popped.  The last chunks may still be on their way. *)
AllPopped == \A n \in Nodes : lists[n] = {}

SetUploaded ==
    /\ Driving /\ AllPopped /\ ~uploadedFlag
    /\ uploadedFlag' = TRUE
    /\ UNCHANGED <<liveVars, taskVars, nodeVars, jobStatus, hasAll, reported, late,
                   losses>>

(* while total_result_count < n_inputs *)
Enough == AllResults

(* The ping subprocess ends with the client, after it reached every node or, when
   the client stops early, only some. *)
HeartbeatsStop == heard' \in IF EarlyExit THEN SUBSET Nodes ELSE {Nodes}

(* The tasks are canceled, or gone with the process; a POST that was sent may
   still arrive. *)
TasksEnd ==
    /\ lists' = [n \in Nodes |-> {}]
    /\ toAck' = [n \in Nodes |-> {}]
    /\ pc' = [n \in Nodes |-> IF pc[n] = "post" THEN "post" ELSE "done"]
    /\ UNCHANGED chunk

(* The loop is over; client_has_all_results is patched and the call returns.  The
   lists are looked at in each round before the count. *)
Finish ==
    /\ Driving /\ Enough
    /\ AllPopped => uploadedFlag
    /\ client' = "finished"
    /\ hasAll' = TRUE
    /\ HeartbeatsStop /\ TasksEnd
    /\ UNCHANGED <<detached, silent, count, got, nodeVars, jobStatus, uploadedFlag,
                   reported, late, losses>>

(* The client is gone and may have said what becomes of the job. *)
Leave(status) ==
    /\ Driving
    /\ client' = "gone"
    /\ jobStatus' = status
    /\ count' = 0 /\ got' = {}
    /\ HeartbeatsStop /\ TasksEnd
    /\ UNCHANGED <<detached, silent, nodeVars, uploadedFlag, hasAll, reported, late,
                   losses>>

(* _handle_failure fails the job unless it is a background job. *)
HandleFailure == Leave(IF detached THEN jobStatus ELSE "FAILED")

(* A result says that the call raised (raise_errors) or that its worker failed. *)
BadResult ==
    /\ \E n \in Nodes : pc[n] = "gather" /\ Working(n) /\ results[n] \cup pending[n] # {}
    /\ HandleFailure

(* An upload was refused for good, a VM stayed silent, or every task ended before
   the results were there (JobStalled). *)
ClientRaises ==
    /\ \/ \E n \in Nodes : pc[n] = "post" /\ nodeState[n] = "left"
       \/ \E n \in Nodes : pc[n] # "done" /\ nodeState[n] = "dead"
       \/ ~AllResults /\ \A n \in Nodes : pc[n] = "done"
    /\ HandleFailure

(* Ctrl-C: the job is canceled unless it may continue detached. *)
ClientCancels ==
    Leave(IF detached /\ uploadedFlag THEN jobStatus ELSE "FAILED")

(* The process is killed and says nothing. *)
ClientDies == Leave(jobStatus)

-----------------------------------------------------------------------------
(* The node: its workers, its pushes and its part in ending the job. *)

(* A worker ran a call; its result is counted and queued for the client. *)
RunInput(n, c) ==
    /\ Working(n)
    /\ queue' = [queue EXCEPT ![n] = @ \ {c}]
    /\ results' = [results EXCEPT ![n] = @ \cup {c}]
    /\ ran' = [ran EXCEPT ![n] = @ \cup {c}]
    /\ UNCHANGED <<liveVars, taskVars, pending, nodeState, knowsUploaded, uploads,
                   headVars, late, losses>>

(* _push_progress: the head learns the count, the node the signals. *)
Pushed(n) ==
    /\ reported' = [reported EXCEPT ![n] = Cardinality(ran[n])]
    /\ knowsUploaded' = [knowsUploaded EXCEPT ![n] = @ \/ uploadedFlag]

Push(n) ==
    /\ Working(n) /\ Pushed(n)
    /\ UNCHANGED <<liveVars, taskVars, queue, results, pending, ran, nodeState,
                   uploads, jobStatus, uploadedFlag, hasAll, late, losses>>

(* Nothing of the job is left on the node. *)
Emptied(n, state) ==
    /\ nodeState' = [nodeState EXCEPT ![n] = state]
    /\ queue' = [queue EXCEPT ![n] = {}]
    /\ results' = [results EXCEPT ![n] = {}]
    /\ pending' = [pending EXCEPT ![n] = {}]
    /\ UNCHANGED <<liveVars, taskVars, ran, uploads, uploadedFlag, hasAll, late>>

(* reset_workers / reinit_node. *)
Forget(n) == Emptied(n, "left") /\ UNCHANGED losses

(* The VM is lost, with everything on it. *)
NodeDies(n) ==
    /\ Working(n) /\ losses < MaxLosses
    /\ losses' = losses + 1
    /\ Emptied(n, "dead")
    /\ UNCHANGED <<jobStatus, reported, knowsUploaded>>

(* The job failed or was canceled. *)
LeaveEnded(n) ==
    /\ Working(n) /\ jobStatus = "FAILED"
    /\ Forget(n)
    /\ UNCHANGED <<jobStatus, reported, knowsUploaded>>

(* all_inputs_processed *)
Processed(n) == knowsUploaded[n] /\ queue[n] = {}

(* The pings have stopped for CLIENT_CONTACT_TIMEOUT_SEC.  By then every watcher
   knows of the uploads (a push per second), and one that finds the job delivered
   has ended it (a tick of 0.2 s). *)
ContactLost ==
    /\ ~Driving /\ ~silent
    /\ uploadedFlag => \A n \in Nodes : Working(n) => knowsUploaded[n]
    /\ ~\E n \in Nodes : Working(n) /\ Processed(n) /\ hasAll
    /\ silent' = TRUE
    /\ UNCHANGED <<detached, client, heard, taskVars, nodeVars, headVars, late, losses>>

Disconnected(n) == silent /\ n \in heard

(* MUTANT: only a job whose inputs are not all there needs its client. *)
NeededWhileUploading(n) == ~knowsUploaded[n]

(* must_be_connected: an attached job, or one whose inputs are not all there. *)
MustBeConnected(n) == ~detached \/ ~knowsUploaded[n]

ClientDC(n) ==
    /\ Working(n) /\ Disconnected(n) /\ MustBeConnected(n)
    /\ jobStatus' = "FAILED"
    /\ Forget(n)
    /\ UNCHANGED <<reported, knowsUploaded>>

(* _claim_drained_job_part *)
Drained(n) == queue[n] = {} /\ results[n] = {} /\ pending[n] = {}

(* A drained node leaves when it traded its slots away or its neighbor had no
   inputs: both take an uploaded job and another node on it. *)
ClaimDrained(n) ==
    /\ Working(n) /\ uploadedFlag /\ Drained(n)
    /\ \E m \in Nodes \ {n} : queue[m] = {}
    /\ Forget(n)
    /\ UNCHANGED <<jobStatus, reported, knowsUploaded>>

(* total_num_results, with the counts r: every result that some node counted. *)
Total(r) == Cardinality(UNION {{n} \X (1..r[n]) : n \in Nodes})

(* MUTANT: the counts of the other nodes are not asked for. *)
AllRanHere(r) == TRUE

(* n_inputs == total_num_results *)
AllRan(r) == Total(r) = Cardinality(Inputs)

(* "Job over?": without a client, and with no batch left to acknowledge, the
   counts decide; otherwise the client does. *)
CompleteJob(n) ==
    /\ Working(n) /\ Processed(n)
    /\ Pushed(n)
    /\ IF Disconnected(n) /\ pending[n] = {} THEN AllRan(reported') ELSE hasAll
    /\ jobStatus' = IF jobStatus = "RUNNING" THEN "COMPLETED" ELSE jobStatus
    /\ Forget(n)

(* The head's job_reaper_loop, REAPER_JOB_SILENCE_SEC after the last node's last
   push; a client that has everything has long said so. *)
ReapJob ==
    /\ jobStatus = "RUNNING"
    /\ ~\E n \in Nodes : Working(n)
    /\ ~Driving \/ ~AllResults
    /\ jobStatus' = IF \/ hasAll
                       \/ detached /\ uploadedFlag
                                   /\ Total(reported) >= Cardinality(Inputs)
                    THEN "COMPLETED" ELSE "FAILED"
    /\ UNCHANGED <<liveVars, taskVars, nodeVars, uploadedFlag, hasAll, reported,
                   late, losses>>

(* The job is over for everybody. *)
Over ==
    /\ jobStatus # "RUNNING" /\ ~Driving
    /\ ~\E n \in Nodes : Working(n)
    /\ UNCHANGED vars

-----------------------------------------------------------------------------
TaskStep(n) ==
    \/ PopChunk(n) \/ UploadAnswered(n) \/ UploadRepeated(n)
    \/ PollAnswered(n) \/ PollAnswerLost(n) \/ PollTimesOut(n) \/ PollNotOnJob(n)

ClientStep ==
    \/ SetUploaded \/ Finish
    \/ BadResult \/ ClientRaises \/ ClientCancels \/ ClientDies

NodeStep(n) ==
    \/ \E c \in queue[n] : RunInput(n, c)
    \/ Push(n)
    \/ LeaveEnded(n) \/ ClientDC(n) \/ ClaimDrained(n) \/ CompleteJob(n)
    \/ NodeDies(n)

Next ==
    \/ \E n \in Nodes : TaskStep(n) \/ NodeStep(n)
    \/ \E p \in late : LatePoll(p[1], p[2])
    \/ ClientStep
    \/ ContactLost \/ ReapJob \/ Over

Spec == Init /\ [][Next]_vars

(* The client's tasks and main loop run while it lives, a repeated request is
   answered in the end, workers and watchers run, pushes get through, silence is
   noticed and the reaper runs.  Nobody has to interrupt the client. *)
FairSpec ==
    /\ Spec
    /\ \A n \in Nodes :
           /\ WF_vars(\/ PopChunk(n) \/ (UploadAnswered(n) /\ Driving)
                      \/ PollAnswered(n) \/ PollNotOnJob(n))
           /\ WF_vars(\/ \E c \in queue[n] : RunInput(n, c)
                      \/ Push(n) \/ LeaveEnded(n) \/ ClientDC(n) \/ CompleteJob(n))
    /\ WF_vars(SetUploaded \/ Finish \/ ClientRaises)
    /\ WF_vars(ContactLost)
    /\ WF_vars(ReapJob)

-----------------------------------------------------------------------------
(* Type correctness. *)
TypeOK ==
    /\ detached \in BOOLEAN
    /\ client \in {"driving", "finished", "gone"}
    /\ lists \in [Nodes -> SUBSET Inputs]
    /\ chunk \in [Nodes -> SUBSET Inputs]
    /\ pc \in [Nodes -> {"chunk", "post", "gather", "done"}]
    /\ toAck \in [Nodes -> SUBSET Calls]
    /\ count \in Nat
    /\ got \subseteq Calls
    /\ queue \in [Nodes -> SUBSET Calls]
    /\ results \in [Nodes -> SUBSET Calls]
    /\ pending \in [Nodes -> SUBSET Calls]
    /\ ran \in [Nodes -> SUBSET Calls]
    /\ nodeState \in [Nodes -> {"working", "left", "dead"}]
    /\ knowsUploaded \in [Nodes -> BOOLEAN]
    /\ heard \subseteq Nodes
    /\ late \subseteq Nodes \X SUBSET Calls
    /\ jobStatus \in {"RUNNING", "COMPLETED", "FAILED"}
    /\ uploadedFlag \in BOOLEAN
    /\ hasAll \in BOOLEAN
    /\ reported \in [Nodes -> Nat]
    /\ silent \in BOOLEAN
    /\ uploads \in [Inputs -> 0..(MaxLosses + 1)]
    /\ losses \in 0..MaxLosses

(* No upload was repeated after its node had taken it.  (upload_inputs does not
   recognise a chunk it has seen, so a repeated one is run, and counted, twice.) *)
NoRepeat == \A i \in Inputs : uploads[i] <= 1

(* Whatever answers are lost and polls arrive late, the client never counts a
   result twice, nor two results of one input: without a repeated upload,
   result_count is the number of inputs it has a result of. *)
ResultsOnce == NoRepeat => count = Cardinality({c[1] : c \in got})

(* remote_parallel_map returns its outputs "once all have been processed".
   No run checks it: a repeated upload breaks it (see the README). *)
DoneMeansAll == client = "finished" => \A i \in Inputs : \E c \in got : c[1] = i

(* An input is with the client, on its way, on a node, or its result is. *)
InGoodHands(i) ==
    \/ \E n \in Nodes : i \in lists[n] \cup chunk[n]
    \/ \E c \in got : c[1] = i
    \/ \E n \in Nodes : \E c \in queue[n] \cup results[n] \cup pending[n] : c[1] = i

(* As long as a job runs with its client and all its VMs, no poll, late poll,
   acknowledgement or departing node drops an input or a result. *)
NoResultLost ==
    jobStatus = "RUNNING" /\ Driving /\ (\A n \in Nodes : nodeState[n] # "dead")
        => \A i \in Inputs : InGoodHands(i)

AllInputsRan == \A i \in Inputs : \E n \in Nodes : \E c \in ran[n] : c[1] = i

(* A job is COMPLETED only if every input was run, also when its client went away
   and the nodes decide by the counts they report (unless an upload was repeated:
   then the counts are not of inputs). *)
CompletedMeansRun == NoRepeat /\ jobStatus = "COMPLETED" => AllInputsRan

(* Once the call returned its results, the silence of its client never turns the
   job into a failed one (unless a node still runs a repeated upload). *)
NoFailureAfterDelivery == NoRepeat /\ client = "finished" => jobStatus # "FAILED"

(* An attached job ends and every node leaves it, whatever becomes of the client
   or of a VM. *)
AttachedJobEnds ==
    <>(detached \/ (jobStatus # "RUNNING" /\ ~\E n \in Nodes : Working(n)))

(* A background job whose every input was run ends, also when its client exits
   (REQUIREMENTS.md R11).
   No run checks it: a client that exits between two polls breaks it (see the README). *)
DetachedJobEnds == (detached /\ AllInputsRan) ~> (jobStatus # "RUNNING")

(* From the moment an input is read to the moment its result is returned it is in
   one place at least and counted once at most, whatever polls, answers and
   acknowledgements are lost, repeated or late (gather_results, get_results). *)
ResultsKept == TypeOK /\ ResultsOnce /\ NoResultLost

(* The verdict on a job is true of it: COMPLETED means that every input ran, and a
   call that returned its results is no failed job (job_watcher, the reaper). *)
VerdictTrue == CompletedMeansRun /\ NoFailureAfterDelivery
=============================================================================
