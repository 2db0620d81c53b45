------------------------------- MODULE JobLogs -------------------------------
(* What a user's function prints, from the container's log stream to the    *)
(* client's terminal and to the head's history, on one node and for one     *)
(* job.                                                                     *)
(*                                                                          *)
(* A result travels over the worker's socket, a printed line over the log   *)
(* stream of its container, which may trail.  JobLogWriter (worker_client)  *)
(* cuts the stream into documents by the markers worker_server prints       *)
(* around each call.  A document goes to `pending_logs`, a bounded deque    *)
(* the client drains with its /results polls, and to the flush loop, which  *)
(* posts it to the head.  A worker holds its result back until the marker   *)
(* of its input came, so that the client, which polls no more once it has   *)
(* every result, can fetch the lines first.                                 *)
EXTENDS Integers, Sequences, FiniteSets, SequencesExt

CONSTANTS
    Workers,    \* the workers of the node
    Lines,      \* Lines[i]: how many lines the function prints for input i
    DocLines,   \* MAX_LOG_DOCUMENT_SIZE_BYTES, in lines
    MaxPending, \* MAX_PENDING_LOGS, the bound of the deque
    MaxDocs,    \* the documents a /results response carries
    Faults,     \* the kinds of faults that may happen
    MaxFaults,  \* how many of them
    None

Inputs == DOMAIN Lines

ASSUME LogBounds ==
    /\ \A i \in Inputs : i \in Nat /\ Lines[i] \in Nat
    /\ DocLines \in Nat \ {0} /\ MaxPending \in Nat \ {0} /\ MaxDocs \in Nat \ {0}
    /\ MaxFaults \in Nat /\ None \notin Inputs

VARIABLES
    todo,      \* inputs_queue
    step,      \* where _process_inputs is: idle, calling, finishing or over
    current,   \* current_input of each worker
    canceled,  \* the task was cancelled in the middle of a call
    printed,   \* how many lines were printed for each input
    reply,     \* what the socket of the worker has: none, result, error, dead
    stream,    \* container log not yet read; frozen once detached
    attached,  \* logstream_task runs
    writer,    \* the JobLogWriter of each worker
    pending,   \* SELF["pending_logs"]
    results,   \* results_queue
    batch,     \* pending_result_batch, kept until it is acknowledged
    response,  \* the answer on its way to the client, or None
    ack,       \* result_batch_id_to_ack of the client: it has read the batch
    got,       \* inputs whose result the client has
    shown,     \* lines the client printed, in order
    head,      \* lines in the job_logs table, in order
    ending,    \* reset_workers of the job watcher: no, canceling, reset
    late,      \* inputs whose result did not wait for their marker
    missing,   \* lines a response lost or the deque dropped
    unsaved,   \* lines that were in a failed post or behind a last one
    untold,    \* documents were dropped and no response said so yet
    faults     \* faults so far

worker == <<step, current, canceled, printed, reply>>
client == <<response, ack, got, shown>>
fate == <<late, missing, unsaved, untold>>
vars == <<todo, worker, stream, attached, writer, pending, results, batch, client,
          head, ending, fate, faults>>

Line == [input : Inputs, n : Nat]   \* the n-th line of an input; 0 its traceback
LinesOf(docs) == FlattenSeq(docs)
Delivered == results \cup batch \cup got

----------------------------------------------------------------------------
(* The writer of a worker *)

Closed == [open |-> FALSE, stopping |-> FALSE, active |-> None, ended |-> {},
           buffer |-> [i \in Inputs |-> <<>>], documents |-> <<>>, posting |-> <<>>]
NewWriter == [Closed EXCEPT !.open = TRUE]

(* The documents the buffers of inputs S make. *)
Ripe(W, S) ==
    LET order == SetToSortSeq({i \in S : W.buffer[i] # <<>>}, <)
    IN [k \in DOMAIN order |-> W.buffer[order[k]]]

Emptied(W, S) ==
    [W EXCEPT !.buffer = [i \in Inputs |-> IF i \in S THEN <<>> ELSE W.buffer[i]]]

(* Documents are visible to the client at once; a full deque drops its      *)
(* oldest ones.                                                             *)
MakeVisible(docs) ==
    LET all == pending \o docs
        over == IF Len(all) > MaxPending THEN Len(all) - MaxPending ELSE 0
    IN /\ pending' = SubSeq(all, over + 1, Len(all))
       /\ missing' = missing \cup ToSet(LinesOf(SubSeq(all, 1, over)))
       /\ untold' = (untold \/ over > 0)

(* The writer of w becomes W once the buffers of S are queued. *)
QueueDocuments(w, W, S) ==
    /\ writer' = [writer EXCEPT ![w] =
           [Emptied(W, S) EXCEPT !.documents = @ \o Ripe(W, S)]]
    /\ MakeVisible(Ripe(W, S))

StartSeen(w, i) ==
    /\ writer' = [writer EXCEPT ![w].active = i]
    /\ UNCHANGED <<pending, missing, untold>>

EndSeen(w, i) ==
    QueueDocuments(w, [writer[w] EXCEPT !.active = None, !.ended = @ \cup {i}], {i})

(* A line belongs to the input whose marker came last. *)
LineSeen(w, n) ==
    LET i == writer[w].active
        W == [writer[w] EXCEPT !.buffer[i] = Append(@, [input |-> i, n |-> n])]
    IN IF i = None
       THEN UNCHANGED <<writer, pending, missing, untold>>
       ELSE QueueDocuments(w, W, IF Len(W.buffer[i]) >= DocLines THEN {i} ELSE {})

ReadsLog(w) ==
    /\ attached[w] /\ stream[w] # <<>>
    /\ stream' = [stream EXCEPT ![w] = Tail(@)]
    /\ LET item == Head(stream[w])
       IN IF ~writer[w].open THEN UNCHANGED <<writer, pending, missing, untold>>
          ELSE CASE item.kind = "start" -> StartSeen(w, item.input)
                 [] item.kind = "end" -> EndSeen(w, item.input)
                 [] item.kind = "line" -> LineSeen(w, item.n)
    /\ UNCHANGED <<todo, worker, attached, results, batch, client, head, ending, late,
                   unsaved, faults>>

(* MUTANT: the loop looks at stop_event before it flushes. *)
FlushStartsUnlessStopped(w) ==
    LET W == writer[w]
        docs == W.documents \o Ripe(W, Inputs)
    IN /\ W.open /\ W.posting = <<>> /\ (docs # <<>> \/ W.stopping)
       /\ IF W.stopping
          THEN writer' = [writer EXCEPT ![w] = Closed] /\ UNCHANGED <<pending, missing, untold>>
          ELSE /\ writer' = [writer EXCEPT ![w] =
                     [Emptied(W, Inputs) EXCEPT !.documents = <<>>, !.posting = docs]]
               /\ MakeVisible(Ripe(W, Inputs))
       /\ UNCHANGED <<todo, worker, stream, attached, results, batch, client, head, ending,
                      late, unsaved, faults>>

(* The flush loop wakes up: by its event, or after its interval. *)
FlushStarts(w) ==
    LET W == writer[w]
        docs == W.documents \o Ripe(W, Inputs)
    IN /\ W.open /\ W.posting = <<>> /\ (docs # <<>> \/ W.stopping)
       /\ writer' = [writer EXCEPT ![w] =
              IF docs = <<>> THEN Closed
              ELSE [Emptied(W, Inputs) EXCEPT !.documents = <<>>, !.posting = docs]]
       /\ MakeVisible(Ripe(W, Inputs))
       /\ UNCHANGED <<todo, worker, stream, attached, results, batch, client, head, ending,
                      late, unsaved, faults>>

(* After a post the loop leaves if it was told to stop: what was queued     *)
(* during that post stays behind.                                           *)
AfterPost(w) == IF writer[w].stopping THEN Closed ELSE [writer[w] EXCEPT !.posting = <<>>]

LeftBehind(w) ==
    IF writer[w].stopping
    THEN ToSet(LinesOf(writer[w].documents \o Ripe(writer[w], Inputs))) ELSE {}

AfterFailedPost(w) == AfterPost(w)

PostEnds(w) ==
    /\ writer[w].posting # <<>>
    /\ head' = head \o LinesOf(writer[w].posting)
    /\ writer' = [writer EXCEPT ![w] = AfterPost(w)]
    /\ unsaved' = unsaved \cup LeftBehind(w)
    /\ UNCHANGED <<todo, worker, stream, attached, pending, results, batch, client, ending,
                   late, missing, untold, faults>>

(* A post that fails may have been recorded all the same. *)
PostFails(w) ==
    /\ "post" \in Faults /\ faults < MaxFaults /\ faults' = faults + 1
    /\ writer[w].posting # <<>>
    /\ \E recorded \in BOOLEAN :
          head' = IF recorded THEN head \o LinesOf(writer[w].posting) ELSE head
    /\ writer' = [writer EXCEPT ![w] = AfterFailedPost(w)]
    /\ unsaved' = unsaved \cup LeftBehind(w) \cup ToSet(LinesOf(writer[w].posting))
    /\ UNCHANGED <<todo, worker, stream, attached, pending, results, batch, client, ending,
                   late, missing, untold>>

----------------------------------------------------------------------------
(* The call of an input *)

Init ==
    /\ todo = Inputs
    /\ step = [w \in Workers |-> "idle"] /\ current = [w \in Workers |-> None]
    /\ canceled = [w \in Workers |-> FALSE] /\ printed = [i \in Inputs |-> 0]
    /\ reply = [w \in Workers |-> "none"]
    /\ stream = [w \in Workers |-> <<>>] /\ attached = [w \in Workers |-> TRUE]
    /\ writer = [w \in Workers |-> Closed]
    /\ pending = <<>> /\ results = {} /\ batch = {}
    /\ response = None /\ ack = FALSE /\ got = {} /\ shown = <<>> /\ head = <<>>
    /\ ending = "no"
    /\ late = {} /\ missing = {} /\ unsaved = {} /\ untold = FALSE /\ faults = 0

(* The queue is first in, first out. *)
TakesInput(w) ==
    /\ step[w] = "idle" /\ ending = "no"
    /\ \E i \in todo :
          /\ \A j \in todo : i <= j
          /\ todo' = todo \ {i}
          /\ current' = [current EXCEPT ![w] = i]
          /\ stream' = [stream EXCEPT ![w] = Append(@, [kind |-> "start", input |-> i])]
    /\ step' = [step EXCEPT ![w] = "calling"]
    /\ writer' = [writer EXCEPT ![w] = IF @.open THEN @ ELSE NewWriter]
    /\ UNCHANGED <<canceled, printed, reply, attached, pending, results, batch, client,
                   head, ending, fate, faults>>

Prints(w) ==
    LET i == current[w]
    IN /\ step[w] \in {"calling", "finishing"} /\ reply[w] = "none"
       /\ printed[i] < Lines[i]
       /\ printed' = [printed EXCEPT ![i] = @ + 1]
       /\ stream' = [stream EXCEPT ![w] = Append(@, [kind |-> "line", n |-> printed[i] + 1])]
       /\ UNCHANGED <<todo, step, current, canceled, reply, attached, writer, pending,
                      results, batch, client, head, ending, fate, faults>>

(* The function returns, or raises before it printed everything; the end    *)
(* marker is printed either way.                                            *)
FunctionEnds(w) ==
    /\ step[w] \in {"calling", "finishing"} /\ reply[w] = "none"
    /\ \/ printed[current[w]] = Lines[current[w]] /\ faults' = faults
          /\ reply' = [reply EXCEPT ![w] = "result"]
       \/ "raise" \in Faults /\ faults < MaxFaults /\ faults' = faults + 1
          /\ reply' = [reply EXCEPT ![w] = "error"]
    /\ stream' = [stream EXCEPT ![w] = Append(@, [kind |-> "end", input |-> current[w]])]
    /\ UNCHANGED <<todo, step, current, canceled, printed, attached, writer, pending,
                   results, batch, client, head, ending, fate>>

Crashes(w) ==
    /\ "crash" \in Faults /\ faults < MaxFaults /\ faults' = faults + 1
    /\ step[w] = "calling" /\ reply[w] = "none"
    /\ reply' = [reply EXCEPT ![w] = "dead"]
    /\ UNCHANGED <<todo, step, current, canceled, printed, stream, attached, writer, pending,
                   results, batch, client, head, ending, fate>>

(* The answer is read; a traceback goes to the head only. *)
Answered(w) ==
    /\ step[w] = "calling" /\ reply[w] # "none"
    /\ step' = [step EXCEPT ![w] = "finishing"]
    /\ writer' = IF reply[w] = "result" THEN writer
                 ELSE [writer EXCEPT ![w].documents =
                          Append(@, <<[input |-> current[w], n |-> 0]>>)]
    /\ UNCHANGED <<todo, current, canceled, printed, reply, stream, attached, pending,
                   results, batch, client, head, ending, fate, faults>>

(* MUTANT: nothing bounds the wait for a marker. *)
CapForgotten(w) == FALSE

(* The wait of two seconds may end without the marker: after a crash, while *)
(* a cancelled function runs on, or because the stream trails that far.     *)
CapReached(w) == reply[w] = "dead" \/ canceled[w] \/ "lag" \in Faults

WaitTimesOut(w) ==
    /\ step[w] = "finishing" /\ current[w] \notin writer[w].ended \cup late
    /\ CapReached(w)
    /\ late' = late \cup {current[w]}
    /\ UNCHANGED <<todo, worker, stream, attached, writer, pending, results, batch, client,
                   head, ending, missing, unsaved, untold, faults>>

(* MUTANT: the result is released as soon as the answer is read. *)
NoWait(w) == step[w] = "finishing"

WaitOver(w) == step[w] = "finishing" /\ current[w] \in writer[w].ended \cup late

FinishesInput(w) ==
    LET i == current[w]
    IN /\ WaitOver(w)
       /\ QueueDocuments(w, [writer[w] EXCEPT !.ended = @ \ {i}], {i})
       /\ IF canceled[w] THEN results' = results ELSE results' = results \cup {i}
       /\ step' = [step EXCEPT ![w] =
              IF canceled[w] \/ reply[w] = "dead" THEN "over" ELSE "idle"]
       /\ reply' = [reply EXCEPT ![w] = IF @ = "dead" THEN @ ELSE "none"]
       /\ current' = [current EXCEPT ![w] = None]
       /\ UNCHANGED <<todo, canceled, printed, stream, attached, batch, client, head, ending,
                      late, unsaved, faults>>

----------------------------------------------------------------------------
(* GET /jobs/{job_id}/results, and the client that polls it *)

AtCapacity == Len(pending) = MaxPending

(* A full deque is announced by a document of its own. *)
Room == IF AtCapacity THEN MaxDocs - 1 ELSE MaxDocs
Popped == SubSeq(pending, 1, IF Len(pending) < Room THEN Len(pending) ELSE Room)

PoppedLogs == pending' = SubSeq(pending, Len(Popped) + 1, Len(pending))

(* The client polls until it has every result.  It acknowledges the batch   *)
(* it read; one it did not acknowledge is sent again, its logs are not.     *)
(* An answer with nothing in it changes nothing and is left out.            *)
GetResults ==
    /\ response = None /\ got # Inputs /\ ending = "no"
    /\ pending # <<>> \/ results # {} \/ batch # {}
    /\ LET again == batch # {} /\ ~ack
       IN /\ batch' = IF again THEN batch ELSE results
          /\ results' = IF again THEN results ELSE {}
    /\ response' = LinesOf(Popped) /\ ack' = FALSE
    /\ PoppedLogs
    /\ untold' = (untold /\ ~AtCapacity)
    /\ UNCHANGED <<todo, worker, stream, attached, writer, got, shown, head, ending, late,
                   missing, unsaved, faults>>

ClientReads ==
    /\ response # None
    /\ shown' = shown \o response /\ got' = got \cup batch
    /\ response' = None /\ ack' = (batch # {})
    /\ UNCHANGED <<todo, worker, stream, attached, writer, pending, results, batch, head,
                   ending, fate, faults>>

ResponseLost ==
    /\ "lost" \in Faults /\ faults < MaxFaults /\ faults' = faults + 1
    /\ response # None /\ response' = None
    /\ missing' = missing \cup ToSet(response)
    /\ UNCHANGED <<todo, worker, stream, attached, writer, pending, results, batch, ack, got,
                   shown, head, ending, late, unsaved, untold>>

----------------------------------------------------------------------------
(* The end of the job: _cancel_worker_input_tasks, then reset of each worker *)

JobEnds ==
    /\ ending = "no"
    /\ \/ got = Inputs /\ faults' = faults
       \/ "cancel" \in Faults /\ faults < MaxFaults /\ faults' = faults + 1
    /\ ending' = "canceling"
    /\ canceled' = [w \in Workers |-> step[w] = "calling"]
    /\ step' = [w \in Workers |->
           IF step[w] = "calling" THEN "finishing" ELSE "over"]
    /\ UNCHANGED <<todo, current, printed, reply, stream, attached, writer, pending, results,
                   batch, client, head, fate>>

(* A worker that was in the middle of a call is restarted, and its log      *)
(* stream cancelled; every writer is stopped.                               *)
ResetWorkers ==
    /\ ending = "canceling" /\ \A w \in Workers : step[w] = "over"
    /\ ending' = "reset"
    /\ attached' = [w \in Workers |-> ~canceled[w] /\ current[w] = None]
    /\ writer' = [w \in Workers |-> [writer[w] EXCEPT !.stopping = writer[w].open]]
    /\ UNCHANGED <<todo, worker, stream, pending, results, batch, client, head, fate, faults>>

Calls(w) ==
    \/ TakesInput(w) \/ Prints(w) \/ FunctionEnds(w) \/ Answered(w) \/ WaitTimesOut(w)
    \/ FinishesInput(w)

Next ==
    \/ \E w \in Workers : Calls(w) \/ Crashes(w) \/ ReadsLog(w)
    \/ \E w \in Workers : FlushStarts(w) \/ PostEnds(w) \/ PostFails(w)
    \/ GetResults \/ ClientReads \/ ResponseLost \/ JobEnds \/ ResetWorkers

Spec == Init /\ [][Next]_vars

(* The coroutines of the node, the process and the log stream run; the      *)
(* function of an input returns; a client goes on polling.                  *)
FairSpec ==
    /\ Spec
    /\ \A w \in Workers : WF_vars(ReadsLog(w)) /\ WF_vars(FlushStarts(w)) /\ WF_vars(PostEnds(w))
                          /\ WF_vars(Calls(w))
    /\ WF_vars(GetResults) /\ WF_vars(ClientReads)
    /\ WF_vars(JobEnds /\ got = Inputs) /\ WF_vars(ResetWorkers)

----------------------------------------------------------------------------
(* Properties *)

TypeOK ==
    /\ todo \subseteq Inputs /\ Delivered \subseteq Inputs /\ late \subseteq Inputs
    /\ step \in [Workers -> {"idle", "calling", "finishing", "over"}]
    /\ current \in [Workers -> Inputs \cup {None}]
    /\ printed \in [Inputs -> Nat] /\ \A i \in Inputs : printed[i] <= Lines[i]
    /\ reply \in [Workers -> {"none", "result", "error", "dead"}]
    /\ attached \in [Workers -> BOOLEAN] /\ canceled \in [Workers -> BOOLEAN]
    /\ pending \in Seq(Seq(Line)) /\ Len(pending) <= MaxPending
    /\ shown \in Seq(Line) /\ head \in Seq(Line) /\ untold \in BOOLEAN
    /\ ending \in {"no", "canceling", "reset"} /\ faults \in 0..MaxFaults

(* The lines the client has, is being sent or can still fetch. *)
Fetchable ==
    ToSet(LinesOf(pending)) \cup ToSet(shown)
        \cup (IF response = None THEN {} ELSE ToSet(response))

(* "logs for an input must be fetchable before its result is" (JobLogWriter *)
(* ._queue_document_locked): once a result can be fetched, so can every     *)
(* line printed for its input, unless the wait for its marker ended first,  *)
(* the deque dropped the line or a response lost it.                        *)
LogsFetchableFirst ==
    \A i \in Delivered \ late : \A n \in 1..printed[i] :
        [input |-> i, n |-> n] \in Fetchable \cup missing

(* No line is printed twice or out of its order, neither at the client nor  *)
(* in the head's table, though results are sent again and posts fail.       *)
OnceInOrder ==
    \A log \in {shown, head} : \A j, k \in DOMAIN log :
        j < k /\ log[j].input = log[k].input /\ log[k].n > 0 => log[j].n < log[k].n

(* What the client can see also reaches the head: a line is queued, being   *)
(* posted or recorded, unless its post failed or the writer was stopped     *)
(* during a post.                                                           *)
Saving(w) == ToSet(LinesOf(writer[w].documents)) \cup ToSet(LinesOf(writer[w].posting))

HeadCopyKept ==
    Fetchable \cup missing \subseteq
        ToSet(head) \cup unsaved \cup UNION {Saving(w) : w \in Workers}

(* Lines the deque dropped are announced by the next response: until then   *)
(* the deque is full (_pop_pending_logs tells by its length alone).         *)
OverflowAnnounced == untold => Len(pending) = MaxPending

(* Logs never hold up the job: a worker that waits for a marker, which a    *)
(* crashed container never prints, goes on, and at the end of a job every   *)
(* writer stops.                                                            *)
LogsHoldNothingUp ==
    /\ \A w \in Workers : (step[w] = "finishing") ~> (step[w] # "finishing")
    /\ (ending = "canceling") ~> (\A w \in Workers : ~writer[w].open)

(* A client that has every result has shown every line.  It has not: an     *)
(* answer carries MaxDocs documents, and the last one may leave some (see   *)
(* the README); no run checks this one.                                     *)
ClientSawAll ==
    got = Inputs /\ response = None =>
        \A i \in Inputs \ late : \A n \in 1..printed[i] :
            [input |-> i, n |-> n] \in ToSet(shown) \cup missing

(* The two copies of a job's log, the client's and the head's, are true to what was
   printed: each line once and in order, whatever the client sees saved as well,
   and what had to be dropped announced. *)
CopiesTrue == TypeOK /\ OnceInOrder /\ HeadCopyKept /\ OverflowAnnounced
=============================================================================
