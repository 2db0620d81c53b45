------------------------- MODULE ResultDeliveryProofs -------------------------
(* Proofs about ResultDelivery, for all nodes, inputs, splits and numbers of lost
   answers, abandoned polls and lost VMs. *)
EXTENDS ResultDelivery, FiniteSetTheorems, TLAPS

(* The client holds an input once, and has sent it no more often than it lost
   answers: uploads counts the POSTs of an input that a node took. *)
Uploads ==
    /\ \A n \in Nodes : pc[n] # "post" => chunk[n] = {}
    /\ \A n, m \in Nodes : n # m =>
           lists[n] \cap lists[m] = {} /\ chunk[n] \cap chunk[m] = {}
    /\ \A n, m \in Nodes : lists[n] \cap chunk[m] = {}
    /\ \A n \in Nodes : \A i \in lists[n] : uploads[i] = 0
    /\ \A n \in Nodes : \A i \in chunk[n] : uploads[i] <= losses
    /\ \A i \in Inputs : uploads[i] <= losses + 1

(* No call is younger than the count of uploads says. *)
Known(S) == \A c \in S : c[2] <= uploads[c[1]]

(* A call waits in one queue or was run by one node, and its result is in one place
   of that node until the client has it. *)
Calling ==
    /\ \A n \in Nodes : Known(queue[n]) /\ Known(ran[n])
    /\ \A n, m \in Nodes : n # m =>
           queue[n] \cap queue[m] = {} /\ ran[n] \cap ran[m] = {}
    /\ \A n, m \in Nodes : queue[n] \cap ran[m] = {}
    /\ \A n \in Nodes : results[n] \cup pending[n] \subseteq ran[n]
    /\ \A n \in Nodes : results[n] \cap (pending[n] \cup got) = {}

(* What the client acknowledges it has; a batch it has in part it has
   acknowledged, or its next poll will. *)
Acks ==
    /\ \A c \in got : \E n \in Nodes : c \in ran[n]
    /\ count = Cardinality(got)
    /\ \A n \in Nodes : toAck[n] \subseteq got
    /\ Driving =>
           /\ \A p \in late : p[2] \subseteq got
           /\ \A n \in Nodes : pending[n] \cap got = {} \/ pending[n] = toAck[n]

(* A node reports no more than it ran. *)
Counts == \A n \in Nodes : reported[n] <= Cardinality(ran[n])

(* Only a finished call says that the client has all results, and only a client
   that stopped is silent. *)
Stops == (hasAll <=> client = "finished") /\ (silent => ~Driving)

(* A call that returned has a result of every input, and the nodes know that all
   inputs were uploaded; when its silence is noticed, they have left the job. *)
Returned ==
    NoRepeat /\ client = "finished" =>
        /\ \A i \in Inputs : \E c \in got : c[1] = i
        /\ uploadedFlag
        /\ silent => \A n \in Nodes : ~Working(n)

(* Under a client that is still driving a job only fails when it was abandoned by
   its nodes, with results missing. *)
FailedEarly ==
    Driving /\ jobStatus = "FAILED" => ~AllResults /\ \A n \in Nodes : ~Working(n)

IInv ==
    /\ TypeOK /\ Uploads /\ Calling /\ Acks /\ Counts /\ Stops
    /\ Returned /\ FailedEarly /\ NoResultLost /\ VerdictTrue
-----------------------------------------------------------------------------
(* A set of calls can be counted. *)
LEMMA CallsCount ==
    ASSUME NEW S, S \subseteq Calls
    PROVE  IsFiniteSet(S) /\ Cardinality(S) \in Nat
<1>1. IsFiniteSet(1..(MaxLosses + 1))
  BY MaxLossesAssumption, FS_Interval
<1>2. IsFiniteSet(Calls)
  BY <1>1, InputsAssumption, FS_Product DEF Calls
<1> QED
  BY <1>2, FS_Subset, FS_CardinalityType

(* The next call of an input the client may still send is a call. *)
LEMMA NextCallType ==
    ASSUME TypeOK, NEW i \in Inputs, uploads[i] <= losses
    PROVE  NextCall(i) \in Calls
<1>1. uploads[i] \in Nat /\ losses \in Nat /\ losses <= MaxLosses
  BY MaxLossesAssumption DEF TypeOK
<1>2. uploads[i] + 1 \in 1..(MaxLosses + 1)
  BY <1>1, MaxLossesAssumption
<1> QED
  BY <1>2 DEF Calls, NextCall

(* What the node's answer to a poll does: it sends the unacknowledged batch again
   or takes a batch off its results. *)
LEMMA Served ==
    ASSUME TypeOK, NEW n \in Nodes, NEW ack, NEW batch, Serve(n, ack, batch)
    PROVE  /\ pending' = [pending EXCEPT ![n] = batch]
           /\ results' = [results EXCEPT ![n] = results'[n]]
           /\ batch \subseteq Calls
           /\ \/ /\ pending[n] # ack /\ batch = pending[n]
                 /\ results'[n] = results[n]
              \/ /\ pending[n] \in {ack, {}} /\ batch \subseteq results[n]
                 /\ results'[n] = results[n] \ batch
<1>1. pending' = [pending EXCEPT ![n] = batch]
  BY DEF Serve
<1>2. results[n] \subseteq Calls /\ pending[n] \subseteq Calls
  BY DEF TypeOK
<1>3. CASE Acknowledged(n, ack) # {} /\ batch = Acknowledged(n, ack)
                                     /\ UNCHANGED results
  <2>1. pending[n] # ack /\ batch = pending[n]
    BY <1>3 DEF Acknowledged
  <2>2. results' = [results EXCEPT ![n] = results'[n]]
    BY <1>3 DEF TypeOK
  <2> QED
    BY <1>1, <1>2, <1>3, <2>1, <2>2
<1>4. CASE /\ Acknowledged(n, ack) = {}
           /\ batch \in IF results[n] = {} THEN {{}} ELSE (SUBSET results[n]) \ {{}}
           /\ results' = [results EXCEPT ![n] = @ \ batch]
  <2>1. pending[n] \in {ack, {}}
    BY <1>4 DEF Acknowledged
  <2>2. batch \subseteq results[n]
    BY <1>4
  <2>3. results'[n] = results[n] \ batch
    BY <1>4 DEF TypeOK
  <2>4. results' = [results EXCEPT ![n] = results'[n]]
    BY <1>4, <2>3
  <2> QED
    BY <1>1, <1>2, <2>1, <2>2, <2>3, <2>4
<1> QED
  BY <1>3, <1>4 DEF Serve

(* The types after a poll was served. *)
LEMMA ServedType ==
    ASSUME TypeOK, NEW n \in Nodes, NEW ack, NEW batch, Serve(n, ack, batch)
    PROVE  /\ pending' \in [Nodes -> SUBSET Calls]
           /\ results' \in [Nodes -> SUBSET Calls]
           /\ batch \subseteq Calls
<1>1. results[n] \subseteq Calls /\ pending[n] \subseteq Calls
  BY DEF TypeOK
<1>2. batch \subseteq Calls /\ results'[n] \subseteq Calls
  BY <1>1, Served
<1>3. pending' = [pending EXCEPT ![n] = batch]
  BY Served
<1>4. results' = [results EXCEPT ![n] = results'[n]]
  BY Served
<1> QED
  BY <1>2, <1>3, <1>4 DEF TypeOK

(* The types after the node's part of the job is gone. *)
LEMMA EmptiedType ==
    ASSUME TypeOK, NEW n \in Nodes, NEW state \in {"left", "dead"}, Emptied(n, state)
    PROVE  /\ nodeState' \in [Nodes -> {"working", "left", "dead"}]
           /\ queue' \in [Nodes -> SUBSET Calls]
           /\ results' \in [Nodes -> SUBSET Calls]
           /\ pending' \in [Nodes -> SUBSET Calls]
           /\ nodeState'[n] = state /\ ~Working(n)'
           /\ \A m \in Nodes : Working(m)' => Working(m) /\ m # n
BY DEF TypeOK, Emptied, Working

(* The types after a push. *)
LEMMA PushedType ==
    ASSUME TypeOK, NEW n \in Nodes, Pushed(n)
    PROVE  /\ reported' \in [Nodes -> Nat]
           /\ knowsUploaded' \in [Nodes -> BOOLEAN]
           /\ reported'[n] = Cardinality(ran[n])
           /\ \A m \in Nodes \ {n} : reported'[m] = reported[m]
<1>1. Cardinality(ran[n]) \in Nat
  BY CallsCount DEF TypeOK
<1>2. knowsUploaded[n] \/ uploadedFlag \in BOOLEAN
  BY DEF TypeOK
<1> QED
  BY <1>1, <1>2 DEF TypeOK, Pushed

(* The types after the client's tasks ended. *)
LEMMA TasksEndType ==
    ASSUME TypeOK, TasksEnd, HeartbeatsStop
    PROVE  /\ lists' \in [Nodes -> SUBSET Inputs]
           /\ toAck' \in [Nodes -> SUBSET Calls]
           /\ pc' \in [Nodes -> {"chunk", "post", "gather", "done"}]
           /\ chunk' \in [Nodes -> SUBSET Inputs]
           /\ heard' \subseteq Nodes
BY DEF TypeOK, TasksEnd, HeartbeatsStop

(* The types after a chunk was put on a node's queue. *)
LEMMA EnqueuedType ==
    ASSUME TypeOK, Uploads, NEW n \in Nodes, Enqueue(n)
    PROVE  /\ queue' \in [Nodes -> SUBSET Calls]
           /\ uploads' \in [Inputs -> 0..(MaxLosses + 1)]
<1>1. chunk[n] \subseteq Inputs
  BY DEF TypeOK
<1>2. \A i \in chunk[n] : NextCall(i) \in Calls
  BY <1>1, NextCallType DEF Uploads
<1>3. {NextCall(i) : i \in chunk[n]} \subseteq Calls
  BY <1>2
<1>4. queue' \in [Nodes -> SUBSET Calls]
  BY <1>3 DEF Enqueue, TypeOK
<1>5. losses \in Nat /\ losses <= MaxLosses /\ MaxLosses \in Nat
  BY MaxLossesAssumption DEF TypeOK
<1>6. ASSUME NEW i \in Inputs
      PROVE  uploads[i] + (IF i \in chunk[n] THEN 1 ELSE 0) \in 0..(MaxLosses + 1)
  <2>1. uploads[i] \in 0..(MaxLosses + 1)
    BY DEF TypeOK
  <2>2. i \in chunk[n] => uploads[i] <= losses
    BY DEF Uploads
  <2> QED
    BY <1>5, <2>1, <2>2
<1>7. uploads' = [i \in Inputs |-> uploads[i] + IF i \in chunk[n] THEN 1 ELSE 0]
  BY DEF Enqueue
<1> QED
  BY <1>4, <1>6, <1>7

(* Every step keeps the types. *)
LEMMA TypeStep ==
    ASSUME TypeOK, Uploads, [Next]_vars
    PROVE  TypeOK'
<1> USE DEF liveVars, taskVars, nodeVars, headVars
<1>1. ASSUME NEW n \in Nodes, PopChunk(n)
      PROVE  TypeOK'
  <2>1. CASE \E S \in (SUBSET lists[n]) \ {{}} :
                /\ lists' = [lists EXCEPT ![n] = @ \ S]
                /\ chunk' = [chunk EXCEPT ![n] = S]
                /\ pc' = [pc EXCEPT ![n] = "post"]
    BY <1>1, <2>1 DEF TypeOK, PopChunk
  <2>2. CASE /\ lists[n] = {}
             /\ pc' = [pc EXCEPT ![n] = "gather"]
             /\ UNCHANGED <<lists, chunk>>
    BY <1>1, <2>2 DEF TypeOK, PopChunk
  <2> QED
    BY <1>1, <2>1, <2>2 DEF PopChunk
<1>2. ASSUME NEW n \in Nodes, UploadAnswered(n) \/ UploadRepeated(n)
      PROVE  TypeOK'
  <2>1. Enqueue(n)
    BY <1>2 DEF UploadAnswered, UploadRepeated
  <2>2. /\ queue' \in [Nodes -> SUBSET Calls]
        /\ uploads' \in [Inputs -> 0..(MaxLosses + 1)]
    BY <2>1, EnqueuedType
  <2>3. CASE UploadAnswered(n)
    BY <2>1, <2>2, <2>3 DEF TypeOK, Enqueue, UploadAnswered
  <2>4. CASE UploadRepeated(n)
    BY <2>1, <2>2, <2>4, MaxLossesAssumption DEF TypeOK, Enqueue, UploadRepeated
  <2> QED
    BY <1>2, <2>3, <2>4
<1>3. ASSUME NEW n \in Nodes, PollAnswered(n)
      PROVE  TypeOK'
  <2>1. PICK batch \in {pending[n]} \cup SUBSET results[n] :
            /\ Serve(n, toAck[n], batch)
            /\ toAck' = [toAck EXCEPT ![n] = AckOf(batch)]
            /\ count' = count + Cardinality(batch)
            /\ got' = got \cup batch
    BY <1>3 DEF PollAnswered
  <2>2. /\ pending' \in [Nodes -> SUBSET Calls]
        /\ results' \in [Nodes -> SUBSET Calls]
        /\ batch \subseteq Calls
    BY <2>1, ServedType
  <2>3. Cardinality(batch) \in Nat
    BY <2>2, CallsCount
  <2> QED
    BY <1>3, <2>1, <2>2, <2>3 DEF TypeOK, PollAnswered, Serve, AckOf
<1>4. ASSUME NEW n \in Nodes, PollAnswerLost(n)
      PROVE  TypeOK'
  <2>1. PICK batch \in {pending[n]} \cup SUBSET results[n] : Serve(n, toAck[n], batch)
    BY <1>4 DEF PollAnswerLost
  <2>2. /\ pending' \in [Nodes -> SUBSET Calls]
        /\ results' \in [Nodes -> SUBSET Calls]
    BY <2>1, ServedType
  <2> QED
    BY <1>4, <2>1, <2>2, MaxLossesAssumption DEF TypeOK, PollAnswerLost, Serve
<1>5. ASSUME NEW n \in Nodes, PollTimesOut(n) \/ PollNotOnJob(n)
      PROVE  TypeOK'
  <2>1. toAck[n] \in SUBSET Calls
    BY DEF TypeOK
  <2> QED
    BY <1>5, <2>1, MaxLossesAssumption DEF TypeOK, PollTimesOut, PollNotOnJob
<1>6. ASSUME NEW p \in late, LatePoll(p[1], p[2])
      PROVE  TypeOK'
  <2> DEFINE n == p[1]
  <2>1. n \in Nodes /\ late' \subseteq Nodes \X SUBSET Calls
    BY <1>6 DEF TypeOK, LatePoll
  <2>2. CASE \E batch \in {pending[n]} \cup SUBSET results[n] : Serve(n, p[2], batch)
    <3>1. PICK batch \in {pending[n]} \cup SUBSET results[n] : Serve(n, p[2], batch)
      BY <2>2
    <3>2. /\ pending' \in [Nodes -> SUBSET Calls]
          /\ results' \in [Nodes -> SUBSET Calls]
      BY <2>1, <3>1, ServedType
    <3> QED
      BY <1>6, <2>1, <3>1, <3>2 DEF TypeOK, LatePoll, Serve
  <2>3. CASE ~Working(n) /\ UNCHANGED <<liveVars, lists, chunk, nodeVars, headVars>>
    BY <1>6, <2>1, <2>3 DEF TypeOK, LatePoll
  <2> QED
    BY <1>6, <2>2, <2>3 DEF LatePoll
<1>7. ASSUME SetUploaded \/ ContactLost \/ ReapJob \/ Over \/ UNCHANGED vars
      PROVE  TypeOK'
  BY <1>7 DEF TypeOK, SetUploaded, ContactLost, ReapJob, Over, vars
<1>8. ASSUME Finish
      PROVE  TypeOK'
  <2>1. TasksEnd /\ HeartbeatsStop
    BY <1>8 DEF Finish
  <2> QED
    BY <1>8, <2>1, TasksEndType DEF TypeOK, Finish
<1>9. ASSUME NEW status \in {"RUNNING", "COMPLETED", "FAILED"}, Leave(status)
      PROVE  TypeOK'
  <2>1. TasksEnd /\ HeartbeatsStop
    BY <1>9 DEF Leave
  <2> QED
    BY <1>9, <2>1, TasksEndType DEF TypeOK, Leave
<1>10. ASSUME NEW n \in Nodes, NEW c \in queue[n], RunInput(n, c)
       PROVE  TypeOK'
  <2>1. c \in Calls
    BY DEF TypeOK
  <2> QED
    BY <1>10, <2>1 DEF TypeOK, RunInput
<1>11. ASSUME NEW n \in Nodes, Push(n)
       PROVE  TypeOK'
  <2>1. Pushed(n)
    BY <1>11 DEF Push
  <2> QED
    BY <1>11, <2>1, PushedType DEF TypeOK, Push
<1>12. ASSUME NEW n \in Nodes, LeaveEnded(n) \/ ClientDC(n) \/ ClaimDrained(n)
       PROVE  TypeOK'
  <2>1. Emptied(n, "left")
    BY <1>12 DEF LeaveEnded, ClientDC, ClaimDrained, Forget
  <2>2. /\ nodeState' \in [Nodes -> {"working", "left", "dead"}]
        /\ queue' \in [Nodes -> SUBSET Calls]
        /\ results' \in [Nodes -> SUBSET Calls]
        /\ pending' \in [Nodes -> SUBSET Calls]
    BY <2>1, EmptiedType
  <2> QED
    BY <1>12, <2>1, <2>2
    DEF TypeOK, LeaveEnded, ClientDC, ClaimDrained, Forget, Emptied
<1>13. ASSUME NEW n \in Nodes, CompleteJob(n)
       PROVE  TypeOK'
  <2>1. Emptied(n, "left") /\ Pushed(n)
    BY <1>13 DEF CompleteJob, Forget
  <2>2. /\ nodeState' \in [Nodes -> {"working", "left", "dead"}]
        /\ queue' \in [Nodes -> SUBSET Calls]
        /\ results' \in [Nodes -> SUBSET Calls]
        /\ pending' \in [Nodes -> SUBSET Calls]
    BY <2>1, EmptiedType
  <2>3. /\ reported' \in [Nodes -> Nat]
        /\ knowsUploaded' \in [Nodes -> BOOLEAN]
    BY <2>1, PushedType
  <2> QED
    BY <1>13, <2>1, <2>2, <2>3 DEF TypeOK, CompleteJob, Forget, Emptied
<1>14. ASSUME NEW n \in Nodes, NodeDies(n)
       PROVE  TypeOK'
  <2>1. Emptied(n, "dead")
    BY <1>14 DEF NodeDies
  <2>2. /\ nodeState' \in [Nodes -> {"working", "left", "dead"}]
        /\ queue' \in [Nodes -> SUBSET Calls]
        /\ results' \in [Nodes -> SUBSET Calls]
        /\ pending' \in [Nodes -> SUBSET Calls]
    BY <2>1, EmptiedType
  <2> QED
    BY <1>14, <2>1, <2>2, MaxLossesAssumption DEF TypeOK, NodeDies, Emptied
<1>15. ASSUME BadResult \/ ClientRaises \/ ClientCancels \/ ClientDies
       PROVE  \E status \in {"RUNNING", "COMPLETED", "FAILED"} : Leave(status)
  <2>1. jobStatus \in {"RUNNING", "COMPLETED", "FAILED"}
    BY DEF TypeOK
  <2> QED
    BY <1>15, <2>1
    DEF BadResult, ClientRaises, ClientCancels, ClientDies, HandleFailure
<1> QED
  BY <1>1, <1>2, <1>3, <1>4, <1>5, <1>6, <1>7, <1>8, <1>9, <1>10, <1>11, <1>12,
     <1>13, <1>14, <1>15
  DEF Next, TaskStep, ClientStep, NodeStep

-----------------------------------------------------------------------------
(* The client's side stays sound while it only waits. *)
LEMMA UploadsKept ==
    ASSUME TypeOK, Uploads, UNCHANGED <<lists, chunk, uploads>>,
           losses' \in {losses, losses + 1},
           \A n \in Nodes : pc'[n] # "post" => pc[n] # "post"
    PROVE  Uploads'
<1>1. losses \in Nat /\ losses' \in Nat /\ losses <= losses'
  BY MaxLossesAssumption DEF TypeOK
<1>2. \A i \in Inputs : uploads[i] \in Nat
  BY DEF TypeOK
<1>3. \A n \in Nodes : chunk[n] \subseteq Inputs
  BY DEF TypeOK
<1> QED
  BY <1>1, <1>2, <1>3 DEF Uploads

(* A chunk is taken off a list as a whole. *)
LEMMA PopUploads ==
    ASSUME TypeOK, Uploads, NEW n \in Nodes, PopChunk(n)
    PROVE  Uploads'
<1> USE DEF liveVars, taskVars, nodeVars, headVars
<1>1. UNCHANGED <<uploads, losses>>
  BY DEF PopChunk
<1>2. \A m \in Nodes : \A i \in lists[m] : uploads[i] = 0 /\ i \in Inputs
  BY DEF Uploads, TypeOK
<1>3. losses \in Nat
  BY DEF TypeOK
<1>4. CASE \E S \in (SUBSET lists[n]) \ {{}} :
              /\ lists' = [lists EXCEPT ![n] = @ \ S]
              /\ chunk' = [chunk EXCEPT ![n] = S]
              /\ pc' = [pc EXCEPT ![n] = "post"]
  <2>1. PICK S \in SUBSET lists[n] :
              /\ lists' = [lists EXCEPT ![n] = @ \ S]
              /\ chunk' = [chunk EXCEPT ![n] = S]
              /\ pc' = [pc EXCEPT ![n] = "post"]
    BY <1>4
  <2>2. /\ lists'[n] = lists[n] \ S /\ chunk'[n] = S /\ pc'[n] = "post"
        /\ \A m \in Nodes \ {n} :
               lists'[m] = lists[m] /\ chunk'[m] = chunk[m] /\ pc'[m] = pc[m]
    BY <2>1 DEF TypeOK
  <2>3. \A m \in Nodes : \A i \in chunk'[m] : uploads[i] <= losses
    <3> SUFFICES ASSUME NEW m \in Nodes, NEW i \in chunk'[m]
                 PROVE  uploads[i] <= losses
      OBVIOUS
    <3>1. CASE m = n
      BY <1>2, <1>3, <2>2, <3>1
    <3>2. CASE m # n
      BY <2>2, <3>2 DEF Uploads
    <3> QED
      BY <3>1, <3>2
  <2>4. \A m \in Nodes : \A i \in lists'[m] : uploads[i] = 0
    BY <1>2, <2>2
  <2>5. \A m \in Nodes : pc'[m] # "post" => chunk'[m] = {}
    BY <2>2 DEF Uploads
  <2>6. \A k, m \in Nodes : k # m =>
            lists'[k] \cap lists'[m] = {} /\ chunk'[k] \cap chunk'[m] = {}
    <3> SUFFICES ASSUME NEW k \in Nodes, NEW m \in Nodes, k # m
                 PROVE  lists'[k] \cap lists'[m] = {} /\ chunk'[k] \cap chunk'[m] = {}
      OBVIOUS
    <3>1. lists[k] \cap lists[m] = {} /\ chunk[k] \cap chunk[m] = {}
          /\ lists[k] \cap chunk[m] = {} /\ lists[m] \cap chunk[k] = {}
      BY DEF Uploads
    <3>2. CASE k = n
      BY <2>2, <3>1, <3>2
    <3>3. CASE k # n
      BY <2>2, <3>1, <3>3
    <3> QED
      BY <3>2, <3>3
  <2>7. \A k, m \in Nodes : lists'[k] \cap chunk'[m] = {}
    <3> SUFFICES ASSUME NEW k \in Nodes, NEW m \in Nodes
                 PROVE  lists'[k] \cap chunk'[m] = {}
      OBVIOUS
    <3>1. lists[k] \cap chunk[m] = {} /\ (k # m => lists[k] \cap lists[m] = {})
      BY DEF Uploads
    <3>2. lists'[k] \subseteq lists[k]
      BY <2>2
    <3>3. CASE m = n
      BY <2>2, <3>1, <3>2, <3>3
    <3>4. CASE m # n
      BY <2>2, <3>1, <3>2, <3>4
    <3> QED
      BY <3>3, <3>4
  <2> QED
    BY <1>1, <2>3, <2>4, <2>5, <2>6, <2>7 DEF Uploads
<1>5. CASE /\ lists[n] = {}
           /\ pc' = [pc EXCEPT ![n] = "gather"]
           /\ UNCHANGED <<lists, chunk>>
  <2>1. pc[n] = "chunk"
    BY DEF PopChunk
  <2>2. \A m \in Nodes : pc'[m] # "post" => pc[m] # "post"
    BY <1>5, <2>1 DEF TypeOK
  <2> QED
    BY <1>1, <1>5, <2>2, UploadsKept
<1> QED
  BY <1>4, <1>5 DEF PopChunk

(* Only the inputs of the chunk that was posted have one upload more. *)
LEMMA Enqueued ==
    ASSUME TypeOK, NEW n \in Nodes, Enqueue(n)
    PROVE  /\ \A i \in Inputs :
                  uploads'[i] = IF i \in chunk[n] THEN uploads[i] + 1 ELSE uploads[i]
           /\ queue' = [queue EXCEPT ![n] = queue[n] \cup {NextCall(i) : i \in chunk[n]}]
           /\ pc[n] = "post"
           /\ UNCHANGED <<liveVars, lists, toAck, count, got, results, pending, ran,
                          nodeState, knowsUploaded, headVars, late>>
<1>1. uploads' = [i \in Inputs |-> uploads[i] + IF i \in chunk[n] THEN 1 ELSE 0]
  BY DEF Enqueue
<1>2. \A i \in Inputs : uploads[i] \in Int
  BY DEF TypeOK
<1> QED
  BY <1>1, <1>2 DEF Enqueue

(* An input whose POST is answered is sent no more; one whose answer is lost is
   sent again at the price of a loss. *)
LEMMA EnqueueUploads ==
    ASSUME TypeOK, Uploads, NEW n \in Nodes, UploadAnswered(n) \/ UploadRepeated(n)
    PROVE  Uploads'
<1>1. Enqueue(n)
  BY DEF UploadAnswered, UploadRepeated
<1>2. \A i \in Inputs :
          uploads'[i] = IF i \in chunk[n] THEN uploads[i] + 1 ELSE uploads[i]
  BY <1>1, Enqueued
<1>3. lists' = lists
  BY <1>1, Enqueued
<1>4. losses \in Nat /\ losses' \in {losses, losses + 1}
  BY DEF TypeOK, UploadAnswered, UploadRepeated
<1>5. \A i \in Inputs : uploads[i] \in Nat
  BY DEF TypeOK
<1>6. \A m \in Nodes : chunk'[m] \subseteq chunk[m]
  BY DEF UploadAnswered, UploadRepeated, TypeOK
<1>7. \A m \in Nodes : \A i \in lists[m] : i \in Inputs /\ i \notin chunk[n]
  BY DEF Uploads, TypeOK
<1>8. \A i \in Inputs : uploads'[i] <= losses' + 1
  <2> SUFFICES ASSUME NEW i \in Inputs PROVE uploads'[i] <= losses' + 1
    OBVIOUS
  <2>1. i \in chunk[n] => uploads[i] <= losses
    BY DEF Uploads
  <2>2. uploads[i] <= losses + 1
    BY DEF Uploads
  <2> QED
    BY <1>2, <1>4, <1>5, <2>1, <2>2
<1>9. \A m \in Nodes : \A i \in chunk'[m] : uploads'[i] <= losses'
  <2> SUFFICES ASSUME NEW m \in Nodes, NEW i \in chunk'[m]
               PROVE  uploads'[i] <= losses'
    OBVIOUS
  <2>1. i \in Inputs /\ uploads[i] <= losses
    BY <1>6 DEF Uploads, TypeOK
  <2>2. CASE m = n
    <3>1. losses' = losses + 1
      BY <2>2 DEF UploadAnswered, UploadRepeated, TypeOK
    <3> QED
      BY <1>2, <1>4, <1>5, <2>1, <3>1
  <2>3. CASE m # n
    <3>1. i \notin chunk[n]
      BY <1>6, <2>3 DEF Uploads
    <3> QED
      BY <1>2, <1>4, <1>5, <2>1, <3>1
  <2> QED
    BY <2>2, <2>3
<1>10. \A m \in Nodes : pc'[m] # "post" => chunk'[m] = {}
  <2> SUFFICES ASSUME NEW m \in Nodes, pc'[m] # "post" PROVE chunk'[m] = {}
    OBVIOUS
  <2>1. CASE UploadAnswered(n)
    BY <2>1 DEF UploadAnswered, TypeOK, Uploads
  <2>2. CASE UploadRepeated(n)
    BY <2>2 DEF UploadRepeated, Uploads
  <2> QED
    BY <2>1, <2>2
<1>11. \A k, m \in Nodes : k # m =>
           lists'[k] \cap lists'[m] = {} /\ chunk'[k] \cap chunk'[m] = {}
  BY <1>3, <1>6 DEF Uploads
<1>12. \A k, m \in Nodes : lists'[k] \cap chunk'[m] = {}
  BY <1>3, <1>6 DEF Uploads
<1>13. \A m \in Nodes : \A i \in lists'[m] : uploads'[i] = 0
  BY <1>2, <1>3, <1>7 DEF Uploads
<1> QED
  BY <1>8, <1>9, <1>10, <1>11, <1>12, <1>13 DEF Uploads

(* What is left of a client that stopped. *)
LEMMA EndUploads ==
    ASSUME TypeOK, Uploads, TasksEnd, UNCHANGED <<uploads, losses>>
    PROVE  Uploads'
<1>1. \A n \in Nodes : lists'[n] = {}
  BY DEF TasksEnd
<1>2. \A n \in Nodes : pc'[n] # "post" => pc[n] # "post"
  BY DEF TasksEnd
<1>3. chunk' = chunk
  BY DEF TasksEnd
<1> QED
  BY <1>1, <1>2, <1>3 DEF Uploads

(* Every step keeps the client's side. *)
LEMMA UploadsStep ==
    ASSUME TypeOK, Uploads, [Next]_vars
    PROVE  Uploads'
<1> USE DEF liveVars, taskVars, nodeVars, headVars
<1>1. ASSUME NEW n \in Nodes, PollAnswered(n) \/ PollAnswerLost(n)
                              \/ PollTimesOut(n) \/ PollNotOnJob(n)
      PROVE  Uploads'
  <2>1. UNCHANGED <<lists, chunk, uploads>>
    BY <1>1 DEF PollAnswered, PollAnswerLost, PollTimesOut, PollNotOnJob, Serve
  <2>2. losses' \in {losses, losses + 1}
    BY <1>1 DEF PollAnswered, PollAnswerLost, PollTimesOut, PollNotOnJob
  <2>3. pc[n] = "gather" /\ \E v : pc' = [pc EXCEPT ![n] = v]
    BY <1>1 DEF PollAnswered, PollAnswerLost, PollTimesOut, PollNotOnJob
  <2>4. \A m \in Nodes : pc'[m] # "post" => pc[m] # "post"
    BY <2>3 DEF TypeOK
  <2> QED
    BY <2>1, <2>2, <2>4, UploadsKept
<1>2. ASSUME NEW p \in late, LatePoll(p[1], p[2])
      PROVE  Uploads'
  <2>1. UNCHANGED <<lists, chunk, uploads, pc, losses>>
    BY <1>2 DEF LatePoll, Serve
  <2> QED
    BY <2>1, UploadsKept
<1>3. ASSUME SetUploaded \/ ContactLost \/ ReapJob \/ Over \/ UNCHANGED vars
      PROVE  Uploads'
  <2>1. UNCHANGED <<lists, chunk, uploads, pc, losses>>
    BY <1>3 DEF SetUploaded, ContactLost, ReapJob, Over, vars
  <2> QED
    BY <2>1, UploadsKept
<1>4. ASSUME Finish \/ \E status : Leave(status)
      PROVE  Uploads'
  <2>1. TasksEnd /\ UNCHANGED <<uploads, losses>>
    BY <1>4 DEF Finish, Leave
  <2> QED
    BY <2>1, EndUploads
<1>5. ASSUME NEW n \in Nodes, \/ \E c \in queue[n] : RunInput(n, c)
                              \/ Push(n) \/ LeaveEnded(n) \/ ClientDC(n)
                              \/ ClaimDrained(n) \/ CompleteJob(n) \/ NodeDies(n)
      PROVE  Uploads'
  <2>1. UNCHANGED <<lists, chunk, uploads, pc>>
    BY <1>5 DEF RunInput, Push, LeaveEnded, ClientDC, ClaimDrained, CompleteJob,
                NodeDies, Forget, Emptied
  <2>2. losses' \in {losses, losses + 1}
    BY <1>5 DEF RunInput, Push, LeaveEnded, ClientDC, ClaimDrained, CompleteJob,
                NodeDies, Forget
  <2> QED
    BY <2>1, <2>2, UploadsKept
<1>6. ASSUME BadResult \/ ClientRaises \/ ClientCancels \/ ClientDies
      PROVE  \E status : Leave(status)
  BY <1>6 DEF BadResult, ClientRaises, ClientCancels, ClientDies, HandleFailure
<1> QED
  BY <1>1, <1>2, <1>3, <1>4, <1>5, <1>6, PopUploads, EnqueueUploads
  DEF Next, TaskStep, ClientStep, NodeStep

-----------------------------------------------------------------------------
(* Calls and results that only get fewer stay where they belong. *)
LEMMA CallingKept ==
    ASSUME TypeOK, Calling, UNCHANGED <<ran, uploads>>, got' \subseteq got,
           \A n \in Nodes : /\ queue'[n] \subseteq queue[n]
                            /\ results'[n] \subseteq results[n]
                            /\ pending'[n] \subseteq pending[n]
    PROVE  Calling'
<1>1. \A n \in Nodes : (Known(queue[n]) /\ Known(ran[n]))'
  BY DEF Calling, Known
<1>2. \A n, m \in Nodes : n # m =>
          queue'[n] \cap queue'[m] = {} /\ ran'[n] \cap ran'[m] = {}
  BY DEF Calling
<1>3. \A n, m \in Nodes : queue'[n] \cap ran'[m] = {}
  BY DEF Calling
<1>4. \A n \in Nodes : results'[n] \cup pending'[n] \subseteq ran'[n]
  BY DEF Calling
<1>5. \A n \in Nodes : results'[n] \cap (pending'[n] \cup got') = {}
  BY DEF Calling
<1> QED
  BY <1>1, <1>2, <1>3, <1>4, <1>5 DEF Calling

(* A call that is enqueued is a new one. *)
LEMMA EnqueueCalling ==
    ASSUME TypeOK, Calling, NEW n \in Nodes, Enqueue(n)
    PROVE  Calling'
<1> DEFINE New == {NextCall(i) : i \in chunk[n]}
<1>1. /\ \A i \in Inputs :
             uploads'[i] = IF i \in chunk[n] THEN uploads[i] + 1 ELSE uploads[i]
      /\ queue' = [queue EXCEPT ![n] = queue[n] \cup New]
      /\ UNCHANGED <<results, pending, ran, got>>
  BY Enqueued DEF nodeVars, taskVars
<1>2. \A i \in Inputs : uploads[i] \in Nat
  BY DEF TypeOK
<1>3. queue'[n] = queue[n] \cup New /\ \A m \in Nodes \ {n} : queue'[m] = queue[m]
  BY <1>1 DEF TypeOK
<1>4. \A c \in New : c[1] \in chunk[n] /\ c[1] \in Inputs /\ c[2] = uploads[c[1]] + 1
  BY DEF TypeOK, NextCall
<1> HIDE DEF New
<1>5. \A c \in Calls : c[1] \in Inputs /\ c[2] \in Int
  BY MaxLossesAssumption DEF Calls
<1>6. \A m \in Nodes : New \cap queue[m] = {} /\ New \cap ran[m] = {}
  <2> SUFFICES ASSUME NEW m \in Nodes, NEW c \in New, c \in queue[m] \/ c \in ran[m]
               PROVE  FALSE
    OBVIOUS
  <2>1. c[2] <= uploads[c[1]]
    BY DEF Calling, Known
  <2> QED
    BY <1>2, <1>4, <2>1
<1>7. ASSUME NEW S \in SUBSET Calls, Known(S)
      PROVE  Known(S)'
  <2> SUFFICES ASSUME NEW c \in S PROVE c[2] <= uploads'[c[1]]
    BY DEF Known
  <2>1. c[2] <= uploads[c[1]]
    BY <1>7 DEF Known
  <2>2. uploads[c[1]] <= uploads'[c[1]] /\ uploads'[c[1]] \in Int
    BY <1>1, <1>2, <1>5
  <2>3. c[2] \in Int /\ uploads[c[1]] \in Int
    BY <1>2, <1>5
  <2> QED
    BY <2>1, <2>2, <2>3
<1>8. \A c \in New : c[2] <= uploads'[c[1]]
  BY <1>1, <1>2, <1>4 DEF Known
<1>9. \A m \in Nodes : (Known(queue[m]) /\ Known(ran[m]))'
  <2> SUFFICES ASSUME NEW m \in Nodes PROVE (Known(queue[m]) /\ Known(ran[m]))'
    OBVIOUS
  <2>1. queue[m] \in SUBSET Calls /\ ran[m] \in SUBSET Calls
    BY DEF TypeOK
  <2>2. Known(queue[m]) /\ Known(ran[m])
    BY DEF Calling
  <2>3. \A c \in queue[m] : c[2] <= uploads'[c[1]]
    BY <1>7, <2>1, <2>2 DEF Known
  <2>4. \A c \in ran[m] : c[2] <= uploads'[c[1]]
    BY <1>7, <2>1, <2>2 DEF Known
  <2> QED
    BY <1>1, <1>3, <1>8, <2>3, <2>4 DEF Known
<1>10. \A k, m \in Nodes : k # m =>
           queue'[k] \cap queue'[m] = {} /\ ran'[k] \cap ran'[m] = {}
  BY <1>1, <1>3, <1>6 DEF Calling
<1>11. \A k, m \in Nodes : queue'[k] \cap ran'[m] = {}
  BY <1>1, <1>3, <1>6 DEF Calling
<1>12. \A m \in Nodes : /\ results'[m] \cup pending'[m] \subseteq ran'[m]
                        /\ results'[m] \cap (pending'[m] \cup got') = {}
  BY <1>1 DEF Calling
<1> QED
  BY <1>9, <1>10, <1>11, <1>12 DEF Calling

(* A batch is taken off the results it is served from. *)
LEMMA ServedCalling ==
    ASSUME TypeOK, Calling, NEW n \in Nodes, NEW ack, NEW batch,
           Serve(n, ack, batch), got' \in {got, got \cup batch}
    PROVE  Calling'
<1>1. UNCHANGED <<queue, ran, uploads>>
  BY DEF Serve
<1>2. /\ pending' = [pending EXCEPT ![n] = batch]
      /\ results' = [results EXCEPT ![n] = results'[n]]
      /\ \/ batch = pending[n] /\ results'[n] = results[n]
         \/ batch \subseteq results[n] /\ results'[n] = results[n] \ batch
  BY Served
<1>3. /\ pending'[n] = batch
      /\ \A m \in Nodes \ {n} : pending'[m] = pending[m] /\ results'[m] = results[m]
  BY <1>2 DEF TypeOK
<1>4. batch \subseteq ran[n] /\ results'[n] \cap batch = {}
      /\ results'[n] \subseteq results[n]
  BY <1>2 DEF Calling
<1>5. \A m \in Nodes : results'[m] \cup pending'[m] \subseteq ran'[m]
  BY <1>1, <1>3, <1>4 DEF Calling
<1>6. \A m \in Nodes : results'[m] \cap (pending'[m] \cup got') = {}
  <2> SUFFICES ASSUME NEW m \in Nodes
               PROVE  results'[m] \cap (pending'[m] \cup got') = {}
    OBVIOUS
  <2>1. results[m] \cap pending[m] = {} /\ results[m] \cap got = {}
    BY DEF Calling
  <2>2. CASE m = n
    BY <1>3, <1>4, <2>1, <2>2
  <2>3. CASE m # n
    <3>1. results[m] \subseteq ran[m] /\ ran[m] \cap ran[n] = {}
      BY <2>3 DEF Calling
    <3> QED
      BY <1>3, <1>4, <2>1, <2>3, <3>1
  <2> QED
    BY <2>2, <2>3
<1>7. \A m \in Nodes : (Known(queue[m]) /\ Known(ran[m]))'
  BY <1>1 DEF Calling, Known
<1> QED
  BY <1>1, <1>5, <1>6, <1>7 DEF Calling

(* A call that is run leaves the queue. *)
LEMMA RunCalling ==
    ASSUME TypeOK, Calling, NEW n \in Nodes, NEW c \in queue[n], RunInput(n, c),
           \A d \in got : \E m \in Nodes : d \in ran[m]
    PROVE  Calling'
<1>1. UNCHANGED <<pending, uploads, got>>
  BY DEF RunInput, taskVars
<1>2. /\ queue'[n] = queue[n] \ {c} /\ results'[n] = results[n] \cup {c}
      /\ ran'[n] = ran[n] \cup {c}
      /\ \A m \in Nodes \ {n} : /\ queue'[m] = queue[m]
                                /\ results'[m] = results[m] /\ ran'[m] = ran[m]
  BY DEF RunInput, TypeOK
<1>3. /\ \A m \in Nodes \ {n} : c \notin queue[m]
      /\ \A m \in Nodes : c \notin ran[m] /\ c \notin pending[m]
      /\ c \notin got
  BY DEF Calling
<1>4. \A m \in Nodes : (Known(queue[m]) /\ Known(ran[m]))'
  BY <1>1, <1>2 DEF Calling, Known
<1>5. \A k, m \in Nodes : k # m =>
          queue'[k] \cap queue'[m] = {} /\ ran'[k] \cap ran'[m] = {}
  BY <1>2, <1>3 DEF Calling
<1>6. \A k, m \in Nodes : queue'[k] \cap ran'[m] = {}
  <2> SUFFICES ASSUME NEW k \in Nodes, NEW m \in Nodes
               PROVE  queue'[k] \cap ran'[m] = {}
    OBVIOUS
  <2>1. queue[k] \cap ran[m] = {}
    BY DEF Calling
  <2>2. c \notin queue'[k] /\ queue'[k] \subseteq queue[k]
    BY <1>2, <1>3
  <2>3. ran'[m] \subseteq ran[m] \cup {c}
    BY <1>2
  <2> QED
    BY <2>1, <2>2, <2>3
<1>7. \A m \in Nodes : results'[m] \cup pending'[m] \subseteq ran'[m]
  BY <1>1, <1>2 DEF Calling
<1>8. \A m \in Nodes : results'[m] \cap (pending'[m] \cup got') = {}
  BY <1>1, <1>2, <1>3 DEF Calling
<1> QED
  BY <1>4, <1>5, <1>6, <1>7, <1>8 DEF Calling

(* Every step keeps calls and results where they belong. *)
LEMMA CallingStep ==
    ASSUME TypeOK, Calling, Acks, [Next]_vars
    PROVE  Calling'
<1> USE DEF liveVars, taskVars, nodeVars, headVars
<1>1. ASSUME NEW n \in Nodes, PopChunk(n) \/ PollTimesOut(n) \/ PollNotOnJob(n)
      PROVE  Calling'
  <2>1. UNCHANGED <<ran, uploads, got, queue, results, pending>>
    BY <1>1 DEF PopChunk, PollTimesOut, PollNotOnJob
  <2> QED
    BY <2>1, CallingKept
<1>2. ASSUME NEW n \in Nodes, UploadAnswered(n) \/ UploadRepeated(n)
      PROVE  Calling'
  <2>1. Enqueue(n)
    BY <1>2 DEF UploadAnswered, UploadRepeated
  <2> QED
    BY <2>1, EnqueueCalling
<1>3. ASSUME NEW n \in Nodes, PollAnswered(n)
      PROVE  Calling'
  <2>1. PICK batch : Serve(n, toAck[n], batch) /\ got' = got \cup batch
    BY <1>3 DEF PollAnswered
  <2> QED
    BY <2>1, ServedCalling
<1>4. ASSUME NEW n \in Nodes, PollAnswerLost(n)
      PROVE  Calling'
  <2>1. PICK batch : Serve(n, toAck[n], batch) /\ got' = got
    BY <1>4 DEF PollAnswerLost
  <2> QED
    BY <2>1, ServedCalling
<1>5. ASSUME NEW p \in late, LatePoll(p[1], p[2])
      PROVE  Calling'
  <2>1. p[1] \in Nodes
    BY DEF TypeOK
  <2>2. CASE \E batch : Serve(p[1], p[2], batch) /\ got' = got
    BY <2>1, <2>2, ServedCalling
  <2>3. CASE UNCHANGED <<nodeVars, got>>
    BY <2>3, CallingKept
  <2> QED
    BY <1>5, <2>2, <2>3 DEF LatePoll
<1>6. ASSUME SetUploaded \/ ContactLost \/ ReapJob \/ Over \/ UNCHANGED vars
      PROVE  Calling'
  <2>1. UNCHANGED <<ran, uploads, got, queue, results, pending>>
    BY <1>6 DEF SetUploaded, ContactLost, ReapJob, Over, vars
  <2> QED
    BY <2>1, CallingKept
<1>7. ASSUME Finish \/ \E status : Leave(status)
      PROVE  Calling'
  <2>1. UNCHANGED nodeVars /\ got' \in {got, {}}
    BY <1>7 DEF Finish, Leave
  <2> QED
    BY <2>1, CallingKept
<1>8. ASSUME NEW n \in Nodes, NEW c \in queue[n], RunInput(n, c)
      PROVE  Calling'
  BY <1>8, RunCalling DEF Acks
<1>9. ASSUME NEW n \in Nodes, Push(n)
      PROVE  Calling'
  <2>1. UNCHANGED <<ran, uploads, got, queue, results, pending>>
    BY <1>9 DEF Push
  <2> QED
    BY <2>1, CallingKept
<1>10. ASSUME NEW n \in Nodes, LeaveEnded(n) \/ ClientDC(n) \/ ClaimDrained(n)
                               \/ CompleteJob(n) \/ NodeDies(n)
       PROVE  Calling'
  <2>1. PICK state : Emptied(n, state)
    BY <1>10 DEF LeaveEnded, ClientDC, ClaimDrained, CompleteJob, NodeDies, Forget
  <2>2. UNCHANGED <<ran, uploads, got>>
    BY <2>1 DEF Emptied
  <2>3. \A m \in Nodes : /\ queue'[m] \subseteq queue[m]
                         /\ results'[m] \subseteq results[m]
                         /\ pending'[m] \subseteq pending[m]
    BY <2>1 DEF Emptied, TypeOK
  <2> QED
    BY <2>2, <2>3, CallingKept
<1>11. ASSUME BadResult \/ ClientRaises \/ ClientCancels \/ ClientDies
       PROVE  \E status : Leave(status)
  BY <1>11 DEF BadResult, ClientRaises, ClientCancels, ClientDies, HandleFailure
<1> QED
  BY <1>1, <1>2, <1>3, <1>4, <1>5, <1>6, <1>7, <1>8, <1>9, <1>10, <1>11
  DEF Next, TaskStep, ClientStep, NodeStep

-----------------------------------------------------------------------------
(* Acknowledgements stay sound while no result reaches the client. *)
LEMMA AcksKept ==
    ASSUME TypeOK, Acks, UNCHANGED <<got, count, toAck>>, late' \subseteq late,
           Driving' => Driving,
           \A n \in Nodes : ran[n] \subseteq ran'[n] /\ pending'[n] \in {pending[n], {}}
    PROVE  Acks'
<1>1. \A c \in got' : \E n \in Nodes : c \in ran'[n]
  BY DEF Acks
<1>2. count' = Cardinality(got')
  BY DEF Acks
<1>3. \A n \in Nodes : toAck'[n] \subseteq got'
  BY DEF Acks
<1>4. ASSUME Driving'
      PROVE  /\ \A p \in late' : p[2] \subseteq got'
             /\ \A n \in Nodes : pending'[n] \cap got' = {} \/ pending'[n] = toAck'[n]
  BY <1>4 DEF Acks
<1> QED
  BY <1>1, <1>2, <1>3, <1>4 DEF Acks

(* A batch whose answer is lost, or reaches nobody, is acknowledged by nobody. *)
LEMMA ServedAcks ==
    ASSUME TypeOK, Calling, Acks, NEW n \in Nodes, NEW ack, NEW batch,
           Serve(n, ack, batch), UNCHANGED <<got, count, toAck>>, late' \subseteq late
    PROVE  Acks'
<1>1. UNCHANGED <<ran, client>>
  BY DEF Serve, liveVars
<1>2. /\ pending' = [pending EXCEPT ![n] = batch]
      /\ batch = pending[n] \/ batch \subseteq results[n]
  BY Served
<1>3. ASSUME Driving, NEW m \in Nodes
      PROVE  pending'[m] \cap got = {} \/ pending'[m] = toAck[m]
  <2>1. pending[m] \cap got = {} \/ pending[m] = toAck[m]
    BY <1>3 DEF Acks
  <2>2. results[n] \cap got = {}
    BY DEF Calling
  <2>3. pending'[m] = IF m = n THEN batch ELSE pending[m]
    BY <1>2 DEF TypeOK
  <2> QED
    BY <1>2, <2>1, <2>2, <2>3
<1>4. Driving' = Driving
  BY <1>1 DEF Driving
<1>5. Driving' => /\ \A p \in late' : p[2] \subseteq got'
                  /\ \A m \in Nodes : pending'[m] \cap got' = {} \/ pending'[m] = toAck'[m]
  BY <1>3, <1>4 DEF Acks
<1> QED
  BY <1>1, <1>5 DEF Acks

(* A batch that reaches the client is new to it, and acknowledged next. *)
LEMMA AnsweredAcks ==
    ASSUME TypeOK, Calling, Acks, NEW n \in Nodes, PollAnswered(n)
    PROVE  Acks'
<1>1. PICK batch : /\ Serve(n, toAck[n], batch)
                   /\ toAck' = [toAck EXCEPT ![n] = AckOf(batch)]
                   /\ count' = count + Cardinality(batch)
                   /\ got' = got \cup batch
  BY DEF PollAnswered
<1>2. Driving /\ UNCHANGED <<ran, client, late>>
  BY <1>1 DEF PollAnswered, Serve, liveVars
<1>3. /\ pending' = [pending EXCEPT ![n] = batch]
      /\ batch \subseteq Calls
      /\ \/ pending[n] # toAck[n] /\ batch = pending[n]
         \/ batch \subseteq results[n]
  BY <1>1, Served
<1>4. batch \cap got = {}
  BY <1>2, <1>3 DEF Acks, Calling
<1>5. batch \subseteq ran[n]
  BY <1>3 DEF Calling
<1>6. count' = Cardinality(got')
  <2>1. /\ IsFiniteSet(got) /\ IsFiniteSet(batch)
        /\ Cardinality(got) \in Nat /\ Cardinality(batch) \in Nat
    BY <1>3, CallsCount DEF TypeOK
  <2>2. Cardinality(got \cup batch)
          = Cardinality(got) + Cardinality(batch) - Cardinality(got \cap batch)
    BY <2>1, FS_Union
  <2>3. Cardinality(got \cap batch) = 0
    BY <1>4, FS_EmptySet
  <2>4. Cardinality(got \cup batch) = Cardinality(got) + Cardinality(batch)
    BY <2>1, <2>2, <2>3
  <2> QED
    BY <1>1, <2>4 DEF Acks
<1>7. toAck'[n] = batch /\ pending'[n] = batch
      /\ \A m \in Nodes \ {n} : toAck'[m] = toAck[m] /\ pending'[m] = pending[m]
  BY <1>1, <1>3 DEF AckOf, TypeOK
<1>8. \A c \in got' : \E m \in Nodes : c \in ran'[m]
  BY <1>1, <1>2, <1>5 DEF Acks
<1>9. \A m \in Nodes : toAck'[m] \subseteq got'
  BY <1>1, <1>7 DEF Acks
<1>10. \A p \in late' : p[2] \subseteq got'
  BY <1>1, <1>2 DEF Acks
<1>11. \A m \in Nodes : pending'[m] \cap got' = {} \/ pending'[m] = toAck'[m]
  <2> SUFFICES ASSUME NEW m \in Nodes, m # n
               PROVE  pending[m] \cap got' = {} \/ pending[m] = toAck[m]
    BY <1>7
  <2>1. pending[m] \cap got = {} \/ pending[m] = toAck[m]
    BY <1>2 DEF Acks
  <2>2. pending[m] \subseteq ran[m] /\ ran[m] \cap ran[n] = {}
    BY DEF Calling
  <2> QED
    BY <1>1, <1>5, <2>1, <2>2
<1> QED
  BY <1>6, <1>8, <1>9, <1>10, <1>11 DEF Acks

(* Every step keeps the acknowledgements sound. *)
LEMMA AcksStep ==
    ASSUME TypeOK, Calling, Acks, [Next]_vars
    PROVE  Acks'
<1> USE DEF liveVars, taskVars, nodeVars, headVars
<1>1. ASSUME NEW n \in Nodes, PopChunk(n) \/ PollNotOnJob(n) \/ Push(n)
      PROVE  Acks'
  <2>1. UNCHANGED <<got, count, toAck, late, client, ran, pending>>
    BY <1>1 DEF PopChunk, PollNotOnJob, Push
  <2> QED
    BY <2>1, AcksKept DEF Driving
<1>2. ASSUME NEW n \in Nodes, UploadAnswered(n) \/ UploadRepeated(n)
      PROVE  Acks'
  <2>1. UNCHANGED <<got, count, toAck, late, client, ran, pending>>
    BY <1>2 DEF UploadAnswered, UploadRepeated, Enqueue
  <2> QED
    BY <2>1, AcksKept DEF Driving
<1>3. ASSUME NEW n \in Nodes, PollAnswerLost(n)
      PROVE  Acks'
  <2>1. PICK batch : Serve(n, toAck[n], batch) /\ UNCHANGED <<got, count, toAck, late>>
    BY <1>3 DEF PollAnswerLost
  <2> QED
    BY <2>1, ServedAcks
<1>4. ASSUME NEW n \in Nodes, PollTimesOut(n)
      PROVE  Acks'
  <2>1. /\ UNCHANGED <<got, count, toAck, client, ran, pending>>
        /\ late' = late \cup {<<n, toAck[n]>>}
    BY <1>4 DEF PollTimesOut
  <2> QED
    BY <2>1 DEF Acks, Driving
<1>5. ASSUME NEW p \in late, LatePoll(p[1], p[2])
      PROVE  Acks'
  <2>1. p[1] \in Nodes
    BY DEF TypeOK
  <2>2. UNCHANGED <<got, count, toAck>> /\ late' \subseteq late
    BY <1>5 DEF LatePoll
  <2>3. CASE \E batch : Serve(p[1], p[2], batch)
    BY <2>1, <2>2, <2>3, ServedAcks
  <2>4. CASE UNCHANGED <<nodeVars, client>>
    BY <2>2, <2>4, AcksKept DEF Driving
  <2> QED
    BY <1>5, <2>3, <2>4 DEF LatePoll
<1>6. ASSUME SetUploaded \/ ContactLost \/ ReapJob \/ Over \/ UNCHANGED vars
      PROVE  Acks'
  <2>1. UNCHANGED <<got, count, toAck, late, client, ran, pending>>
    BY <1>6 DEF SetUploaded, ContactLost, ReapJob, Over, vars
  <2> QED
    BY <2>1, AcksKept DEF Driving
<1>7. ASSUME Finish
      PROVE  Acks'
  <2>1. UNCHANGED <<got, count, ran>> /\ client' = "finished"
    BY <1>7 DEF Finish
  <2>2. \A n \in Nodes : toAck'[n] = {}
    BY <1>7 DEF Finish, TasksEnd
  <2> QED
    BY <2>1, <2>2 DEF Acks, Driving
<1>8. ASSUME NEW status, Leave(status)
      PROVE  Acks'
  <2>1. got' = {} /\ count' = 0 /\ client' = "gone"
    BY <1>8 DEF Leave
  <2>2. \A n \in Nodes : toAck'[n] = {}
    BY <1>8 DEF Leave, TasksEnd
  <2> QED
    BY <2>1, <2>2, FS_EmptySet DEF Acks, Driving
<1>9. ASSUME NEW n \in Nodes, NEW c \in queue[n], RunInput(n, c)
      PROVE  Acks'
  <2>1. UNCHANGED <<got, count, toAck, late, client, pending>>
    BY <1>9 DEF RunInput
  <2>2. \A m \in Nodes : ran[m] \subseteq ran'[m]
    BY <1>9 DEF RunInput, TypeOK
  <2> QED
    BY <2>1, <2>2, AcksKept DEF Driving
<1>10. ASSUME NEW n \in Nodes, LeaveEnded(n) \/ ClientDC(n) \/ ClaimDrained(n)
                               \/ CompleteJob(n) \/ NodeDies(n)
       PROVE  Acks'
  <2>1. PICK state : Emptied(n, state)
    BY <1>10 DEF LeaveEnded, ClientDC, ClaimDrained, CompleteJob, NodeDies, Forget
  <2>2. UNCHANGED <<got, count, toAck, late, client, ran>>
    BY <2>1 DEF Emptied
  <2>3. \A m \in Nodes : pending'[m] \in {pending[m], {}}
    BY <2>1 DEF Emptied, TypeOK
  <2> QED
    BY <2>2, <2>3, AcksKept DEF Driving
<1>11. ASSUME BadResult \/ ClientRaises \/ ClientCancels \/ ClientDies
       PROVE  \E status : Leave(status)
  BY <1>11 DEF BadResult, ClientRaises, ClientCancels, ClientDies, HandleFailure
<1> QED
  BY <1>1, <1>2, <1>3, <1>4, <1>5, <1>6, <1>7, <1>8, <1>9, <1>10, <1>11, AnsweredAcks
  DEF Next, TaskStep, ClientStep, NodeStep

-----------------------------------------------------------------------------
(* Every step keeps the reports within what was run. *)
LEMMA CountsStep ==
    ASSUME TypeOK, Counts, [Next]_vars
    PROVE  Counts'
<1> USE DEF liveVars, taskVars, nodeVars, headVars
<1>1. \A n \in Nodes : IsFiniteSet(ran[n]) /\ Cardinality(ran[n]) \in Nat
                       /\ reported[n] \in Nat
  BY CallsCount DEF TypeOK
<1>2. ASSUME UNCHANGED <<ran, reported>>
      PROVE  Counts'
  BY <1>2 DEF Counts
<1>3. ASSUME NEW n \in Nodes, Pushed(n), UNCHANGED ran
      PROVE  Counts'
  <2>1. /\ reported'[n] = Cardinality(ran[n])
        /\ \A m \in Nodes \ {n} : reported'[m] = reported[m]
    BY <1>3, PushedType
  <2> QED
    BY <1>1, <1>3, <2>1 DEF Counts
<1>4. ASSUME NEW n \in Nodes, NEW c \in queue[n], RunInput(n, c)
      PROVE  Counts'
  <2>1. c \in Calls
    BY DEF TypeOK
  <2>2. ran'[n] = ran[n] \cup {c} /\ reported' = reported
        /\ \A m \in Nodes \ {n} : ran'[m] = ran[m]
    BY <1>4 DEF RunInput, TypeOK
  <2>3. ran'[n] \subseteq Calls
    BY <2>1, <2>2 DEF TypeOK
  <2>4. IsFiniteSet(ran'[n]) /\ Cardinality(ran'[n]) \in Nat
    BY <2>3, CallsCount
  <2>5. Cardinality(ran[n]) <= Cardinality(ran'[n])
    BY <2>2, <2>4, FS_Subset
  <2> SUFFICES ASSUME NEW m \in Nodes PROVE reported'[m] <= Cardinality(ran'[m])
    BY DEF Counts
  <2>6. reported[m] <= Cardinality(ran[m])
    BY DEF Counts
  <2>7. CASE m = n
    BY <1>1, <2>2, <2>4, <2>5, <2>6, <2>7
  <2>8. CASE m # n
    BY <2>2, <2>6, <2>8
  <2> QED
    BY <2>7, <2>8
<1>5. ASSUME NEW n \in Nodes, TaskStep(n)
      PROVE  UNCHANGED <<ran, reported>>
  BY <1>5 DEF TaskStep, PopChunk, UploadAnswered, UploadRepeated, Enqueue,
              PollAnswered, PollAnswerLost, PollTimesOut, PollNotOnJob, Serve
<1>6. ASSUME NEW p \in late, LatePoll(p[1], p[2])
      PROVE  UNCHANGED <<ran, reported>>
  BY <1>6 DEF LatePoll, Serve
<1>7. ASSUME ClientStep \/ ContactLost \/ ReapJob \/ Over \/ UNCHANGED vars
      PROVE  UNCHANGED <<ran, reported>>
  BY <1>7 DEF ClientStep, SetUploaded, Finish, BadResult, ClientRaises,
              ClientCancels, ClientDies, HandleFailure, Leave, ContactLost, ReapJob,
              Over, vars
<1>8. ASSUME NEW n \in Nodes, Push(n) \/ CompleteJob(n)
      PROVE  Pushed(n) /\ UNCHANGED ran
  BY <1>8 DEF Push, CompleteJob, Forget, Emptied
<1>9. ASSUME NEW n \in Nodes, LeaveEnded(n) \/ ClientDC(n) \/ ClaimDrained(n)
                              \/ NodeDies(n)
      PROVE  UNCHANGED <<ran, reported>>
  BY <1>9 DEF LeaveEnded, ClientDC, ClaimDrained, NodeDies, Forget, Emptied
<1> QED
  BY <1>2, <1>3, <1>4, <1>5, <1>6, <1>7, <1>8, <1>9 DEF Next, NodeStep

(* Every step keeps the end of the client and what the head knows of it together. *)
LEMMA StopsStep ==
    ASSUME TypeOK, Stops, [Next]_vars
    PROVE  Stops'
<1> USE DEF liveVars, taskVars, nodeVars, headVars
<1>1. ASSUME UNCHANGED <<client, hasAll, silent>>
      PROVE  Stops'
  BY <1>1 DEF Stops, Driving
<1>2. ASSUME NEW n \in Nodes, TaskStep(n)
      PROVE  UNCHANGED <<client, hasAll, silent>>
  BY <1>2 DEF TaskStep, PopChunk, UploadAnswered, UploadRepeated, Enqueue,
              PollAnswered, PollAnswerLost, PollTimesOut, PollNotOnJob, Serve
<1>3. ASSUME NEW p \in late, LatePoll(p[1], p[2])
      PROVE  UNCHANGED <<client, hasAll, silent>>
  BY <1>3 DEF LatePoll, Serve
<1>4. ASSUME NEW n \in Nodes, NodeStep(n)
      PROVE  UNCHANGED <<client, hasAll, silent>>
  BY <1>4 DEF NodeStep, RunInput, Push, LeaveEnded, ClientDC, ClaimDrained,
              CompleteJob, NodeDies, Forget, Emptied
<1>5. ASSUME SetUploaded \/ ReapJob \/ Over \/ UNCHANGED vars
      PROVE  UNCHANGED <<client, hasAll, silent>>
  BY <1>5 DEF SetUploaded, ReapJob, Over, vars
<1>6. ASSUME ContactLost
      PROVE  Stops'
  BY <1>6 DEF ContactLost, Stops, Driving
<1>7. ASSUME Finish
      PROVE  Stops'
  BY <1>7 DEF Finish, Stops, Driving
<1>8. ASSUME BadResult \/ ClientRaises \/ ClientCancels \/ ClientDies
      PROVE  Stops'
  <2>1. PICK status : Leave(status)
    BY <1>8 DEF BadResult, ClientRaises, ClientCancels, ClientDies, HandleFailure
  <2> QED
    BY <2>1 DEF Leave, Stops, Driving
<1> QED
  BY <1>1, <1>2, <1>3, <1>4, <1>5, <1>6, <1>7, <1>8 DEF Next, ClientStep

-----------------------------------------------------------------------------
(* Without a repeated upload a set of calls has as many inputs as calls. *)
LEMMA OneCallEach ==
    ASSUME TypeOK, NoRepeat, NEW S, S \subseteq Calls, Known(S)
    PROVE  Cardinality({c[1] : c \in S}) = Cardinality(S)
<1> DEFINE I == {c[1] : c \in S}
           f == [c \in S |-> c[1]]
<1>1. \A c \in S : c = <<c[1], 1>>
  <2> SUFFICES ASSUME NEW c \in S PROVE c = <<c[1], 1>>
    OBVIOUS
  <2>1. c[1] \in Inputs /\ c[2] \in 1..(MaxLosses + 1) /\ c = <<c[1], c[2]>>
    BY DEF Calls
  <2>2. c[2] <= uploads[c[1]]
    BY DEF Known
  <2>3. uploads[c[1]] <= 1 /\ uploads[c[1]] \in Int
    BY <2>1 DEF NoRepeat, TypeOK
  <2>4. c[2] \in Int /\ c[2] >= 1
    BY <2>1, MaxLossesAssumption
  <2>5. c[2] = 1
    BY <2>2, <2>3, <2>4
  <2> QED
    BY <2>1, <2>5
<1>2. f \in [S -> I] /\ \A b, c \in S : f[b] = f[c] => b = c
  BY <1>1
<1>3. \A i \in I : \E c \in S : f[c] = i
  OBVIOUS
<1>4. f \in Bijection(S, I)
  BY <1>2, <1>3 DEF Bijection, Injection, Surjection, IsInjective
<1>5. ExistsBijection(S, I)
  BY <1>4 DEF ExistsBijection
<1>6. IsFiniteSet(S)
  BY CallsCount
<1> QED
  BY <1>5, <1>6, FS_Bijection

(* As many calls as inputs are calls of all inputs then. *)
LEMMA AllCalled ==
    ASSUME TypeOK, NoRepeat, NEW S, S \subseteq Calls, Known(S),
           Cardinality(S) >= Cardinality(Inputs)
    PROVE  \A i \in Inputs : \E c \in S : c[1] = i
<1> DEFINE I == {c[1] : c \in S}
<1>1. I \subseteq Inputs
  BY DEF Calls
<1>2. Cardinality(I) = Cardinality(S)
  BY OneCallEach
<1>3. Cardinality(I) <= Cardinality(Inputs) /\ IsFiniteSet(I)
      /\ (Cardinality(Inputs) = Cardinality(I) => Inputs = I)
  BY <1>1, InputsAssumption, FS_Subset
<1>4. Cardinality(I) \in Nat /\ Cardinality(Inputs) \in Nat
  BY <1>3, InputsAssumption, FS_CardinalityType
<1> HIDE DEF I
<1>5. Inputs = I
  BY <1>2, <1>3, <1>4
<1> QED
  BY <1>5 DEF I

(* What the client got is known. *)
LEMMA GotKnown ==
    ASSUME TypeOK, Calling, Acks
    PROVE  got \subseteq Calls /\ Known(got)
BY DEF TypeOK, Calling, Acks, Known

(* A client that counted enough results has one of every input. *)
LEMMA CountedAll ==
    ASSUME TypeOK, Calling, Acks, NoRepeat, AllResults
    PROVE  \A i \in Inputs : \E c \in got : c[1] = i
<1>1. got \subseteq Calls /\ Known(got)
  BY GotKnown
<1>2. Cardinality(got) >= Cardinality(Inputs)
  BY DEF Acks, AllResults
<1> QED
  BY <1>1, <1>2, AllCalled

(* The results of all inputs are the proof that all were run. *)
LEMMA GotRan ==
    ASSUME Acks, \A i \in Inputs : \E c \in got : c[1] = i
    PROVE  AllInputsRan
BY DEF Acks, AllInputsRan

(* Counts that no node exceeds add up to no more than what was run: each of them
   stands for a call of its own. *)
LEMMA TotalRan ==
    ASSUME TypeOK, Calling, NEW r \in [Nodes -> Nat],
           \A n \in Nodes : r[n] <= Cardinality(ran[n])
    PROVE  Total(r) \in Nat /\ Total(r) <= Cardinality(UNION {ran[n] : n \in Nodes})
<1> DEFINE Counted == UNION {{n} \X (1..r[n]) : n \in Nodes}
           All == UNION {ran[n] : n \in Nodes}
           nth == [n \in Nodes |-> CHOOSE b : b \in Bijection(1..Cardinality(ran[n]), ran[n])]
           call == [p \in Counted |-> nth[p[1]][p[2]]]
<1>1. ASSUME NEW n \in Nodes
      PROVE  nth[n] \in Bijection(1..Cardinality(ran[n]), ran[n]) /\ Cardinality(ran[n]) \in Nat
  BY CallsCount, FS_CardinalityType DEF TypeOK, ExistsBijection
<1> HIDE DEF nth
<1>2. ASSUME NEW n \in Nodes
      PROVE  /\ \A k \in 1..r[n] : nth[n][k] \in ran[n]
             /\ \A k, l \in 1..r[n] : nth[n][k] = nth[n][l] => k = l
  BY <1>1 DEF Bijection, Injection, IsInjective
<1>3. \A p \in Counted : p[1] \in Nodes /\ p[2] \in 1..r[p[1]] /\ p = <<p[1], p[2]>>
  OBVIOUS
<1>4. \A n, m \in Nodes : n # m => ran[n] \cap ran[m] = {}
  BY DEF Calling
<1> HIDE DEF Counted
<1>5. call \in Injection(Counted, All)
  <2>1. \A p \in Counted : call[p] \in ran[p[1]]
    BY <1>2, <1>3
  <2>2. \A p, q \in Counted : call[p] = call[q] => p = q
    BY <1>2, <1>3, <1>4, <2>1
  <2>3. call \in [Counted -> All]
    BY <1>3, <2>1
  <2> QED
    BY <2>2, <2>3 DEF Injection, IsInjective
<1>6. IsFiniteSet(All)
  <2>1. All \subseteq Calls
    BY DEF TypeOK
  <2> QED
    BY <2>1, CallsCount
<1> HIDE DEF call, All
<1>7. IsFiniteSet(Counted) /\ Cardinality(Counted) <= Cardinality(All)
  BY <1>5, <1>6, FS_Injection
<1> QED
  BY <1>7, FS_CardinalityType DEF Total, Counted, All

(* Counts that reach the number of inputs are of all inputs. *)
LEMMA ReportedRan ==
    ASSUME TypeOK, Calling, NoRepeat, NEW r \in [Nodes -> Nat],
           \A n \in Nodes : r[n] <= Cardinality(ran[n]),
           Total(r) >= Cardinality(Inputs)
    PROVE  AllInputsRan
<1> DEFINE All == UNION {ran[n] : n \in Nodes}
<1>1. Total(r) \in Nat /\ Total(r) <= Cardinality(All)
  BY TotalRan
<1>2. All \subseteq Calls /\ Known(All)
  BY DEF TypeOK, Calling, Known
<1>3. Cardinality(All) \in Nat /\ Cardinality(Inputs) \in Nat
  BY <1>2, CallsCount, InputsAssumption, FS_CardinalityType
<1>4. \A i \in Inputs : \E c \in All : c[1] = i
  <2>1. Cardinality(All) >= Cardinality(Inputs)
    BY <1>1, <1>3
  <2> HIDE DEF All
  <2> QED
    BY <1>2, <2>1, AllCalled
<1> QED
  BY <1>4 DEF AllInputsRan

-----------------------------------------------------------------------------
(* What no step undoes: a repeated upload, a node that left, a call that was run,
   an upload that is complete, a client that stopped. *)
LEMMA Onward ==
    ASSUME TypeOK, [Next]_vars
    PROVE  /\ NoRepeat' => NoRepeat
           /\ \A n \in Nodes : Working(n)' => Working(n)
           /\ \A n \in Nodes : ran[n] \subseteq ran'[n]
           /\ uploadedFlag => uploadedFlag'
           /\ client' # client => Finish \/ \E status : Leave(status)
           /\ silent' # silent => ContactLost
           /\ ~Driving => got' = got
           /\ count' # count => \/ \E n \in Nodes : Working(n)
                                \/ \E status : Leave(status)
<1> USE DEF liveVars, taskVars, nodeVars, headVars
<1> DEFINE Same == UNCHANGED <<uploads, nodeState, ran, uploadedFlag, client, silent,
                               got, count>>
           Fact == /\ NoRepeat' => NoRepeat
                   /\ \A n \in Nodes : Working(n)' => Working(n)
                   /\ \A n \in Nodes : ran[n] \subseteq ran'[n]
                   /\ uploadedFlag => uploadedFlag'
                   /\ client' # client => Finish \/ \E status : Leave(status)
                   /\ silent' # silent => ContactLost
                   /\ ~Driving => got' = got
                   /\ count' # count => \/ \E n \in Nodes : Working(n)
                                        \/ \E status : Leave(status)
<1>1. ASSUME Same PROVE Fact
  BY <1>1 DEF NoRepeat, Working
<1>2. ASSUME NEW n \in Nodes, PopChunk(n) \/ PollTimesOut(n) \/ PollNotOnJob(n)
                              \/ Push(n)
      PROVE  Same
  BY <1>2 DEF PopChunk, PollTimesOut, PollNotOnJob, Push
<1>3. ASSUME NEW n \in Nodes, UploadAnswered(n) \/ UploadRepeated(n)
      PROVE  Fact
  <2>1. Enqueue(n)
    BY <1>3 DEF UploadAnswered, UploadRepeated
  <2>2. \A i \in Inputs :
            uploads'[i] = IF i \in chunk[n] THEN uploads[i] + 1 ELSE uploads[i]
    BY <2>1, Enqueued
  <2>3. \A i \in Inputs : uploads[i] \in Nat
    BY DEF TypeOK
  <2>4. NoRepeat' => NoRepeat
    BY <2>2, <2>3 DEF NoRepeat
  <2>5. UNCHANGED <<nodeState, ran, uploadedFlag, client, silent, got, count>>
    BY <2>1 DEF Enqueue
  <2> QED
    BY <2>4, <2>5 DEF Working
<1>4. ASSUME NEW n \in Nodes, PollAnswered(n)
      PROVE  Fact
  <2>1. Driving /\ Working(n)
    BY <1>4 DEF PollAnswered, Serve
  <2>2. UNCHANGED <<uploads, nodeState, ran, uploadedFlag, client, silent>>
    BY <1>4 DEF PollAnswered, Serve
  <2> QED
    BY <2>1, <2>2 DEF NoRepeat, Working
<1>5. ASSUME NEW n \in Nodes, PollAnswerLost(n)
      PROVE  Same
  BY <1>5 DEF PollAnswerLost, Serve
<1>6. ASSUME NEW p \in late, LatePoll(p[1], p[2])
      PROVE  Same
  BY <1>6 DEF LatePoll, Serve
<1>7. ASSUME ReapJob \/ Over \/ UNCHANGED vars
      PROVE  Same
  BY <1>7 DEF ReapJob, Over, vars
<1>8. ASSUME SetUploaded
      PROVE  Fact
  BY <1>8 DEF SetUploaded, NoRepeat, Working
<1>9. ASSUME ContactLost
      PROVE  Fact
  BY <1>9 DEF ContactLost, NoRepeat, Working
<1>10. ASSUME Finish
       PROVE  Fact
  <2>1. UNCHANGED <<uploads, nodeState, ran, uploadedFlag, silent, got, count>>
    BY <1>10 DEF Finish
  <2> QED
    BY <1>10, <2>1 DEF NoRepeat, Working
<1>11. ASSUME NEW status, Leave(status)
       PROVE  Fact
  <2>1. Driving /\ UNCHANGED <<uploads, nodeState, ran, uploadedFlag, silent>>
    BY <1>11 DEF Leave
  <2> QED
    BY <1>11, <2>1 DEF NoRepeat, Working
<1>12. ASSUME NEW n \in Nodes, NEW c \in queue[n], RunInput(n, c)
       PROVE  Fact
  <2>1. UNCHANGED <<uploads, nodeState, uploadedFlag, client, silent, got, count>>
    BY <1>12 DEF RunInput
  <2>2. \A m \in Nodes : ran[m] \subseteq ran'[m]
    BY <1>12 DEF RunInput, TypeOK
  <2> QED
    BY <2>1, <2>2 DEF NoRepeat, Working
<1>13. ASSUME NEW n \in Nodes, LeaveEnded(n) \/ ClientDC(n) \/ ClaimDrained(n)
                               \/ CompleteJob(n) \/ NodeDies(n)
       PROVE  Fact
  <2>1. PICK state \in {"left", "dead"} : Emptied(n, state)
    BY <1>13 DEF LeaveEnded, ClientDC, ClaimDrained, CompleteJob, NodeDies, Forget
  <2>2. UNCHANGED <<uploads, ran, uploadedFlag, client, silent, got, count>>
    BY <2>1 DEF Emptied
  <2>3. \A m \in Nodes : Working(m)' => Working(m)
    BY <2>1, EmptiedType
  <2> QED
    BY <2>2, <2>3 DEF NoRepeat
<1>14. ASSUME BadResult \/ ClientRaises \/ ClientCancels \/ ClientDies
       PROVE  \E status : Leave(status)
  BY <1>14 DEF BadResult, ClientRaises, ClientCancels, ClientDies, HandleFailure
<1> HIDE DEF Same
<1>15. Fact
  <2> HIDE DEF Fact
  <2>1. ASSUME NEW n \in Nodes, TaskStep(n) PROVE Fact
    BY <2>1, <1>1, <1>2, <1>3, <1>4, <1>5 DEF TaskStep
  <2>2. ASSUME NEW n \in Nodes, NodeStep(n) PROVE Fact
    BY <2>2, <1>1, <1>2, <1>12, <1>13 DEF NodeStep
  <2>3. ASSUME ClientStep PROVE Fact
    BY <2>3, <1>8, <1>10, <1>11, <1>14 DEF ClientStep
  <2> QED
    BY <2>1, <2>2, <2>3, <1>1, <1>6, <1>7, <1>9 DEF Next
<1> QED
  BY <1>15

-----------------------------------------------------------------------------
(* Every step of a running job with its client and its VMs keeps its inputs. *)
LEMMA HandsStep ==
    ASSUME TypeOK, Uploads, Calling, Acks, Stops, NoResultLost, [Next]_vars
    PROVE  NoResultLost'
<1> USE DEF liveVars, taskVars, nodeVars, headVars
<1> SUFFICES ASSUME jobStatus' = "RUNNING", Driving',
                    \A n \in Nodes : nodeState'[n] # "dead",
                    NEW i \in Inputs
             PROVE  InGoodHands(i)'
  BY DEF NoResultLost
<1> DEFINE Alive == \A n \in Nodes : nodeState[n] # "dead"
<1>1. ASSUME jobStatus = "RUNNING", Driving, Alive
      PROVE  InGoodHands(i)
  BY <1>1 DEF NoResultLost
<1>2. ASSUME UNCHANGED <<jobStatus, client, nodeState>>
      PROVE  InGoodHands(i)
  BY <1>1, <1>2 DEF Driving
<1>3. ASSUME NEW n \in Nodes, PopChunk(n)
      PROVE  InGoodHands(i)'
  <2>1. InGoodHands(i)
    BY <1>2, <1>3 DEF PopChunk
  <2>2. chunk[n] = {}
    BY <1>3 DEF PopChunk, Uploads
  <2>3. UNCHANGED <<got, queue, results, pending>>
    BY <1>3 DEF PopChunk
  <2>4. \A m \in Nodes : lists[m] \cup chunk[m] \subseteq lists'[m] \cup chunk'[m]
    BY <1>3, <2>2 DEF PopChunk, TypeOK
  <2> QED
    BY <2>1, <2>3, <2>4 DEF InGoodHands
<1>4. ASSUME NEW n \in Nodes, UploadAnswered(n) \/ UploadRepeated(n)
      PROVE  InGoodHands(i)'
  <2>1. Enqueue(n)
    BY <1>4 DEF UploadAnswered, UploadRepeated
  <2>2. InGoodHands(i)
    BY <1>2, <2>1 DEF Enqueue
  <2>3. UNCHANGED <<lists, got, results, pending>>
    BY <2>1 DEF Enqueue
  <2>4. /\ queue' = [queue EXCEPT ![n] = queue[n] \cup {NextCall(j) : j \in chunk[n]}]
    BY <2>1 DEF Enqueue
  <2>5. \A m \in Nodes : queue[m] \subseteq queue'[m]
    BY <2>4 DEF TypeOK
  <2>6. \A m \in Nodes : m # n => chunk'[m] = chunk[m]
    BY <1>4 DEF UploadAnswered, UploadRepeated, TypeOK
  <2>7. CASE i \in chunk[n]
    <3>1. NextCall(i) \in queue'[n] /\ NextCall(i)[1] = i
      BY <2>4, <2>7 DEF TypeOK, NextCall
    <3> QED
      BY <3>1 DEF InGoodHands
  <2>8. CASE i \notin chunk[n]
    <3>1. \A m \in Nodes : i \in lists[m] \cup chunk[m] => i \in lists'[m] \cup chunk'[m]
      BY <2>3, <2>6, <2>8
    <3> QED
      BY <2>2, <2>3, <2>5, <3>1 DEF InGoodHands
  <2> QED
    BY <2>7, <2>8
<1>5. ASSUME NEW n \in Nodes, NEW ack, NEW batch, Serve(n, ack, batch),
             ack \subseteq got, got \subseteq got'
      PROVE  InGoodHands(i)'
  <2>1. InGoodHands(i)
    BY <1>2, <1>5 DEF Serve
  <2>2. UNCHANGED <<lists, chunk, queue>>
    BY <1>5 DEF Serve
  <2>3. /\ pending' = [pending EXCEPT ![n] = batch]
        /\ results' = [results EXCEPT ![n] = results'[n]]
        /\ \/ batch = pending[n] /\ results'[n] = results[n]
           \/ /\ pending[n] \in {ack, {}} /\ batch \subseteq results[n]
              /\ results'[n] = results[n] \ batch
    BY <1>5, Served
  <2>4. pending'[n] = batch
        /\ \A m \in Nodes \ {n} : pending'[m] = pending[m] /\ results'[m] = results[m]
    BY <2>3 DEF TypeOK
  <2>5. \A m \in Nodes : results[m] \cup pending[m] \subseteq
                             results'[m] \cup pending'[m] \cup got'
    BY <1>5, <2>3, <2>4
  <2> QED
    BY <1>5, <2>1, <2>2, <2>5 DEF InGoodHands
<1>6. ASSUME NEW n \in Nodes, PollAnswered(n)
      PROVE  InGoodHands(i)'
  <2>1. PICK batch : Serve(n, toAck[n], batch) /\ got' = got \cup batch
    BY <1>6 DEF PollAnswered
  <2>2. toAck[n] \subseteq got
    BY DEF Acks
  <2> QED
    BY <1>5, <2>1, <2>2
<1>7. ASSUME NEW n \in Nodes, PollAnswerLost(n)
      PROVE  InGoodHands(i)'
  <2>1. PICK batch : Serve(n, toAck[n], batch) /\ got' = got
    BY <1>7 DEF PollAnswerLost
  <2>2. toAck[n] \subseteq got
    BY DEF Acks
  <2> QED
    BY <1>5, <2>1, <2>2
<1>8. ASSUME NEW p \in late, LatePoll(p[1], p[2])
      PROVE  InGoodHands(i)'
  <2>1. p[1] \in Nodes /\ UNCHANGED <<client, got>>
    BY <1>8 DEF TypeOK, LatePoll, Serve
  <2>2. p[2] \subseteq got
    BY <2>1 DEF Acks, Driving
  <2>3. CASE \E batch : Serve(p[1], p[2], batch)
    BY <1>5, <2>1, <2>2, <2>3
  <2>4. CASE UNCHANGED <<liveVars, lists, chunk, nodeVars, headVars>>
    BY <1>2, <2>1, <2>4 DEF InGoodHands
  <2> QED
    BY <1>8, <2>3, <2>4 DEF LatePoll
<1>9. ASSUME NEW n \in Nodes, PollTimesOut(n) \/ PollNotOnJob(n) \/ Push(n)
      PROVE  InGoodHands(i)'
  <2>1. UNCHANGED <<jobStatus, client, nodeState, lists, chunk, got, queue, results,
                    pending>>
    BY <1>9 DEF PollTimesOut, PollNotOnJob, Push
  <2> QED
    BY <1>2, <2>1 DEF InGoodHands
<1>10. ASSUME SetUploaded \/ ContactLost \/ Over \/ UNCHANGED vars
       PROVE  InGoodHands(i)'
  <2>1. UNCHANGED <<jobStatus, client, nodeState, lists, chunk, got, queue, results,
                    pending>>
    BY <1>10 DEF SetUploaded, ContactLost, Over, vars
  <2> QED
    BY <1>2, <2>1 DEF InGoodHands
<1>11. ~ReapJob /\ ~Finish /\ ~\E status : Leave(status)
  BY DEF ReapJob, Finish, Leave, Driving
<1>12. ASSUME NEW n \in Nodes, NEW c \in queue[n], RunInput(n, c)
       PROVE  InGoodHands(i)'
  <2>1. UNCHANGED <<jobStatus, client, nodeState, lists, chunk, got, pending>>
    BY <1>12 DEF RunInput
  <2>2. InGoodHands(i)
    BY <1>2, <2>1
  <2>3. \A m \in Nodes : queue[m] \cup results[m] \subseteq queue'[m] \cup results'[m]
    BY <1>12 DEF RunInput, TypeOK
  <2> QED
    BY <2>1, <2>2, <2>3 DEF InGoodHands
<1>13. ASSUME NEW n \in Nodes, ClaimDrained(n)
       PROVE  InGoodHands(i)'
  <2>1. Emptied(n, "left") /\ Working(n) /\ Drained(n) /\ jobStatus' = jobStatus
    BY <1>13 DEF ClaimDrained, Forget
  <2>2. UNCHANGED <<client, lists, chunk, got>>
    BY <2>1 DEF Emptied
  <2>3. nodeState' = [nodeState EXCEPT ![n] = "left"]
    BY <2>1 DEF Emptied
  <2>4. Alive
    BY <2>1, <2>3 DEF Working, TypeOK
  <2>5. InGoodHands(i)
    BY <1>1, <2>1, <2>2, <2>4 DEF Driving
  <2>6. UNCHANGED <<queue, results, pending>>
    BY <2>1 DEF Emptied, Drained, TypeOK
  <2> QED
    BY <2>2, <2>5, <2>6 DEF InGoodHands
<1>14. ASSUME NEW n \in Nodes
       PROVE  ~LeaveEnded(n) /\ ~ClientDC(n)
  BY DEF LeaveEnded, ClientDC
<1>15. ASSUME NEW n \in Nodes
       PROVE  ~CompleteJob(n)
  BY DEF CompleteJob
<1>16. ASSUME NEW n \in Nodes
       PROVE  ~NodeDies(n)
  BY DEF NodeDies, Emptied, TypeOK
<1>17. ~BadResult /\ ~ClientRaises /\ ~ClientCancels /\ ~ClientDies
  BY <1>11 DEF BadResult, ClientRaises, ClientCancels, ClientDies, HandleFailure
<1> QED
  BY <1>3, <1>4, <1>6, <1>7, <1>8, <1>9, <1>10, <1>11, <1>12, <1>13, <1>14, <1>15,
     <1>16, <1>17
  DEF Next, TaskStep, ClientStep, NodeStep

-----------------------------------------------------------------------------
(* Nothing waits on a node any more when the client has all results. *)
LEMMA NothingWaits ==
    ASSUME TypeOK, Calling, Acks, NoRepeat, \A i \in Inputs : \E c \in got : c[1] = i,
           NEW n \in Nodes
    PROVE  queue[n] = {}
<1> SUFFICES ASSUME NEW c \in queue[n] PROVE FALSE
  OBVIOUS
<1>1. \A d \in Calls : /\ d[1] \in Inputs /\ d[2] \in Int /\ d[2] >= 1
                       /\ d = <<d[1], d[2]>>
  BY MaxLossesAssumption DEF Calls
<1>2. c \in Calls
  BY DEF TypeOK
<1>3. PICK d \in got : d[1] = c[1]
  BY <1>1, <1>2
<1>4. d \in Calls
  BY GotKnown
<1>5. d[2] <= uploads[c[1]] /\ c[2] <= uploads[c[1]]
  BY <1>3, GotKnown DEF Known, Calling
<1>6. uploads[c[1]] <= 1 /\ uploads[c[1]] \in Int
  BY <1>1, <1>2 DEF NoRepeat, TypeOK
<1>7. d[2] = 1 /\ c[2] = 1
  BY <1>1, <1>2, <1>4, <1>5, <1>6
<1>8. c = d
  BY <1>1, <1>2, <1>3, <1>4, <1>7
<1> QED
  BY <1>8 DEF Acks, Calling

(* Nor is an input on a list of the client. *)
LEMMA NothingListed ==
    ASSUME TypeOK, Uploads, Calling, Acks, \A i \in Inputs : \E c \in got : c[1] = i
    PROVE  AllPopped
<1> SUFFICES ASSUME NEW n \in Nodes, NEW i \in lists[n] PROVE FALSE
  BY DEF AllPopped
<1>1. i \in Inputs /\ uploads[i] = 0
  BY DEF TypeOK, Uploads
<1>2. PICK c \in got : c[1] = i
  BY <1>1
<1>3. c \in Calls /\ c[2] <= uploads[i]
  BY <1>2, GotKnown DEF Known
<1>4. c[2] \in Int /\ c[2] >= 1
  BY <1>3, MaxLossesAssumption DEF Calls
<1> QED
  BY <1>1, <1>3, <1>4

(* Every step keeps the promise of a call that returned. *)
LEMMA ReturnedStep ==
    ASSUME TypeOK, Uploads, Calling, Acks, Stops, Returned, [Next]_vars
    PROVE  Returned'
<1> SUFFICES ASSUME NoRepeat', client' = "finished"
             PROVE  /\ \A i \in Inputs : \E c \in got' : c[1] = i
                    /\ uploadedFlag'
                    /\ silent' => \A n \in Nodes : ~Working(n)'
  BY DEF Returned
<1>1. /\ NoRepeat
      /\ \A n \in Nodes : Working(n)' => Working(n)
      /\ uploadedFlag => uploadedFlag'
      /\ client' # client => Finish \/ \E status : Leave(status)
      /\ silent' # silent => ContactLost
      /\ ~Driving => got' = got
  BY Onward
<1>2. ~\E status : Leave(status)
  BY DEF Leave
<1>3. CASE client' # client
  <2>1. Finish
    BY <1>1, <1>2, <1>3
  <2>2. AllResults /\ (AllPopped => uploadedFlag) /\ got' = got /\ silent' = silent
        /\ uploadedFlag' = uploadedFlag /\ Driving
    BY <2>1 DEF Finish, Enough
  <2>3. \A i \in Inputs : \E c \in got : c[1] = i
    BY <1>1, <2>2, CountedAll
  <2>4. AllPopped
    BY <2>3, NothingListed
  <2>5. ~silent
    BY <2>2 DEF Stops
  <2> QED
    BY <2>2, <2>3, <2>4, <2>5
<1>4. CASE client' = client
  <2>1. /\ \A i \in Inputs : \E c \in got : c[1] = i
        /\ uploadedFlag
        /\ silent => \A n \in Nodes : ~Working(n)
    BY <1>1, <1>4 DEF Returned
  <2>2. got' = got
    BY <1>1, <1>4 DEF Driving
  <2>3. CASE silent' = silent
    BY <1>1, <2>1, <2>2, <2>3
  <2>4. CASE silent' # silent
    <3>1. ContactLost
      BY <1>1, <2>4
    <3>2. /\ \A n \in Nodes : Working(n) => knowsUploaded[n]
          /\ ~\E n \in Nodes : Working(n) /\ Processed(n) /\ hasAll
      BY <2>1, <3>1 DEF ContactLost
    <3>3. hasAll
      BY <1>4 DEF Stops
    <3>4. \A n \in Nodes : queue[n] = {}
      BY <1>1, <2>1, NothingWaits
    <3>5. \A n \in Nodes : ~Working(n)
      BY <3>2, <3>3, <3>4 DEF Processed
    <3> QED
      BY <1>1, <2>1, <2>2, <3>5
  <2> QED
    BY <2>3, <2>4
<1> QED
  BY <1>3, <1>4

(* Which steps give the job its status. *)
LEMMA StatusSteps ==
    ASSUME TypeOK, [Next]_vars, jobStatus' # jobStatus
    PROVE  \/ \E status \in {jobStatus, "FAILED"} : Leave(status)
           \/ \E n \in Nodes : ClientDC(n)
           \/ \E n \in Nodes : CompleteJob(n)
           \/ ReapJob
<1> USE DEF liveVars, taskVars, nodeVars, headVars
<1>1. ASSUME NEW n \in Nodes, TaskStep(n)
      PROVE  FALSE
  BY <1>1 DEF TaskStep, PopChunk, UploadAnswered, UploadRepeated, Enqueue,
              PollAnswered, PollAnswerLost, PollTimesOut, PollNotOnJob, Serve
<1>2. ASSUME NEW p \in late, LatePoll(p[1], p[2])
      PROVE  FALSE
  BY <1>2 DEF LatePoll, Serve
<1>3. ASSUME SetUploaded \/ Finish \/ ContactLost \/ Over \/ UNCHANGED vars
      PROVE  FALSE
  BY <1>3 DEF SetUploaded, Finish, ContactLost, Over, vars
<1>4. ASSUME NEW n \in Nodes, NEW c \in queue[n], RunInput(n, c)
      PROVE  FALSE
  BY <1>4 DEF RunInput
<1>5. ASSUME NEW n \in Nodes, Push(n) \/ LeaveEnded(n) \/ ClaimDrained(n) \/ NodeDies(n)
      PROVE  FALSE
  BY <1>5 DEF Push, LeaveEnded, ClaimDrained, NodeDies
<1>6. ASSUME BadResult \/ ClientRaises \/ ClientCancels \/ ClientDies
      PROVE  \E status \in {jobStatus, "FAILED"} : Leave(status)
  BY <1>6 DEF BadResult, ClientRaises, ClientCancels, ClientDies, HandleFailure
<1> QED
  BY <1>1, <1>2, <1>3, <1>4, <1>5, <1>6 DEF Next, ClientStep, NodeStep

(* A client that is still driving sees its job fail only when all nodes left it. *)
LEMMA FailedEarlyStep ==
    ASSUME TypeOK, Stops, FailedEarly, [Next]_vars
    PROVE  FailedEarly'
<1> SUFFICES ASSUME Driving', jobStatus' = "FAILED"
             PROVE  ~AllResults' /\ \A n \in Nodes : ~Working(n)'
  BY DEF FailedEarly
<1>1. ~\E status : Leave(status)
  BY DEF Leave, Driving
<1>2. ~Finish
  BY DEF Finish, Driving
<1>3. /\ \A n \in Nodes : Working(n)' => Working(n)
      /\ client' # client => Finish \/ \E status : Leave(status)
      /\ count' # count => (\E n \in Nodes : Working(n)) \/ \E status : Leave(status)
  BY Onward
<1>4. Driving
  BY <1>1, <1>2, <1>3 DEF Driving
<1>5. CASE jobStatus = "FAILED"
  <2>1. ~AllResults /\ \A n \in Nodes : ~Working(n)
    BY <1>4, <1>5 DEF FailedEarly
  <2>2. count' = count
    BY <1>1, <1>3, <2>1
  <2> QED
    BY <1>3, <2>1, <2>2 DEF AllResults
<1>6. CASE jobStatus # "FAILED"
  <2>1. \A n \in Nodes : ~ClientDC(n)
    BY <1>4 DEF ClientDC, Disconnected, Stops
  <2>2. \A n \in Nodes : ~CompleteJob(n)
    BY <1>6 DEF CompleteJob
  <2>3. ReapJob
    BY <1>1, <1>6, <2>1, <2>2, StatusSteps
  <2>4. (\A n \in Nodes : ~Working(n)) /\ ~AllResults
    BY <1>4, <2>3 DEF ReapJob
  <2>5. count' = count
    BY <1>1, <1>3, <2>4
  <2> QED
    BY <1>3, <2>4, <2>5 DEF AllResults
<1> QED
  BY <1>5, <1>6

(* A delivered job had all its inputs run. *)
LEMMA DeliveredRan ==
    ASSUME Acks, Stops, Returned, NoRepeat, hasAll
    PROVE  AllInputsRan
<1>1. \A i \in Inputs : \E c \in got : c[1] = i
  BY DEF Stops, Returned
<1> QED
  BY <1>1, GotRan

(* Every step keeps COMPLETED true of the inputs. *)
LEMMA CompletedStep ==
    ASSUME TypeOK, Calling, Acks, Counts, Stops, Returned, CompletedMeansRun,
           TypeOK', Counts', [Next]_vars
    PROVE  CompletedMeansRun'
<1> SUFFICES ASSUME NoRepeat', jobStatus' = "COMPLETED"
             PROVE  AllInputsRan'
  BY DEF CompletedMeansRun
<1>1. NoRepeat /\ \A n \in Nodes : ran[n] \subseteq ran'[n]
  BY Onward
<1>2. AllInputsRan => AllInputsRan'
  BY <1>1 DEF AllInputsRan
<1>3. CASE jobStatus = "COMPLETED"
  BY <1>1, <1>2, <1>3 DEF CompletedMeansRun
<1>4. hasAll => AllInputsRan
  BY <1>1, DeliveredRan
<1>5. ASSUME NEW n \in Nodes, CompleteJob(n)
      PROVE  AllInputsRan
  <2>1. ran' = ran
    BY <1>5 DEF CompleteJob, Forget, Emptied
  <2>2. CASE hasAll
    BY <1>4, <2>2
  <2>3. CASE AllRan(reported')
    <3>1. reported' \in [Nodes -> Nat]
      BY DEF TypeOK
    <3>2. \A m \in Nodes : reported'[m] <= Cardinality(ran[m])
      BY <2>1 DEF Counts
    <3>3. Total(reported') = Cardinality(Inputs)
      BY <2>3 DEF AllRan
    <3>4. Cardinality(Inputs) \in Nat
      BY InputsAssumption, FS_CardinalityType
    <3>5. Total(reported') >= Cardinality(Inputs)
      BY <3>3, <3>4
    <3> QED
      BY <1>1, <3>1, <3>2, <3>5, ReportedRan
  <2> QED
    BY <1>5, <2>2, <2>3 DEF CompleteJob
<1>6. ASSUME ReapJob
      PROVE  AllInputsRan
  <2>1. hasAll \/ Total(reported) >= Cardinality(Inputs)
    BY <1>6 DEF ReapJob
  <2>2. CASE Total(reported) >= Cardinality(Inputs)
    <3>1. reported \in [Nodes -> Nat]
      BY DEF TypeOK
    <3>2. \A n \in Nodes : reported[n] <= Cardinality(ran[n])
      BY DEF Counts
    <3> QED
      BY <1>1, <2>2, <3>1, <3>2, ReportedRan
  <2> QED
    BY <1>4, <2>1, <2>2
<1>7. CASE jobStatus # "COMPLETED"
  <2>1. \A n \in Nodes : ~ClientDC(n)
    BY DEF ClientDC
  <2>2. ~\E status \in {jobStatus, "FAILED"} : Leave(status)
    BY <1>7 DEF Leave
  <2>3. ReapJob \/ \E n \in Nodes : CompleteJob(n)
    BY <1>7, <2>1, <2>2, StatusSteps
  <2> QED
    BY <1>2, <1>5, <1>6, <2>3
<1> QED
  BY <1>3, <1>7

(* Every step keeps a returned call's job from failing. *)
LEMMA NoFailureStep ==
    ASSUME TypeOK, Stops, Returned, FailedEarly, NoFailureAfterDelivery, [Next]_vars
    PROVE  NoFailureAfterDelivery'
<1> SUFFICES ASSUME NoRepeat', client' = "finished", jobStatus' = "FAILED"
             PROVE  FALSE
  BY DEF NoFailureAfterDelivery
<1>1. NoRepeat /\ (client' # client => Finish \/ \E status : Leave(status))
  BY Onward
<1>2. ~\E status : Leave(status)
  BY DEF Leave
<1>3. CASE client' # client
  <2>1. Finish
    BY <1>1, <1>2, <1>3
  <2> QED
    BY <2>1 DEF Finish, Enough, FailedEarly, headVars
<1>4. CASE client' = client
  <2>1. jobStatus # "FAILED" /\ hasAll
    BY <1>1, <1>4 DEF NoFailureAfterDelivery, Stops
  <2>2. \A n \in Nodes : ~ClientDC(n)
    BY <1>1, <1>4 DEF ClientDC, Disconnected, Returned
  <2>3. \A n \in Nodes : ~CompleteJob(n)
    BY <2>1 DEF CompleteJob
  <2>4. ~ReapJob
    BY <2>1 DEF ReapJob
  <2> QED
    BY <1>2, <2>1, <2>2, <2>3, <2>4, StatusSteps
<1> QED
  BY <1>3, <1>4

-----------------------------------------------------------------------------
(* A job starts with its inputs on the lists of its client. *)
LEMMA InitInv ==
    ASSUME Init
    PROVE  IInv
<1>1. PICK at \in Splits : lists = [n \in Nodes |-> {i \in Inputs : at[i] = n}]
  BY DEF Init
<1>2. at \in [Inputs -> Nodes]
  BY SplitsAssumption
<1>3. TypeOK
  <2>1. 0 \in 0..MaxLosses /\ 0 \in 0..(MaxLosses + 1)
    BY MaxLossesAssumption
  <2>2. lists \in [Nodes -> SUBSET Inputs]
    BY <1>1
  <2>3. /\ uploads \in [Inputs -> 0..(MaxLosses + 1)]
        /\ losses \in 0..MaxLosses
    BY <2>1 DEF Init
  <2>4. /\ chunk \in [Nodes -> SUBSET Inputs] /\ toAck \in [Nodes -> SUBSET Calls]
        /\ queue \in [Nodes -> SUBSET Calls] /\ results \in [Nodes -> SUBSET Calls]
        /\ pending \in [Nodes -> SUBSET Calls] /\ ran \in [Nodes -> SUBSET Calls]
    BY DEF Init
  <2> QED
    BY <2>2, <2>3, <2>4 DEF Init, TypeOK
<1>4. Uploads
  BY <1>1 DEF Init, Uploads
<1>5. Calling
  BY DEF Init, Calling, Known
<1>6. Acks
  BY FS_EmptySet DEF Init, Acks
<1>7. Counts
  BY FS_EmptySet DEF Init, Counts
<1>8. Stops /\ Returned /\ FailedEarly
  BY DEF Init, Stops, Returned, FailedEarly, Driving
<1>9. NoResultLost
  <2> SUFFICES ASSUME NEW i \in Inputs PROVE InGoodHands(i)
    BY DEF NoResultLost
  <2>1. i \in lists[at[i]] /\ at[i] \in Nodes
    BY <1>1, <1>2
  <2> QED
    BY <2>1 DEF InGoodHands
<1>10. VerdictTrue
  BY DEF Init, VerdictTrue, CompletedMeansRun, NoFailureAfterDelivery
<1> QED
  BY <1>3, <1>4, <1>5, <1>6, <1>7, <1>8, <1>9, <1>10 DEF IInv

(* The inductive invariant: where calls, results and acknowledgements are. *)
THEOREM Invariance == Spec => []IInv
<1>1. ASSUME IInv, [Next]_vars
      PROVE  IInv'
  <2>1. /\ TypeOK /\ Uploads /\ Calling /\ Acks /\ Counts /\ Stops /\ Returned
        /\ FailedEarly /\ NoResultLost /\ CompletedMeansRun /\ NoFailureAfterDelivery
    BY <1>1 DEF IInv, VerdictTrue
  <2>2. TypeOK' /\ Uploads'
    BY <1>1, <2>1, TypeStep, UploadsStep
  <2>3. Calling' /\ Acks'
    BY <1>1, <2>1, CallingStep, AcksStep
  <2>4. Counts' /\ Stops'
    BY <1>1, <2>1, CountsStep, StopsStep
  <2>5. Returned' /\ FailedEarly'
    BY <1>1, <2>1, ReturnedStep, FailedEarlyStep
  <2>6. NoResultLost'
    BY <1>1, <2>1, HandsStep
  <2>7. CompletedMeansRun'
    BY <1>1, <2>1, <2>2, <2>4, CompletedStep
  <2>8. NoFailureAfterDelivery'
    BY <1>1, <2>1, NoFailureStep
  <2> QED
    BY <2>2, <2>3, <2>4, <2>5, <2>6, <2>7, <2>8 DEF IInv, VerdictTrue
<1> QED
  BY <1>1, InitInv, PTL DEF Spec

(* From the moment an input is read to the moment its result is returned it is in
   one place at least and counted once at most, whatever answers are lost and polls
   arrive late: the batch protocol of _gather_results and get_results. *)
THEOREM ResultsStayKept == Spec => []ResultsKept
<1>1. ASSUME IInv
      PROVE  ResultsKept
  <2>1. ASSUME NoRepeat
        PROVE  count = Cardinality({c[1] : c \in got})
    <3>1. got \subseteq Calls /\ Known(got)
      BY <1>1, GotKnown DEF IInv
    <3>2. Cardinality({c[1] : c \in got}) = Cardinality(got)
      BY <1>1, <2>1, <3>1, OneCallEach DEF IInv
    <3> QED
      BY <1>1, <3>2 DEF IInv, Acks
  <2> QED
    BY <1>1, <2>1 DEF IInv, ResultsKept, ResultsOnce
<1> QED
  BY <1>1, Invariance, PTL

(* COMPLETED means that every input ran, and a call that returned its results is no
   failed job, whoever ends the job: the client, a watcher or the reaper. *)
THEOREM VerdictStaysTrue == Spec => []VerdictTrue
<1>1. IInv => VerdictTrue
  BY DEF IInv
<1> QED
  BY <1>1, Invariance, PTL
=============================================================================
