-------------------------- MODULE InputStealProofs --------------------------
(* Proofs about InputSteal, for every set of nodes, inputs and transfer ids and
   every loss, delay and duplication of messages (LateGet included). *)
EXTENDS InputSteal, FiniteSetTheorems, TLAPS

(* The batch of t is the only copy of its inputs: the donor parks it, or the
   answer carries it, and the requester has not enqueued it. *)
Live(t) == ~received[t] /\ t \in parked \cup getResp

(* An input is in one queue, one worker or one live batch, and in none of them
   once it has a result. *)
SingleOwner ==
    /\ \A n, m \in Nodes : n # m => inputsQueue[n] \cap inputsQueue[m] = {}
    /\ \A n, m \in Nodes : n # m => running[n] \cap running[m] = {}
    /\ \A n, m \in Nodes : inputsQueue[n] \cap running[m] = {}
    /\ \A t \in Transfers, n \in Nodes :
           Live(t) => batch[t] \cap (inputsQueue[n] \cup running[n]) = {}
    /\ \A t, u \in Transfers : t # u /\ Live(t) /\ Live(u) => batch[t] \cap batch[u] = {}
    /\ \A i \in Inputs : produced[i] \in {0, 1}
    /\ \A i \in Inputs : produced[i] = 1 =>
           /\ \A n \in Nodes : i \notin inputsQueue[n] \cup running[n]
           /\ \A t \in Transfers : Live(t) => i \notin batch[t]

(* What the messages in flight say about a transfer. *)
Protocol ==
    /\ \A t \in Transfers : donor[t] = NoNode =>
           /\ t \notin parked \cup getReq \cup getResp \cup getDeny \cup ackReq \cup ackResp
           /\ \A n \in Nodes : activeSteal[n] # t
           /\ ~received[t]
    /\ \A n \in Nodes : phase[n] \in {"get", "ack"} => activeSteal[n] \in Transfers
    /\ \A n, m \in Nodes : n # m /\ activeSteal[n] \in Transfers
                              => activeSteal[n] # activeSteal[m]
    /\ \A n \in Nodes : phase[n] = "get" => ~received[activeSteal[n]]
    /\ getReq \cap getResp = {}
    /\ \A t \in getReq \cup getResp : ~received[t]

(* A node that is off the job holds nothing of it. *)
OffJobHoldsNothing ==
    \A n \in Nodes : ~Working(n) =>
        /\ inputsQueue[n] = {} /\ running[n] = {} /\ results[n] = {}
        /\ \A t \in parked : donor[t] # n

(* Every input has a place while the job runs. *)
Kept ==
    jobStatus = "RUNNING" =>
        \A i \in Inputs :
            \/ i \in delivered
            \/ \E n \in Nodes : i \in inputsQueue[n] \cup running[n] \cup results[n]
            \/ \E t \in parked : ~received[t] /\ i \in batch[t]

IInv == TypeOK /\ SingleOwner /\ Protocol /\ OffJobHoldsNothing /\ Kept
-----------------------------------------------------------------------------
(* The size of a queue is a natural number. *)
LEMMA QueueSize ==
    ASSUME TypeOK, NEW n \in Nodes
    PROVE  RemainingInputs(n) \in Nat
BY InputsAssumption, FS_Subset, FS_CardinalityType DEF TypeOK, RemainingInputs

(* Every step preserves the types. *)
LEMMA TypeStep ==
    ASSUME TypeOK, Protocol, [Next]_vars
    PROVE  TypeOK'
<1>1. ASSUME NEW n \in Nodes, NEW i \in Inputs, StartInput(n, i) PROVE TypeOK'
  BY <1>1 DEF StartInput, Working, TypeOK, jobVars, slotVars, stealVars, netVars
<1>2. ASSUME NEW n \in Nodes, NEW i \in Inputs, FinishInput(n, i) PROVE TypeOK'
    BY <1>2, MaxShocksAssumption DEF FinishInput, Working, TypeOK, jobVars, slotVars,
     stealVars, netVars
<1>3. ASSUME NEW n \in Nodes, NEW i \in Inputs, RequeueInput(n, i) PROVE TypeOK'
    BY <1>3, MaxShocksAssumption DEF RequeueInput, Working, TypeOK, jobVars, stealVars,
     netVars
<1>4. ASSUME NEW n \in Nodes, NEW i \in Inputs, LastWorkerDies(n, i) PROVE TypeOK'
    BY <1>4, MaxShocksAssumption DEF LastWorkerDies, Working, TypeOK, jobVars, stealVars,
     netVars
<1>5. ASSUME NEW n \in Nodes, LoseSlots(n) PROVE TypeOK'
  <2>1. hasWorkers' \in [Nodes -> BOOLEAN]
    BY <1>5 DEF LoseSlots, TypeOK
  <2>2. hasTarget' \in [Nodes -> BOOLEAN]
    BY <1>5 DEF LoseSlots, TypeOK
  <2>3. shocks' \in 0..MaxShocks
    BY <1>5, MaxShocksAssumption DEF LoseSlots, TypeOK
  <2> QED
    BY <1>5, <2>1, <2>2, <2>3 DEF LoseSlots, TypeOK, jobVars, nodeVars, stealVars, netVars
<1>6. ASSUME NEW n \in Nodes, ReaddWorker(n) PROVE TypeOK'
  BY <1>6 DEF ReaddWorker, Working, TypeOK, jobVars, nodeVars, stealVars, netVars
<1>7. ASSUME NEW n \in Nodes, ReclaimStranded(n) PROVE TypeOK'
  BY <1>7 DEF ReclaimStranded, Working, TypeOK, jobVars, nodeVars, stealVars, netVars
<1>8. ASSUME NEW n \in Nodes, GatherResults(n) PROVE TypeOK'
  BY <1>8 DEF GatherResults, Working, TypeOK, slotVars, stealVars, netVars
<1>9. ASSUME NEW n \in Nodes, NEW m \in Nodes, NEW t \in Transfers, BeginSteal(n, m, t)
     PROVE TypeOK'
  <2>1. PICK idle \in {FALSE, hasWorkers[n]} :
            ask' = [ask EXCEPT ![t] = [size |-> RemainingInputs(n), idle |-> idle]]
    BY <1>9 DEF BeginSteal
  <2>2. idle \in BOOLEAN
    BY <2>1 DEF TypeOK
  <2>3. ask' \in [Transfers -> [size : Nat, idle : BOOLEAN]]
    BY <2>1, <2>2, QueueSize DEF TypeOK
  <2> QED
    BY <1>9, <2>3 DEF BeginSteal, TypeOK, jobVars, nodeVars, slotVars
<1>10. ASSUME NEW n \in Nodes, ResendGet(n) PROVE TypeOK'
  BY <1>10 DEF ResendGet, TypeOK, jobVars, nodeVars, slotVars, stealVars, Protocol
<1>11. ASSUME NEW n \in Nodes, GetAnswered(n) PROVE TypeOK'
  BY <1>11 DEF GetAnswered, Working, TypeOK, jobVars, slotVars
<1>12. ASSUME NEW n \in Nodes, GetRefused(n) PROVE TypeOK'
  BY <1>12 DEF GetRefused, Working, TypeOK, jobVars, nodeVars, slotVars
<1>13. ASSUME NEW n \in Nodes, GetFails(n) PROVE TypeOK'
  BY <1>13 DEF GetFails, Working, TypeOK, jobVars, nodeVars, slotVars, Protocol
<1>14. ASSUME NEW n \in Nodes, ResendAck(n) PROVE TypeOK'
  BY <1>14 DEF ResendAck, Working, TypeOK, jobVars, nodeVars, slotVars, stealVars, Protocol
<1>15. ASSUME NEW n \in Nodes, AckAnswered(n) PROVE TypeOK'
  BY <1>15 DEF AckAnswered, Working, TypeOK, jobVars, nodeVars, slotVars
<1>16. ASSUME NEW n \in Nodes, AckPeerFinished(n) PROVE TypeOK'
  BY <1>16 DEF AckPeerFinished, Working, TypeOK, jobVars, nodeVars, slotVars, netVars
<1>17. ASSUME NEW n \in Nodes, AckGivesUp(n) PROVE TypeOK'
  BY <1>17 DEF AckGivesUp, Working, TypeOK, nodeVars, slotVars, netVars
<1>18. ASSUME NEW t \in Transfers, GetNotOnJob(t) PROVE TypeOK'
  BY <1>18 DEF GetNotOnJob, Waiting, Working, TypeOK, jobVars, nodeVars, slotVars, stealVars
<1>19. ASSUME NEW t \in Transfers, GetReplayed(t) PROVE TypeOK'
  BY <1>19 DEF GetReplayed, Waiting, Working, TypeOK, jobVars, nodeVars, slotVars, stealVars
<1>20. ASSUME NEW t \in Transfers, GetGranted(t) PROVE TypeOK'
  <2>1. donor[t] \in Nodes
    BY <1>20, NoNodeAssumption DEF GetGranted, Protocol, TypeOK
  <2>2. /\ inputsQueue' \in [Nodes -> SUBSET Inputs]
        /\ running' \in [Nodes -> SUBSET Inputs]
        /\ batch' \in [Transfers -> SUBSET Inputs]
    <3>1. PICK S \in QueueGrants(t) :
          \E R \in IF S = {} THEN RevokeGrants(t) ELSE {{}} :
              /\ inputsQueue' = [inputsQueue EXCEPT ![donor[t]] = @ \ S]
              /\ running' = [running EXCEPT ![donor[t]] = @ \ R]
              /\ batch' = [batch EXCEPT ![t] = S \cup R]
      BY <1>20 DEF GetGranted
    <3>2. PICK R \in IF S = {} THEN RevokeGrants(t) ELSE {{}} :
              /\ inputsQueue' = [inputsQueue EXCEPT ![donor[t]] = @ \ S]
              /\ running' = [running EXCEPT ![donor[t]] = @ \ R]
              /\ batch' = [batch EXCEPT ![t] = S \cup R]
      BY <3>1
    <3>3. S \subseteq inputsQueue[donor[t]] /\ R \subseteq running[donor[t]]
      BY <3>1, <3>2 DEF QueueGrants, RevokeGrants
    <3> QED
      BY <2>1, <3>2, <3>3 DEF TypeOK
  <2>3. hasWorkers' \in [Nodes -> BOOLEAN]
    BY <1>20 DEF GetGranted, TypeOK
  <2>4. ask' \in [Transfers -> [size : Nat, idle : BOOLEAN]]
    BY <1>20 DEF GetGranted, TypeOK, NoAsk
  <2> QED
    BY <1>20, <2>2, <2>3, <2>4 DEF GetGranted, TypeOK, jobVars, netVars
<1>21. ASSUME NEW t \in Transfers, AckTransfer(t) PROVE TypeOK'
  BY <1>21 DEF AckTransfer, Requeues, TypeOK, jobVars, slotVars, stealVars
<1>22. ASSUME NEW t \in Transfers, AckNotOnJob(t) PROVE TypeOK'
  BY <1>22 DEF AckNotOnJob, TypeOK, jobVars, nodeVars, slotVars, stealVars
<1>23. ASSUME NEW t \in Transfers, LoseMessage(t) PROVE TypeOK'
  BY <1>23 DEF LoseMessage, TypeOK, jobVars, nodeVars, slotVars, stealVars
<1>24. ASSUME NEW n \in Nodes, ClaimDrained(n) PROVE TypeOK'
    BY <1>24 DEF ClaimDrained, Drained, PendingTransfers, Working, TypeOK, jobVars,
     slotVars, netVars
<1>25. ASSUME NEW n \in Nodes, ResetAfterClaim(n) PROVE TypeOK'
  BY <1>25 DEF ResetAfterClaim, Forget, PendingTransfers, TypeOK, jobVars, slotVars, netVars
<1>26. ASSUME NEW n \in Nodes, CompleteJob(n) PROVE TypeOK'
    BY <1>26 DEF CompleteJob, AllInputsProcessed, Forget, PendingTransfers, Working,
     TypeOK, slotVars, netVars
<1>27. ASSUME NEW n \in Nodes, ClientDC(n) PROVE TypeOK'
    BY <1>27 DEF ClientDC, AllInputsProcessed, Forget, PendingTransfers, Working, TypeOK,
     slotVars, netVars
<1>28. ASSUME NEW n \in Nodes, LeaveFailedJob(n) PROVE TypeOK'
    BY <1>28 DEF LeaveFailedJob, Forget, PendingTransfers, Working, TypeOK, jobVars,
     slotVars, netVars
<1>29. ASSUME ReapJob PROVE TypeOK'
  BY <1>29 DEF ReapJob, TypeOK, nodeVars, slotVars, stealVars, netVars
<1>30. ASSUME UNCHANGED vars PROVE TypeOK'
  BY <1>30 DEF TypeOK, vars, jobVars, nodeVars, slotVars, stealVars, netVars
<1> QED
    BY <1>1, <1>2, <1>3, <1>4, <1>5, <1>6, <1>7, <1>8, <1>9, <1>10, <1>11, <1>12, <1>13,
     <1>14, <1>15, <1>16, <1>17, <1>18, <1>19, <1>20, <1>21, <1>22, <1>23, <1>24, <1>25,
     <1>26, <1>27, <1>28, <1>29, <1>30 DEF Next, WorkerStep, StealStep, DonorStep,
     LeaveStep, Over


(* Every step preserves the facts about messages in flight. *)
LEMMA ProtocolStep ==
    ASSUME TypeOK, Protocol, [Next]_vars
    PROVE  Protocol'
<1>1. ASSUME NEW n \in Nodes, NEW i \in Inputs, StartInput(n, i) PROVE Protocol'
    BY <1>1, NoTransferAssumption, NoNodeAssumption DEF StartInput, Working, TypeOK,
     Protocol, jobVars, slotVars, stealVars, netVars
<1>2. ASSUME NEW n \in Nodes, NEW i \in Inputs, FinishInput(n, i) PROVE Protocol'
    BY <1>2, NoTransferAssumption, NoNodeAssumption DEF FinishInput, Working, TypeOK,
     Protocol, jobVars, slotVars, stealVars, netVars
<1>3. ASSUME NEW n \in Nodes, NEW i \in Inputs, RequeueInput(n, i) PROVE Protocol'
    BY <1>3, NoTransferAssumption, NoNodeAssumption DEF RequeueInput, Working, TypeOK,
     Protocol, jobVars, stealVars, netVars
<1>4. ASSUME NEW n \in Nodes, NEW i \in Inputs, LastWorkerDies(n, i) PROVE Protocol'
    BY <1>4, NoTransferAssumption, NoNodeAssumption DEF LastWorkerDies, Working, TypeOK,
     Protocol, jobVars, stealVars, netVars
<1>5. ASSUME NEW n \in Nodes, LoseSlots(n) PROVE Protocol'
    BY <1>5, NoTransferAssumption, NoNodeAssumption DEF LoseSlots, Working, TypeOK,
     Protocol, jobVars, nodeVars, stealVars, netVars
<1>6. ASSUME NEW n \in Nodes, ReaddWorker(n) PROVE Protocol'
    BY <1>6, NoTransferAssumption, NoNodeAssumption DEF ReaddWorker, Working, TypeOK,
     Protocol, jobVars, nodeVars, stealVars, netVars
<1>7. ASSUME NEW n \in Nodes, ReclaimStranded(n) PROVE Protocol'
    BY <1>7, NoTransferAssumption, NoNodeAssumption DEF ReclaimStranded, Working, TypeOK,
     Protocol, jobVars, nodeVars, stealVars, netVars
<1>8. ASSUME NEW n \in Nodes, GatherResults(n) PROVE Protocol'
    BY <1>8, NoTransferAssumption, NoNodeAssumption DEF GatherResults, Working, TypeOK,
     Protocol, slotVars, stealVars, netVars
<1>9. ASSUME NEW n \in Nodes, NEW m \in Nodes, NEW t \in Transfers, BeginSteal(n, m, t)
     PROVE Protocol'
    BY <1>9, NoTransferAssumption, NoNodeAssumption DEF BeginSteal, RemainingInputs,
     Working, TypeOK, Protocol, jobVars, nodeVars, slotVars
<1>10. ASSUME NEW n \in Nodes, ResendGet(n) PROVE Protocol'
    BY <1>10, NoTransferAssumption, NoNodeAssumption DEF ResendGet, TypeOK, Protocol,
     jobVars, nodeVars, slotVars, stealVars
<1>11. ASSUME NEW n \in Nodes, GetAnswered(n) PROVE Protocol'
    BY <1>11, NoTransferAssumption, NoNodeAssumption DEF GetAnswered, Working, TypeOK,
     Protocol, jobVars, slotVars
<1>12. ASSUME NEW n \in Nodes, GetRefused(n) PROVE Protocol'
    BY <1>12, NoTransferAssumption, NoNodeAssumption DEF GetRefused, Working, TypeOK,
     Protocol, jobVars, nodeVars, slotVars
<1>13. ASSUME NEW n \in Nodes, GetFails(n) PROVE Protocol'
    BY <1>13, NoTransferAssumption, NoNodeAssumption DEF GetFails, Working, TypeOK,
     Protocol, jobVars, nodeVars, slotVars
<1>14. ASSUME NEW n \in Nodes, ResendAck(n) PROVE Protocol'
    BY <1>14, NoTransferAssumption, NoNodeAssumption DEF ResendAck, Working, TypeOK,
     Protocol, jobVars, nodeVars, slotVars, stealVars
<1>15. ASSUME NEW n \in Nodes, AckAnswered(n) PROVE Protocol'
    BY <1>15, NoTransferAssumption, NoNodeAssumption DEF AckAnswered, Working, TypeOK,
     Protocol, jobVars, nodeVars, slotVars
<1>16. ASSUME NEW n \in Nodes, AckPeerFinished(n) PROVE Protocol'
    BY <1>16, NoTransferAssumption, NoNodeAssumption DEF AckPeerFinished, Working, TypeOK,
     Protocol, jobVars, nodeVars, slotVars, netVars
<1>17. ASSUME NEW n \in Nodes, AckGivesUp(n) PROVE Protocol'
    BY <1>17, NoTransferAssumption, NoNodeAssumption DEF AckGivesUp, Working, TypeOK,
     Protocol, nodeVars, slotVars, netVars
<1>18. ASSUME NEW t \in Transfers, GetNotOnJob(t) PROVE Protocol'
    BY <1>18, NoTransferAssumption, NoNodeAssumption DEF GetNotOnJob, Waiting, Working,
     TypeOK, Protocol, jobVars, nodeVars, slotVars, stealVars
<1>19. ASSUME NEW t \in Transfers, GetReplayed(t) PROVE Protocol'
    BY <1>19, NoTransferAssumption, NoNodeAssumption DEF GetReplayed, Waiting, Working,
     TypeOK, Protocol, jobVars, nodeVars, slotVars, stealVars
<1>20. ASSUME NEW t \in Transfers, GetGranted(t) PROVE Protocol'
    BY <1>20, NoTransferAssumption, NoNodeAssumption DEF GetGranted, NoAsk, QueueGrants,
     RevokeGrants, Waiting, Working, TypeOK, Protocol, jobVars
<1>21. ASSUME NEW t \in Transfers, AckTransfer(t) PROVE Protocol'
    BY <1>21, NoTransferAssumption, NoNodeAssumption DEF AckTransfer, Requeues, TypeOK,
     Protocol, jobVars, slotVars, stealVars
<1>22. ASSUME NEW t \in Transfers, AckNotOnJob(t) PROVE Protocol'
    BY <1>22, NoTransferAssumption, NoNodeAssumption DEF AckNotOnJob, TypeOK, Protocol,
     jobVars, nodeVars, slotVars, stealVars
<1>23. ASSUME NEW t \in Transfers, LoseMessage(t) PROVE Protocol'
    BY <1>23, NoTransferAssumption, NoNodeAssumption DEF LoseMessage, TypeOK, Protocol,
     jobVars, nodeVars, slotVars, stealVars
<1>24. ASSUME NEW n \in Nodes, ClaimDrained(n) PROVE Protocol'
    BY <1>24, NoTransferAssumption, NoNodeAssumption DEF ClaimDrained, Drained,
     PendingTransfers, Working, TypeOK, Protocol, jobVars, slotVars, netVars
<1>25. ASSUME NEW n \in Nodes, ResetAfterClaim(n) PROVE Protocol'
    BY <1>25, NoTransferAssumption, NoNodeAssumption DEF ResetAfterClaim, Forget,
     PendingTransfers, TypeOK, Protocol, jobVars, slotVars, netVars
<1>26. ASSUME NEW n \in Nodes, CompleteJob(n) PROVE Protocol'
    BY <1>26, NoTransferAssumption, NoNodeAssumption DEF CompleteJob, AllInputsProcessed,
     Forget, PendingTransfers, Working, TypeOK, Protocol, slotVars, netVars
<1>27. ASSUME NEW n \in Nodes, ClientDC(n) PROVE Protocol'
    BY <1>27, NoTransferAssumption, NoNodeAssumption DEF ClientDC, AllInputsProcessed,
     Forget, PendingTransfers, Working, TypeOK, Protocol, slotVars, netVars
<1>28. ASSUME NEW n \in Nodes, LeaveFailedJob(n) PROVE Protocol'
    BY <1>28, NoTransferAssumption, NoNodeAssumption DEF LeaveFailedJob, Forget,
     PendingTransfers, Working, TypeOK, Protocol, jobVars, slotVars, netVars
<1>29. ASSUME ReapJob PROVE Protocol'
    BY <1>29, NoTransferAssumption, NoNodeAssumption DEF ReapJob, TypeOK, Protocol,
     nodeVars, slotVars, stealVars, netVars
<1>30. ASSUME UNCHANGED vars PROVE Protocol'
  BY <1>30 DEF TypeOK, Protocol, vars, jobVars, nodeVars, slotVars, stealVars, netVars
<1> QED
    BY <1>1, <1>2, <1>3, <1>4, <1>5, <1>6, <1>7, <1>8, <1>9, <1>10, <1>11, <1>12, <1>13,
     <1>14, <1>15, <1>16, <1>17, <1>18, <1>19, <1>20, <1>21, <1>22, <1>23, <1>24, <1>25,
     <1>26, <1>27, <1>28, <1>29, <1>30 DEF Next, WorkerStep, StealStep, DonorStep,
     LeaveStep, Over

(* A node that is off the job never gets anything again. *)
LEMMA OffJobStep ==
    ASSUME TypeOK, Protocol, OffJobHoldsNothing, [Next]_vars
    PROVE  OffJobHoldsNothing'
<1>1. ASSUME NEW n \in Nodes, NEW i \in Inputs, StartInput(n, i) PROVE OffJobHoldsNothing'
    BY <1>1, NoTransferAssumption, NoNodeAssumption DEF StartInput, Working, TypeOK,
     Protocol, OffJobHoldsNothing, jobVars, slotVars, stealVars, netVars
<1>2. ASSUME NEW n \in Nodes, NEW i \in Inputs, FinishInput(n, i) PROVE OffJobHoldsNothing'
    BY <1>2, NoTransferAssumption, NoNodeAssumption DEF FinishInput, Working, TypeOK,
     Protocol, OffJobHoldsNothing, jobVars, slotVars, stealVars, netVars
<1>3. ASSUME NEW n \in Nodes, NEW i \in Inputs, RequeueInput(n, i) PROVE OffJobHoldsNothing'
    BY <1>3, NoTransferAssumption, NoNodeAssumption DEF RequeueInput, Working, TypeOK,
     Protocol, OffJobHoldsNothing, jobVars, stealVars, netVars
<1>4. ASSUME NEW n \in Nodes, NEW i \in Inputs, LastWorkerDies(n, i)
     PROVE OffJobHoldsNothing'
    BY <1>4, NoTransferAssumption, NoNodeAssumption DEF LastWorkerDies, Working, TypeOK,
     Protocol, OffJobHoldsNothing, jobVars, stealVars, netVars
<1>5. ASSUME NEW n \in Nodes, LoseSlots(n) PROVE OffJobHoldsNothing'
    BY <1>5, NoTransferAssumption, NoNodeAssumption DEF LoseSlots, Working, TypeOK,
     Protocol, OffJobHoldsNothing, jobVars, nodeVars, stealVars, netVars
<1>6. ASSUME NEW n \in Nodes, ReaddWorker(n) PROVE OffJobHoldsNothing'
    BY <1>6, NoTransferAssumption, NoNodeAssumption DEF ReaddWorker, Working, TypeOK,
     Protocol, OffJobHoldsNothing, jobVars, nodeVars, stealVars, netVars
<1>7. ASSUME NEW n \in Nodes, ReclaimStranded(n) PROVE OffJobHoldsNothing'
    BY <1>7, NoTransferAssumption, NoNodeAssumption DEF ReclaimStranded, Working, TypeOK,
     Protocol, OffJobHoldsNothing, jobVars, nodeVars, stealVars, netVars
<1>8. ASSUME NEW n \in Nodes, GatherResults(n) PROVE OffJobHoldsNothing'
    BY <1>8, NoTransferAssumption, NoNodeAssumption DEF GatherResults, Working, TypeOK,
     Protocol, OffJobHoldsNothing, slotVars, stealVars, netVars
<1>9. ASSUME NEW n \in Nodes, NEW m \in Nodes, NEW t \in Transfers, BeginSteal(n, m, t)
     PROVE OffJobHoldsNothing'
    BY <1>9, NoTransferAssumption, NoNodeAssumption DEF BeginSteal, RemainingInputs,
     Working, TypeOK, Protocol, OffJobHoldsNothing, jobVars, nodeVars, slotVars
<1>10. ASSUME NEW n \in Nodes, ResendGet(n) PROVE OffJobHoldsNothing'
    BY <1>10, NoTransferAssumption, NoNodeAssumption DEF ResendGet, TypeOK, Protocol,
     OffJobHoldsNothing, Working, jobVars, nodeVars, slotVars, stealVars
<1>11. ASSUME NEW n \in Nodes, GetAnswered(n) PROVE OffJobHoldsNothing'
    BY <1>11, NoTransferAssumption, NoNodeAssumption DEF GetAnswered, Working, TypeOK,
     Protocol, OffJobHoldsNothing, jobVars, slotVars
<1>12. ASSUME NEW n \in Nodes, GetRefused(n) PROVE OffJobHoldsNothing'
    BY <1>12, NoTransferAssumption, NoNodeAssumption DEF GetRefused, Working, TypeOK,
     Protocol, OffJobHoldsNothing, jobVars, nodeVars, slotVars
<1>13. ASSUME NEW n \in Nodes, GetFails(n) PROVE OffJobHoldsNothing'
    BY <1>13, NoTransferAssumption, NoNodeAssumption DEF GetFails, Working, TypeOK,
     Protocol, OffJobHoldsNothing, jobVars, nodeVars, slotVars
<1>14. ASSUME NEW n \in Nodes, ResendAck(n) PROVE OffJobHoldsNothing'
    BY <1>14, NoTransferAssumption, NoNodeAssumption DEF ResendAck, Working, TypeOK,
     Protocol, OffJobHoldsNothing, jobVars, nodeVars, slotVars, stealVars
<1>15. ASSUME NEW n \in Nodes, AckAnswered(n) PROVE OffJobHoldsNothing'
    BY <1>15, NoTransferAssumption, NoNodeAssumption DEF AckAnswered, Working, TypeOK,
     Protocol, OffJobHoldsNothing, jobVars, nodeVars, slotVars
<1>16. ASSUME NEW n \in Nodes, AckPeerFinished(n) PROVE OffJobHoldsNothing'
    BY <1>16, NoTransferAssumption, NoNodeAssumption DEF AckPeerFinished, Working, TypeOK,
     Protocol, OffJobHoldsNothing, jobVars, nodeVars, slotVars, netVars
<1>17. ASSUME NEW n \in Nodes, AckGivesUp(n) PROVE OffJobHoldsNothing'
    BY <1>17, NoTransferAssumption, NoNodeAssumption DEF AckGivesUp, Working, TypeOK,
     Protocol, OffJobHoldsNothing, nodeVars, slotVars, netVars
<1>18. ASSUME NEW t \in Transfers, GetNotOnJob(t) PROVE OffJobHoldsNothing'
    BY <1>18, NoTransferAssumption, NoNodeAssumption DEF GetNotOnJob, Waiting, Working,
     TypeOK, Protocol, OffJobHoldsNothing, jobVars, nodeVars, slotVars, stealVars
<1>19. ASSUME NEW t \in Transfers, GetReplayed(t) PROVE OffJobHoldsNothing'
    BY <1>19, NoTransferAssumption, NoNodeAssumption DEF GetReplayed, Waiting, Working,
     TypeOK, Protocol, OffJobHoldsNothing, jobVars, nodeVars, slotVars, stealVars
<1>20. ASSUME NEW t \in Transfers, GetGranted(t) PROVE OffJobHoldsNothing'
    BY <1>20, NoTransferAssumption, NoNodeAssumption DEF GetGranted, NoAsk, QueueGrants,
     RevokeGrants, Waiting, Working, TypeOK, Protocol, OffJobHoldsNothing, jobVars
<1>21. ASSUME NEW t \in Transfers, AckTransfer(t) PROVE OffJobHoldsNothing'
    BY <1>21, NoTransferAssumption, NoNodeAssumption DEF AckTransfer, Requeues, TypeOK,
     Protocol, OffJobHoldsNothing, Working, jobVars, slotVars, stealVars
<1>22. ASSUME NEW t \in Transfers, AckNotOnJob(t) PROVE OffJobHoldsNothing'
    BY <1>22, NoTransferAssumption, NoNodeAssumption DEF AckNotOnJob, TypeOK, Protocol,
     OffJobHoldsNothing, Working, jobVars, nodeVars, slotVars, stealVars
<1>23. ASSUME NEW t \in Transfers, LoseMessage(t) PROVE OffJobHoldsNothing'
    BY <1>23, NoTransferAssumption, NoNodeAssumption DEF LoseMessage, TypeOK, Protocol,
     OffJobHoldsNothing, Working, jobVars, nodeVars, slotVars, stealVars
<1>24. ASSUME NEW n \in Nodes, ClaimDrained(n) PROVE OffJobHoldsNothing'
    BY <1>24, NoTransferAssumption, NoNodeAssumption DEF ClaimDrained, Drained,
     PendingTransfers, Working, TypeOK, Protocol, OffJobHoldsNothing, jobVars, slotVars,
     netVars
<1>25. ASSUME NEW n \in Nodes, ResetAfterClaim(n) PROVE OffJobHoldsNothing'
    BY <1>25, NoTransferAssumption, NoNodeAssumption DEF ResetAfterClaim, Forget,
     PendingTransfers, TypeOK, Protocol, OffJobHoldsNothing, Working, jobVars, slotVars,
     netVars
<1>26. ASSUME NEW n \in Nodes, CompleteJob(n) PROVE OffJobHoldsNothing'
    BY <1>26, NoTransferAssumption, NoNodeAssumption DEF CompleteJob, AllInputsProcessed,
     Forget, PendingTransfers, Working, TypeOK, Protocol, OffJobHoldsNothing, slotVars,
     netVars
<1>27. ASSUME NEW n \in Nodes, ClientDC(n) PROVE OffJobHoldsNothing'
    BY <1>27, NoTransferAssumption, NoNodeAssumption DEF ClientDC, AllInputsProcessed,
     Forget, PendingTransfers, Working, TypeOK, Protocol, OffJobHoldsNothing, slotVars,
     netVars
<1>28. ASSUME NEW n \in Nodes, LeaveFailedJob(n) PROVE OffJobHoldsNothing'
    BY <1>28, NoTransferAssumption, NoNodeAssumption DEF LeaveFailedJob, Forget,
     PendingTransfers, Working, TypeOK, Protocol, OffJobHoldsNothing, jobVars, slotVars,
     netVars
<1>29. ASSUME ReapJob PROVE OffJobHoldsNothing'
    BY <1>29, NoTransferAssumption, NoNodeAssumption DEF ReapJob, TypeOK, Protocol,
     OffJobHoldsNothing, Working, nodeVars, slotVars, stealVars, netVars
<1>30. ASSUME UNCHANGED vars PROVE OffJobHoldsNothing'
    BY <1>30 DEF TypeOK, Protocol, OffJobHoldsNothing, Working, vars, jobVars, nodeVars,
     slotVars, stealVars, netVars
<1> QED
    BY <1>1, <1>2, <1>3, <1>4, <1>5, <1>6, <1>7, <1>8, <1>9, <1>10, <1>11, <1>12, <1>13,
     <1>14, <1>15, <1>16, <1>17, <1>18, <1>19, <1>20, <1>21, <1>22, <1>23, <1>24, <1>25,
     <1>26, <1>27, <1>28, <1>29, <1>30 DEF Next, WorkerStep, StealStep, DonorStep,
     LeaveStep, Over


(* No step gives an input a second owner. *)
LEMMA SingleOwnerStep ==
    ASSUME TypeOK, Protocol, OffJobHoldsNothing, SingleOwner, [Next]_vars
    PROVE  SingleOwner'
<1>1. ASSUME NEW n \in Nodes, NEW i \in Inputs, StartInput(n, i) PROVE SingleOwner'
    BY <1>1, NoTransferAssumption, NoNodeAssumption DEF StartInput, Working, TypeOK,
     Protocol, OffJobHoldsNothing, SingleOwner, Live, jobVars, slotVars, stealVars,
     netVars
<1>2. ASSUME NEW n \in Nodes, NEW i \in Inputs, FinishInput(n, i) PROVE SingleOwner'
    BY <1>2, NoTransferAssumption, NoNodeAssumption DEF FinishInput, Working, TypeOK,
     Protocol, OffJobHoldsNothing, SingleOwner, Live, jobVars, slotVars, stealVars,
     netVars
<1>3. ASSUME NEW n \in Nodes, NEW i \in Inputs, RequeueInput(n, i) PROVE SingleOwner'
    BY <1>3, NoTransferAssumption, NoNodeAssumption DEF RequeueInput, Working, TypeOK,
     Protocol, OffJobHoldsNothing, SingleOwner, Live, jobVars, stealVars, netVars
<1>4. ASSUME NEW n \in Nodes, NEW i \in Inputs, LastWorkerDies(n, i) PROVE SingleOwner'
    BY <1>4, NoTransferAssumption, NoNodeAssumption DEF LastWorkerDies, Working, TypeOK,
     Protocol, OffJobHoldsNothing, SingleOwner, Live, jobVars, stealVars, netVars
<1>5. ASSUME NEW n \in Nodes, LoseSlots(n) PROVE SingleOwner'
    BY <1>5, NoTransferAssumption, NoNodeAssumption DEF LoseSlots, Working, TypeOK,
     Protocol, OffJobHoldsNothing, SingleOwner, Live, jobVars, nodeVars, stealVars,
     netVars
<1>6. ASSUME NEW n \in Nodes, ReaddWorker(n) PROVE SingleOwner'
    BY <1>6, NoTransferAssumption, NoNodeAssumption DEF ReaddWorker, Working, TypeOK,
     Protocol, OffJobHoldsNothing, SingleOwner, Live, jobVars, nodeVars, stealVars,
     netVars
<1>7. ASSUME NEW n \in Nodes, ReclaimStranded(n) PROVE SingleOwner'
    BY <1>7, NoTransferAssumption, NoNodeAssumption DEF ReclaimStranded, Working, TypeOK,
     Protocol, OffJobHoldsNothing, SingleOwner, Live, jobVars, nodeVars, stealVars,
     netVars
<1>8. ASSUME NEW n \in Nodes, GatherResults(n) PROVE SingleOwner'
    BY <1>8, NoTransferAssumption, NoNodeAssumption DEF GatherResults, Working, TypeOK,
     Protocol, OffJobHoldsNothing, SingleOwner, Live, slotVars, stealVars, netVars
<1>9. ASSUME NEW n \in Nodes, NEW m \in Nodes, NEW t \in Transfers, BeginSteal(n, m, t)
     PROVE SingleOwner'
    BY <1>9, NoTransferAssumption, NoNodeAssumption DEF BeginSteal, RemainingInputs,
     Working, TypeOK, Protocol, OffJobHoldsNothing, SingleOwner, Live, jobVars, nodeVars,
     slotVars
<1>10. ASSUME NEW n \in Nodes, ResendGet(n) PROVE SingleOwner'
    BY <1>10, NoTransferAssumption, NoNodeAssumption DEF ResendGet, TypeOK, Protocol,
     OffJobHoldsNothing, SingleOwner, Live, Working, jobVars, nodeVars, slotVars,
     stealVars
<1>11. ASSUME NEW n \in Nodes, GetAnswered(n) PROVE SingleOwner'
    BY <1>11, NoTransferAssumption, NoNodeAssumption DEF GetAnswered, Working, TypeOK,
     Protocol, OffJobHoldsNothing, SingleOwner, Live, jobVars, slotVars
<1>12. ASSUME NEW n \in Nodes, GetRefused(n) PROVE SingleOwner'
    BY <1>12, NoTransferAssumption, NoNodeAssumption DEF GetRefused, Working, TypeOK,
     Protocol, OffJobHoldsNothing, SingleOwner, Live, jobVars, nodeVars, slotVars
<1>13. ASSUME NEW n \in Nodes, GetFails(n) PROVE SingleOwner'
    BY <1>13, NoTransferAssumption, NoNodeAssumption DEF GetFails, Working, TypeOK,
     Protocol, OffJobHoldsNothing, SingleOwner, Live, jobVars, nodeVars, slotVars
<1>14. ASSUME NEW n \in Nodes, ResendAck(n) PROVE SingleOwner'
    BY <1>14, NoTransferAssumption, NoNodeAssumption DEF ResendAck, Working, TypeOK,
     Protocol, OffJobHoldsNothing, SingleOwner, Live, jobVars, nodeVars, slotVars,
     stealVars
<1>15. ASSUME NEW n \in Nodes, AckAnswered(n) PROVE SingleOwner'
    BY <1>15, NoTransferAssumption, NoNodeAssumption DEF AckAnswered, Working, TypeOK,
     Protocol, OffJobHoldsNothing, SingleOwner, Live, jobVars, nodeVars, slotVars
<1>16. ASSUME NEW n \in Nodes, AckPeerFinished(n) PROVE SingleOwner'
    BY <1>16, NoTransferAssumption, NoNodeAssumption DEF AckPeerFinished, Working, TypeOK,
     Protocol, OffJobHoldsNothing, SingleOwner, Live, jobVars, nodeVars, slotVars, netVars
<1>17. ASSUME NEW n \in Nodes, AckGivesUp(n) PROVE SingleOwner'
    BY <1>17, NoTransferAssumption, NoNodeAssumption DEF AckGivesUp, Working, TypeOK,
     Protocol, OffJobHoldsNothing, SingleOwner, Live, nodeVars, slotVars, netVars
<1>18. ASSUME NEW t \in Transfers, GetNotOnJob(t) PROVE SingleOwner'
    BY <1>18, NoTransferAssumption, NoNodeAssumption DEF GetNotOnJob, Waiting, Working,
     TypeOK, Protocol, OffJobHoldsNothing, SingleOwner, Live, jobVars, nodeVars, slotVars,
     stealVars
<1>19. ASSUME NEW t \in Transfers, GetReplayed(t) PROVE SingleOwner'
    BY <1>19, NoTransferAssumption, NoNodeAssumption DEF GetReplayed, Waiting, Working,
     TypeOK, Protocol, OffJobHoldsNothing, SingleOwner, Live, jobVars, nodeVars, slotVars,
     stealVars
<1>20. ASSUME NEW t \in Transfers, GetGranted(t) PROVE SingleOwner'
    BY <1>20, NoTransferAssumption, NoNodeAssumption DEF GetGranted, NoAsk, QueueGrants,
     RevokeGrants, Waiting, Working, TypeOK, Protocol, OffJobHoldsNothing, SingleOwner,
     Live, jobVars
<1>21. ASSUME NEW t \in Transfers, AckTransfer(t) PROVE SingleOwner'
    BY <1>21, NoTransferAssumption, NoNodeAssumption DEF AckTransfer, Requeues, TypeOK,
     Protocol, OffJobHoldsNothing, SingleOwner, Live, Working, jobVars, slotVars,
     stealVars
<1>22. ASSUME NEW t \in Transfers, AckNotOnJob(t) PROVE SingleOwner'
    BY <1>22, NoTransferAssumption, NoNodeAssumption DEF AckNotOnJob, TypeOK, Protocol,
     OffJobHoldsNothing, SingleOwner, Live, Working, jobVars, nodeVars, slotVars,
     stealVars
<1>23. ASSUME NEW t \in Transfers, LoseMessage(t) PROVE SingleOwner'
    BY <1>23, NoTransferAssumption, NoNodeAssumption DEF LoseMessage, TypeOK, Protocol,
     OffJobHoldsNothing, SingleOwner, Live, Working, jobVars, nodeVars, slotVars,
     stealVars
<1>24. ASSUME NEW n \in Nodes, ClaimDrained(n) PROVE SingleOwner'
    BY <1>24, NoTransferAssumption, NoNodeAssumption DEF ClaimDrained, Drained,
     PendingTransfers, Working, TypeOK, Protocol, OffJobHoldsNothing, SingleOwner, Live,
     jobVars, slotVars, netVars
<1>25. ASSUME NEW n \in Nodes, ResetAfterClaim(n) PROVE SingleOwner'
    BY <1>25, NoTransferAssumption, NoNodeAssumption DEF ResetAfterClaim, Forget,
     PendingTransfers, TypeOK, Protocol, OffJobHoldsNothing, SingleOwner, Live, Working,
     jobVars, slotVars, netVars
<1>26. ASSUME NEW n \in Nodes, CompleteJob(n) PROVE SingleOwner'
    BY <1>26, NoTransferAssumption, NoNodeAssumption DEF CompleteJob, AllInputsProcessed,
     Forget, PendingTransfers, Working, TypeOK, Protocol, OffJobHoldsNothing, SingleOwner,
     Live, slotVars, netVars
<1>27. ASSUME NEW n \in Nodes, ClientDC(n) PROVE SingleOwner'
    BY <1>27, NoTransferAssumption, NoNodeAssumption DEF ClientDC, AllInputsProcessed,
     Forget, PendingTransfers, Working, TypeOK, Protocol, OffJobHoldsNothing, SingleOwner,
     Live, slotVars, netVars
<1>28. ASSUME NEW n \in Nodes, LeaveFailedJob(n) PROVE SingleOwner'
    BY <1>28, NoTransferAssumption, NoNodeAssumption DEF LeaveFailedJob, Forget,
     PendingTransfers, Working, TypeOK, Protocol, OffJobHoldsNothing, SingleOwner, Live,
     jobVars, slotVars, netVars
<1>29. ASSUME ReapJob PROVE SingleOwner'
    BY <1>29, NoTransferAssumption, NoNodeAssumption DEF ReapJob, TypeOK, Protocol,
     OffJobHoldsNothing, SingleOwner, Live, Working, nodeVars, slotVars, stealVars,
     netVars
<1>30. ASSUME UNCHANGED vars PROVE SingleOwner'
    BY <1>30 DEF TypeOK, Protocol, OffJobHoldsNothing, SingleOwner, Live, Working, vars,
     jobVars, nodeVars, slotVars, stealVars, netVars
<1> QED
    BY <1>1, <1>2, <1>3, <1>4, <1>5, <1>6, <1>7, <1>8, <1>9, <1>10, <1>11, <1>12, <1>13,
     <1>14, <1>15, <1>16, <1>17, <1>18, <1>19, <1>20, <1>21, <1>22, <1>23, <1>24, <1>25,
     <1>26, <1>27, <1>28, <1>29, <1>30 DEF Next, WorkerStep, StealStep, DonorStep,
     LeaveStep, Over

(* No step drops an input of a running job. *)
LEMMA KeptStep ==
    ASSUME TypeOK, Protocol, OffJobHoldsNothing, Kept, [Next]_vars
    PROVE  Kept'
<1>1. ASSUME NEW n \in Nodes, NEW i \in Inputs, StartInput(n, i) PROVE Kept'
    BY <1>1, NoTransferAssumption, NoNodeAssumption DEF StartInput, Working, TypeOK,
     Protocol, OffJobHoldsNothing, Kept, jobVars, slotVars, stealVars, netVars
<1>2. ASSUME NEW n \in Nodes, NEW i \in Inputs, FinishInput(n, i) PROVE Kept'
    BY <1>2, NoTransferAssumption, NoNodeAssumption DEF FinishInput, Working, TypeOK,
     Protocol, OffJobHoldsNothing, Kept, jobVars, slotVars, stealVars, netVars
<1>3. ASSUME NEW n \in Nodes, NEW i \in Inputs, RequeueInput(n, i) PROVE Kept'
    BY <1>3, NoTransferAssumption, NoNodeAssumption DEF RequeueInput, Working, TypeOK,
     Protocol, OffJobHoldsNothing, Kept, jobVars, stealVars, netVars
<1>4. ASSUME NEW n \in Nodes, NEW i \in Inputs, LastWorkerDies(n, i) PROVE Kept'
    BY <1>4, NoTransferAssumption, NoNodeAssumption DEF LastWorkerDies, Working, TypeOK,
     Protocol, OffJobHoldsNothing, Kept, jobVars, stealVars, netVars
<1>5. ASSUME NEW n \in Nodes, LoseSlots(n) PROVE Kept'
    BY <1>5, NoTransferAssumption, NoNodeAssumption DEF LoseSlots, Working, TypeOK,
     Protocol, OffJobHoldsNothing, Kept, jobVars, nodeVars, stealVars, netVars
<1>6. ASSUME NEW n \in Nodes, ReaddWorker(n) PROVE Kept'
    BY <1>6, NoTransferAssumption, NoNodeAssumption DEF ReaddWorker, Working, TypeOK,
     Protocol, OffJobHoldsNothing, Kept, jobVars, nodeVars, stealVars, netVars
<1>7. ASSUME NEW n \in Nodes, ReclaimStranded(n) PROVE Kept'
    BY <1>7, NoTransferAssumption, NoNodeAssumption DEF ReclaimStranded, Working, TypeOK,
     Protocol, OffJobHoldsNothing, Kept, jobVars, nodeVars, stealVars, netVars
<1>8. ASSUME NEW n \in Nodes, GatherResults(n) PROVE Kept'
    BY <1>8, NoTransferAssumption, NoNodeAssumption DEF GatherResults, Working, TypeOK,
     Protocol, OffJobHoldsNothing, Kept, slotVars, stealVars, netVars
<1>9. ASSUME NEW n \in Nodes, NEW m \in Nodes, NEW t \in Transfers, BeginSteal(n, m, t)
     PROVE Kept'
    BY <1>9, NoTransferAssumption, NoNodeAssumption DEF BeginSteal, RemainingInputs,
     Working, TypeOK, Protocol, OffJobHoldsNothing, Kept, jobVars, nodeVars, slotVars
<1>10. ASSUME NEW n \in Nodes, ResendGet(n) PROVE Kept'
    BY <1>10, NoTransferAssumption, NoNodeAssumption DEF ResendGet, TypeOK, Protocol,
     OffJobHoldsNothing, Kept, Working, jobVars, nodeVars, slotVars, stealVars
<1>11. ASSUME NEW n \in Nodes, GetAnswered(n) PROVE Kept'
    BY <1>11, NoTransferAssumption, NoNodeAssumption DEF GetAnswered, Working, TypeOK,
     Protocol, OffJobHoldsNothing, Kept, jobVars, slotVars
<1>12. ASSUME NEW n \in Nodes, GetRefused(n) PROVE Kept'
    BY <1>12, NoTransferAssumption, NoNodeAssumption DEF GetRefused, Working, TypeOK,
     Protocol, OffJobHoldsNothing, Kept, jobVars, nodeVars, slotVars
<1>13. ASSUME NEW n \in Nodes, GetFails(n) PROVE Kept'
    BY <1>13, NoTransferAssumption, NoNodeAssumption DEF GetFails, Working, TypeOK,
     Protocol, OffJobHoldsNothing, Kept, jobVars, nodeVars, slotVars
<1>14. ASSUME NEW n \in Nodes, ResendAck(n) PROVE Kept'
    BY <1>14, NoTransferAssumption, NoNodeAssumption DEF ResendAck, Working, TypeOK,
     Protocol, OffJobHoldsNothing, Kept, jobVars, nodeVars, slotVars, stealVars
<1>15. ASSUME NEW n \in Nodes, AckAnswered(n) PROVE Kept'
    BY <1>15, NoTransferAssumption, NoNodeAssumption DEF AckAnswered, Working, TypeOK,
     Protocol, OffJobHoldsNothing, Kept, jobVars, nodeVars, slotVars
<1>16. ASSUME NEW n \in Nodes, AckPeerFinished(n) PROVE Kept'
    BY <1>16, NoTransferAssumption, NoNodeAssumption DEF AckPeerFinished, Working, TypeOK,
     Protocol, OffJobHoldsNothing, Kept, jobVars, nodeVars, slotVars, netVars
<1>17. ASSUME NEW n \in Nodes, AckGivesUp(n) PROVE Kept'
    BY <1>17, NoTransferAssumption, NoNodeAssumption DEF AckGivesUp, Working, TypeOK,
     Protocol, OffJobHoldsNothing, Kept, nodeVars, slotVars, netVars
<1>18. ASSUME NEW t \in Transfers, GetNotOnJob(t) PROVE Kept'
    BY <1>18, NoTransferAssumption, NoNodeAssumption DEF GetNotOnJob, Waiting, Working,
     TypeOK, Protocol, OffJobHoldsNothing, Kept, jobVars, nodeVars, slotVars, stealVars
<1>19. ASSUME NEW t \in Transfers, GetReplayed(t) PROVE Kept'
    BY <1>19, NoTransferAssumption, NoNodeAssumption DEF GetReplayed, Waiting, Working,
     TypeOK, Protocol, OffJobHoldsNothing, Kept, jobVars, nodeVars, slotVars, stealVars
<1>20. ASSUME NEW t \in Transfers, GetGranted(t) PROVE Kept'
  <2>1. donor[t] \in Nodes /\ ~received[t]
    BY <1>20, NoNodeAssumption DEF GetGranted, Protocol, TypeOK
  <2>2. PICK S \in QueueGrants(t), R \in SUBSET Inputs :
            /\ inputsQueue' = [inputsQueue EXCEPT ![donor[t]] = @ \ S]
            /\ running' = [running EXCEPT ![donor[t]] = @ \ R]
            /\ batch' = [batch EXCEPT ![t] = S \cup R]
    BY <1>20, <2>1 DEF GetGranted, RevokeGrants, TypeOK
  <2>3. /\ t \notin parked /\ parked' = parked \cup {t}
        /\ UNCHANGED <<jobStatus, delivered, results, received>>
    BY <1>20 DEF GetGranted, jobVars
  <2>4. \A n \in Nodes : /\ inputsQueue[n] \subseteq inputsQueue'[n] \cup batch'[t]
                         /\ running[n] \subseteq running'[n] \cup batch'[t]
    BY <2>1, <2>2 DEF TypeOK
  <2>5. \A u \in parked : batch'[u] = batch[u]
    BY <2>2, <2>3 DEF TypeOK
  <2> QED
    BY <2>1, <2>3, <2>4, <2>5 DEF Kept
<1>21. ASSUME NEW t \in Transfers, AckTransfer(t) PROVE Kept'
  <2>1. t \in parked => donor[t] \in Nodes
    BY NoNodeAssumption DEF Protocol, TypeOK
  <2>2. \A n \in Nodes : inputsQueue[n] \subseteq inputsQueue'[n]
    BY <1>21 DEF AckTransfer, TypeOK
  <2>3. t \in parked /\ ~received[t] => batch[t] \subseteq inputsQueue'[donor[t]]
    BY <1>21, <2>1 DEF AckTransfer, Requeues, TypeOK
  <2>4. \A u \in parked \ {t} : u \in parked' /\ batch'[u] = batch[u]
    BY <1>21 DEF AckTransfer, TypeOK
  <2>5. UNCHANGED <<jobStatus, delivered, running, results, received>>
    BY <1>21 DEF AckTransfer, jobVars, stealVars
  <2> QED
    BY <2>1, <2>2, <2>3, <2>4, <2>5 DEF Kept
<1>22. ASSUME NEW t \in Transfers, AckNotOnJob(t) PROVE Kept'
    BY <1>22, NoTransferAssumption, NoNodeAssumption DEF AckNotOnJob, TypeOK, Protocol,
     OffJobHoldsNothing, Kept, Working, jobVars, nodeVars, slotVars, stealVars
<1>23. ASSUME NEW t \in Transfers, LoseMessage(t) PROVE Kept'
    BY <1>23, NoTransferAssumption, NoNodeAssumption DEF LoseMessage, TypeOK, Protocol,
     OffJobHoldsNothing, Kept, Working, jobVars, nodeVars, slotVars, stealVars
<1>24. ASSUME NEW n \in Nodes, ClaimDrained(n) PROVE Kept'
    BY <1>24, NoTransferAssumption, NoNodeAssumption DEF ClaimDrained, Drained,
     PendingTransfers, Working, TypeOK, Protocol, OffJobHoldsNothing, Kept, jobVars,
     slotVars, netVars
<1>25. ASSUME NEW n \in Nodes, ResetAfterClaim(n) PROVE Kept'
    BY <1>25, NoTransferAssumption, NoNodeAssumption DEF ResetAfterClaim, Forget,
     PendingTransfers, TypeOK, Protocol, OffJobHoldsNothing, Kept, Working, jobVars,
     slotVars, netVars
<1>26. ASSUME NEW n \in Nodes, CompleteJob(n) PROVE Kept'
    BY <1>26, NoTransferAssumption, NoNodeAssumption DEF CompleteJob, AllInputsProcessed,
     Forget, PendingTransfers, Working, TypeOK, Protocol, OffJobHoldsNothing, Kept,
     slotVars, netVars
<1>27. ASSUME NEW n \in Nodes, ClientDC(n) PROVE Kept'
    BY <1>27, NoTransferAssumption, NoNodeAssumption DEF ClientDC, AllInputsProcessed,
     Forget, PendingTransfers, Working, TypeOK, Protocol, OffJobHoldsNothing, Kept,
     slotVars, netVars
<1>28. ASSUME NEW n \in Nodes, LeaveFailedJob(n) PROVE Kept'
    BY <1>28, NoTransferAssumption, NoNodeAssumption DEF LeaveFailedJob, Forget,
     PendingTransfers, Working, TypeOK, Protocol, OffJobHoldsNothing, Kept, jobVars,
     slotVars, netVars
<1>29. ASSUME ReapJob PROVE Kept'
    BY <1>29, NoTransferAssumption, NoNodeAssumption DEF ReapJob, TypeOK, Protocol,
     OffJobHoldsNothing, Kept, Working, nodeVars, slotVars, stealVars, netVars
<1>30. ASSUME UNCHANGED vars PROVE Kept'
    BY <1>30 DEF TypeOK, Protocol, OffJobHoldsNothing, Kept, Working, vars, jobVars,
     nodeVars, slotVars, stealVars, netVars
<1> QED
    BY <1>1, <1>2, <1>3, <1>4, <1>5, <1>6, <1>7, <1>8, <1>9, <1>10, <1>11, <1>12, <1>13,
     <1>14, <1>15, <1>16, <1>17, <1>18, <1>19, <1>20, <1>21, <1>22, <1>23, <1>24, <1>25,
     <1>26, <1>27, <1>28, <1>29, <1>30 DEF Next, WorkerStep, StealStep, DonorStep,
     LeaveStep, Over


-----------------------------------------------------------------------------
(* The initial states: every input in one queue, no transfer. *)
LEMMA InitInv == Init => IInv
<1> SUFFICES ASSUME Init PROVE IInv
  OBVIOUS
<1>1. PICK at \in [Inputs -> Nodes] :
          inputsQueue = [n \in Nodes |-> {i \in Inputs : at[i] = n}]
  BY DEF Init
<1>2. TypeOK
  BY <1>1, MaxShocksAssumption DEF Init, TypeOK, NoAsk
<1>3. SingleOwner
  BY <1>1 DEF Init, SingleOwner, Live
<1>4. Protocol /\ OffJobHoldsNothing
  BY NoTransferAssumption DEF Init, Protocol, OffJobHoldsNothing, Working
<1>5. Kept
  BY <1>1 DEF Init, Kept
<1> QED
  BY <1>2, <1>3, <1>4, <1>5 DEF IInv

(* IInv is an inductive invariant of InputSteal. *)
THEOREM Invariance == Spec => []IInv
<1>1. IInv /\ [Next]_vars => IInv'
  BY TypeStep, ProtocolStep, OffJobStep, SingleOwnerStep, KeptStep DEF IInv
<1> QED
  BY InitInv, <1>1, PTL DEF Spec

(* Every reachable state is well typed. *)
THEOREM TypeCorrect == Spec => []TypeOK
<1>1. IInv => TypeOK
  BY DEF IInv
<1> QED
  BY Invariance, <1>1, PTL

(* No input ever yields two results, whatever the network does to the GETs, the
   ACKs and their answers: the claim of _input_steal_loop. *)
THEOREM ExactlyOnceResults == Spec => []AtMostOnce
<1>1. IInv => AtMostOnce
  BY DEF IInv, SingleOwner, AtMostOnce
<1> QED
  BY Invariance, <1>1, PTL

(* No input is dropped while the job runs, whoever leaves it and whenever. *)
THEOREM NothingLost == Spec => []NoInputLost
<1>1. IInv => NoInputLost
  <2> SUFFICES ASSUME IInv, jobStatus = "RUNNING", NEW i \in Inputs
               PROVE  HeldSomewhere(i)
    BY DEF NoInputLost
  <2>1. CASE i \in delivered
    BY <2>1 DEF HeldSomewhere
  <2>2. CASE \E n \in Nodes : i \in inputsQueue[n] \cup running[n] \cup results[n]
    BY <2>2 DEF IInv, OffJobHoldsNothing, HeldSomewhere
  <2>3. CASE \E t \in parked : ~received[t] /\ i \in batch[t]
    <3>1. PICK t \in parked : ~received[t] /\ i \in batch[t]
      BY <2>3
    <3>2. donor[t] \in Nodes
      BY NoNodeAssumption DEF IInv, Protocol, TypeOK
    <3> QED
      BY <3>1, <3>2 DEF IInv, OffJobHoldsNothing, HeldSomewhere
  <2> QED
    BY <2>1, <2>2, <2>3 DEF IInv, Kept
<1> QED
  BY Invariance, <1>1, PTL

-----------------------------------------------------------------------------
(* The refinement: where an input is decides what JobInputs knows of it. *)
statusBar == [i \in Inputs |-> InputStatus(i)]

(* An attempt starts only on an input that has no result and no other attempt. *)
LEMMA StartTakes ==
    ASSUME TypeOK, SingleOwner, NEW n \in Nodes, NEW i \in inputsQueue[n],
           running' = [running EXCEPT ![n] = @ \cup {i}], produced' = produced
    PROVE  [Promise!Next]_statusBar
<1>1. i \in Inputs
  BY DEF TypeOK
<1>2. InputStatus(i) = "waiting"
  <2>1. produced[i] = 0
    BY <1>1 DEF SingleOwner
  <2>2. \A m \in Nodes : i \notin running[m]
    BY DEF SingleOwner
  <2> QED
    BY <2>1, <2>2 DEF InputStatus
<1>3. InputStatus(i)' = "running"
  BY DEF InputStatus, TypeOK
<1>4. \A j \in Inputs \ {i} : InputStatus(j)' = InputStatus(j)
  BY DEF InputStatus, TypeOK
<1> QED
  BY <1>1, <1>2, <1>3, <1>4 DEF statusBar, Promise!Next, Promise!Take, Promise!Move

(* A result ends the one attempt there is. *)
LEMMA ResultFinishes ==
    ASSUME TypeOK, SingleOwner, NEW n \in Nodes, NEW i \in running[n],
           running' = [running EXCEPT ![n] = @ \ {i}],
           produced' = [produced EXCEPT ![i] = @ + 1]
    PROVE  [Promise!Next]_statusBar
<1>1. i \in Inputs
  BY DEF TypeOK
<1>2. InputStatus(i) = "running"
  BY DEF InputStatus
<1>3. InputStatus(i)' = "done"
  BY <1>1 DEF InputStatus, SingleOwner, TypeOK
<1>4. \A j \in Inputs \ {i} : InputStatus(j)' = InputStatus(j)
  BY DEF InputStatus, TypeOK
<1> QED
  BY <1>1, <1>2, <1>3, <1>4 DEF statusBar, Promise!Next, Promise!Finish, Promise!Move

(* Attempts abandoned together (a retired worker, a revocation, a node that forgets
   the job) give their inputs back, and only those. *)
LEMMA AbandonGivesBack ==
    ASSUME TypeOK, SingleOwner, NEW n \in Nodes, NEW S \in SUBSET running[n],
           running' = [running EXCEPT ![n] = @ \ S], produced' = produced
    PROVE  [Promise!Next]_statusBar
<1>1. S \subseteq Inputs
  BY DEF TypeOK
<1>2. \A i \in S : InputStatus(i) = "running"
  BY DEF InputStatus
<1>3. \A i \in S : InputStatus(i)' = "waiting"
  <2> SUFFICES ASSUME NEW i \in S PROVE InputStatus(i)' = "waiting"
    OBVIOUS
  <2>1. produced'[i] = 0
    BY <1>1 DEF SingleOwner
  <2>2. \A m \in Nodes : i \notin running'[m]
    BY DEF SingleOwner, TypeOK
  <2> QED
    BY <2>1, <2>2 DEF InputStatus
<1>4. \A j \in Inputs \ S : InputStatus(j)' = InputStatus(j)
  BY DEF InputStatus, TypeOK
<1>5. CASE S = {}
  BY <1>4, <1>5 DEF statusBar
<1>6. CASE S # {}
  <2>1. S \in (SUBSET Inputs) \ {{}}
    <3>1. S \in SUBSET Inputs
      BY <1>1
    <3>2. S \notin {{}}
      BY <1>6
    <3> QED
      BY <3>1, <3>2, Zenon
  <2>2. Promise!GiveBack(S)
    BY <1>1, <1>2, <1>3, <1>4 DEF Promise!GiveBack, Promise!Move
  <2> QED
    BY <2>1, <2>2 DEF Promise!Next
<1> QED
  BY <1>5, <1>6

(* The steps that neither start nor end an attempt are invisible to JobInputs. *)
LEMMA OtherwiseStutters ==
    ASSUME UNCHANGED <<running, produced>>
    PROVE  [Promise!Next]_statusBar
BY DEF statusBar, InputStatus

(* A node that forgets the job abandons what it runs. *)
LEMMA ForgetGivesBack ==
    ASSUME TypeOK, SingleOwner, NEW n \in Nodes, Forget(n), produced' = produced
    PROVE  [Promise!Next]_statusBar
<1>1. running' = [running EXCEPT ![n] = @ \ running[n]]
  BY DEF Forget, TypeOK
<1> QED
  BY <1>1, AbandonGivesBack

(* Every step of the nodes is a step of JobInputs or leaves it alone. *)
LEMMA StepRefines ==
    ASSUME TypeOK, SingleOwner, Protocol, [Next]_vars
    PROVE  [Promise!Next]_statusBar
<1>1. ASSUME NEW n \in Nodes, NEW i \in Inputs, StartInput(n, i)
      PROVE  [Promise!Next]_statusBar
  BY <1>1, StartTakes DEF StartInput
<1>2. ASSUME NEW n \in Nodes, NEW i \in Inputs, FinishInput(n, i)
      PROVE  [Promise!Next]_statusBar
  BY <1>2, ResultFinishes DEF FinishInput
<1>3. ASSUME NEW n \in Nodes, NEW i \in Inputs, RequeueInput(n, i)
      PROVE  [Promise!Next]_statusBar
  <2>1. {i} \in SUBSET running[n] /\ produced' = produced
    BY <1>3 DEF RequeueInput
  <2> QED
    BY <1>3, <2>1, AbandonGivesBack DEF RequeueInput
<1>4. ASSUME NEW n \in Nodes, NEW i \in Inputs, LastWorkerDies(n, i)
      PROVE  [Promise!Next]_statusBar
  <2>1. i \in running[n] /\ running' = [running EXCEPT ![n] = @ \ {i}]
    BY <1>4 DEF LastWorkerDies, TypeOK
  <2> QED
    BY <1>4, <2>1, ResultFinishes DEF LastWorkerDies
<1>5. ASSUME NEW n \in Nodes,
             LoseSlots(n) \/ ReaddWorker(n) \/ ReclaimStranded(n) \/ GatherResults(n)
      PROVE  [Promise!Next]_statusBar
  BY <1>5, OtherwiseStutters
     DEF LoseSlots, ReaddWorker, ReclaimStranded, GatherResults, nodeVars
<1>6. ASSUME NEW n \in Nodes, StealStep(n)
      PROVE  [Promise!Next]_statusBar
  BY <1>6, OtherwiseStutters
     DEF StealStep, BeginSteal, ResendGet, GetAnswered, GetRefused, GetFails,
         ResendAck, AckAnswered, AckPeerFinished, AckGivesUp, nodeVars
<1>7. ASSUME NEW t \in Transfers, GetGranted(t)
      PROVE  [Promise!Next]_statusBar
  <2>1. donor[t] \in Nodes
    BY <1>7, NoNodeAssumption DEF GetGranted, Protocol, TypeOK
  <2>2. PICK S \in QueueGrants(t), R \in SUBSET running[donor[t]] :
            running' = [running EXCEPT ![donor[t]] = @ \ R]
    BY <1>7 DEF GetGranted, RevokeGrants
  <2>3. produced' = produced
    BY <1>7 DEF GetGranted
  <2> QED
    BY <2>1, <2>2, <2>3, AbandonGivesBack
<1>8. ASSUME NEW t \in Transfers,
             GetNotOnJob(t) \/ GetReplayed(t) \/ AckTransfer(t) \/ AckNotOnJob(t)
                 \/ LoseMessage(t)
      PROVE  [Promise!Next]_statusBar
  BY <1>8, OtherwiseStutters
     DEF GetNotOnJob, GetReplayed, AckTransfer, AckNotOnJob, LoseMessage, nodeVars
<1>9. ASSUME NEW n \in Nodes, LeaveStep(n)
      PROVE  [Promise!Next]_statusBar
  <2>1. CASE ClaimDrained(n)
    BY <2>1, OtherwiseStutters DEF ClaimDrained
  <2>2. CASE ResetAfterClaim(n) \/ CompleteJob(n) \/ ClientDC(n) \/ LeaveFailedJob(n)
    BY <2>2, ForgetGivesBack DEF ResetAfterClaim, CompleteJob, ClientDC, LeaveFailedJob
  <2> QED
    BY <1>9, <2>1, <2>2 DEF LeaveStep
<1>10. CASE ReapJob \/ Over \/ UNCHANGED vars
  BY <1>10, OtherwiseStutters DEF ReapJob, Over, vars, nodeVars
<1> QED
  BY <1>1, <1>2, <1>3, <1>4, <1>5, <1>6, <1>7, <1>8, <1>9, <1>10
     DEF Next, WorkerStep, DonorStep

(* Whatever the nodes steal, revoke, retire or forget, and whatever the network
   loses or repeats, the job's inputs are run as JobInputs promises: one attempt
   at a time (worker_client.py, job_watcher.py), and no attempt after the result. *)
THEOREM StealingKeepsPromise == Spec => KeepsPromise
<1>1. Init => Promise!Init
  BY DEF Init, Promise!Init, InputStatus
<1>2. IInv /\ [Next]_vars => [Promise!Next]_statusBar
  BY StepRefines DEF IInv
<1> QED
  BY <1>1, <1>2, Invariance, PTL DEF Spec, KeepsPromise, Promise!Spec, statusBar
=============================================================================
