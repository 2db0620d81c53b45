------------------------- MODULE ClusterStateProofs -------------------------
(* Proofs about ClusterState, for every set of nodes, jobs and attempts, every
   number of lost messages and head restarts, and slow clients. *)
EXTENDS ClusterState, SequenceTheorems, TLAPS

(* A head that is down remembers nothing. *)
DownIsEmpty ==
    ~headUp => /\ \A n \in Nodes : nodes[n] = Absent
               /\ \A j \in Jobs : jobs[j] = "none"
               /\ toBoot = {} /\ ~paused

(* EndedJobsHoldNothing and ReservedAsAnswered of the history db, which is what a
   restarted head starts from. *)
HistEndedJobsHoldNothing ==
    \A n \in Nodes :
        hist[n].status # "DELETED" /\ hist[n].scope = NoJob /\ hist[n].res # NoJob
            => histJobs[hist[n].res].status = "RUNNING"

HistReservedAsAnswered ==
    \A n \in Nodes, j \in Jobs :
        j \in {hist[n].res, hist[n].scope} => n \in histJobs[j].given

(* The nodes still to boot were announced, and nothing was announced for a job
   that was not admitted. *)
BootsAsAnswered == \A n \in Nodes, j \in Jobs : <<n, j>> \in toBoot => n \in given[j]
NewJobsUnanswered == \A j \in Jobs : histJobs[j].status = "none" => histJobs[j].given = {}

(* A node clears its reservation or says nothing of it. *)
PushesReserveNothing == \A n \in Nodes : \A b \in wire[n] : b.res \in {NoJob, Keep}

HeadInv ==
    /\ HistoryInStep /\ DownIsEmpty
    /\ EndedJobsHoldNothing /\ HistEndedJobsHoldNothing
    /\ ReservedAsAnswered /\ HistReservedAsAnswered /\ BootsAsAnswered /\ NewJobsUnanswered
    /\ PausedMeansIdle
-----------------------------------------------------------------------------
(* What update_node makes of a record is a record. *)
LEMMA MergedType ==
    ASSUME HeadTypes, NEW n \in Nodes, NEW status \in Statuses \cup {Keep},
           NEW cur \in JobIds \cup {Keep}, NEW res \in JobIds \cup {Keep}
    PROVE  MergedNode(n, status, cur, res) \in NodeRecord
<1>1. nodes[n] \in NodeRecord
  BY DEF HeadTypes
<1>2. MergedStatus(nodes[n].status, status) \in Statuses
  BY <1>1 DEF MergedStatus, NodeRecord
<1>3. MergedField(nodes[n].cur, cur) \in JobIds /\ MergedField(nodes[n].res, res) \in JobIds
  BY <1>1 DEF MergedField, NodeRecord
<1> QED BY <1>1, <1>2, <1>3 DEF MergedNode, NodeRecord

(* The two terminal updates of the reapers and of failed nodes. *)
LEMMA TerminalType ==
    ASSUME HeadTypes, NEW n \in Nodes
    PROVE  /\ MergedNode(n, "FAILED", Keep, Keep) \in NodeRecord
           /\ MergedNode(n, "DELETED", Keep, Keep) \in NodeRecord
BY MergedType DEF Statuses

(* A record whose reservation is cleared is a record. *)
LEMMA ReleasedType ==
    ASSUME HeadTypes, NEW j \in Jobs
    PROVE  Released(j) \in [Nodes -> NodeRecord]
BY DEF HeadTypes, Released, NodeRecord, JobIds

(* Pushes are well formed, and so is a queue of them. *)
LEMMA CallType ==
    ASSUME NEW kind \in Kinds
    PROVE  Call(kind) \in Calls
BY DEF Call, Calls, JobIds

(* A push that is queued is well formed. *)
LEMMA QueuedType ==
    ASSUME NodeTypes, NEW n \in Nodes, NEW kind \in Kinds
    PROVE  Queued(n, kind) \in [Nodes -> Seq(Calls)]
<1>1. Append(todo[n], Call(kind)) \in Seq(Calls)
  BY CallType, AppendProperties DEF NodeTypes
<1> QED BY <1>1 DEF NodeTypes, Queued

(* So is the body a node sends for it. *)
LEMMA BodyType ==
    ASSUME NodeTypes, NEW n \in Nodes, NEW push \in Calls
    PROVE  Body(n, push) \in Bodies
<1>1. self[n].status \in Statuses
  BY DEF NodeTypes, SelfRecord
<1> QED BY <1>1 DEF Body, Bodies, Calls, JobIds, Statuses, LiveStatuses

(* The node keeps a record of itself whatever the head answers. *)
LEMMA AfterViewType ==
    ASSUME NodeTypes, NEW n \in Nodes, NEW r \in Views
    PROVE  AfterView(n, r) \in SelfRecord
<1>1. self[n] \in SelfRecord
  BY DEF NodeTypes
<1> QED BY <1>1 DEF AfterView, SelfRecord, Views, JobIds, Phases

(* The record a push leaves at the head, and the view the head answers with. *)
LEMMA HandledType ==
    ASSUME HeadTypes, NetTypes, NEW n \in Nodes, NEW b \in wire[n]
    PROVE  /\ MergedNode(n, b.status, b.cur, b.res) \in NodeRecord
           /\ [MergedNode(n, b.status, b.cur, b.res) EXCEPT !.status = "DELETED"]
                  \in NodeRecord
           /\ \A record \in NodeRecord :
                  [kind |-> b.kind, job |-> b.job, status |-> record.status,
                   res |-> record.res] \in Views
<1>1. b \in Bodies
  BY DEF NetTypes
<1>2. MergedNode(n, b.status, b.cur, b.res) \in NodeRecord
  BY <1>1, MergedType DEF Bodies
<1> QED BY <1>1, <1>2 DEF NodeRecord, Bodies, Views, Statuses

(* A plan draws existing names. *)
LEMMA PlansType ==
    ASSUME NEW ready
    PROVE  Plans(ready) \subseteq SUBSET FreeNames /\ FreeNames \subseteq Nodes
<1>1. FreeNames \subseteq Nodes
  BY DEF FreeNames
<1>2. CASE FreeNames = {}
  BY <1>2 DEF Plans
<1>3. CASE FreeNames # {}
  <2>1. (CHOOSE n \in FreeNames : TRUE) \in FreeNames
    BY <1>3
  <2> QED BY <1>1, <1>3, <2>1 DEF Plans
<1> QED BY <1>2, <1>3

(* Every step preserves the types. *)
LEMMA TypeStep ==
    ASSUME TypeOK, [Next]_vars
    PROVE  TypeOK'
<1>1. ASSUME NEW j \in Jobs, NEW a \in Attempts, SelectNodes(j, a)
     PROVE TypeOK'
  <2>1. StartTypes'
    BY <1>1, PlansType DEF TypeOK, StartTypes, SelectNodes, headVars, histVars, nodeVars,
       netVars, boundVars, Selectable
  <2>2. HeadTypes' /\ HistTypes' /\ NodeTypes' /\ NetTypes' /\ ClientTypes'
    BY <1>1 DEF TypeOK, HeadTypes, HistTypes, NodeTypes, NetTypes, ClientTypes,
       SelectNodes, headVars, histVars, nodeVars, netVars, boundVars
  <2> QED BY <2>1, <2>2 DEF TypeOK
<1>2. ASSUME NEW j \in Jobs, NEW a \in Attempts, ReplayStart(j, a)
     PROVE TypeOK'
  <2>1. StartTypes'
    BY <1>2 DEF TypeOK, StartTypes, Nothing, ReplayStart, headVars, histVars, nodeVars, netVars,
       boundVars, Replayed
  <2>2. HeadTypes' /\ HistTypes' /\ NodeTypes' /\ NetTypes' /\ ClientTypes'
    BY <1>2 DEF TypeOK, HeadTypes, HistTypes, NodeTypes, NetTypes, ClientTypes,
       ReplayStart, headVars, histVars, nodeVars, netVars, boundVars
  <2> QED BY <2>1, <2>2 DEF TypeOK
<1>3. ASSUME NEW j \in Jobs, NEW a \in Attempts, AdmitJob(j, a)
     PROVE TypeOK'
  <2>1. HeadTypes'
    BY <1>3 DEF TypeOK, HeadTypes, HistTypes, StartTypes, NetTypes, ClientTypes,
       NodeRecord, Statuses, LiveStatuses, JobIds, JobStatuses, AdmitJob, nodeVars,
       netVars, boundVars, Admissible, Replayed, Selectable
  <2>2. HistTypes'
    BY <1>3 DEF TypeOK, HeadTypes, HistTypes, StartTypes, NetTypes, NodeRecord, Statuses,
       LiveStatuses, JobIds, JobStatuses, AdmitJob, nodeVars, netVars, boundVars,
       Admissible, Replayed, Selectable
  <2>3. StartTypes'
    BY <1>3 DEF TypeOK, StartTypes, AdmitJob, nodeVars, netVars, boundVars, Admissible,
       Replayed, Selectable
  <2>4. NodeTypes' /\ NetTypes' /\ ClientTypes'
    BY <1>3 DEF TypeOK, NodeTypes, NetTypes, ClientTypes, AdmitJob, nodeVars, netVars,
       boundVars
  <2> QED BY <2>1, <2>2, <2>3, <2>4 DEF TypeOK
<1>4. ASSUME NEW j \in Jobs, NEW a \in Attempts, RefuseStart(j, a)
     PROVE TypeOK'
  <2>1. StartTypes'
    BY <1>4 DEF TypeOK, StartTypes, RefuseStart, headVars, histVars, nodeVars, netVars,
       boundVars, Admissible, Nothing, Replayed, Selectable
  <2>2. HeadTypes' /\ HistTypes' /\ NodeTypes' /\ NetTypes' /\ ClientTypes'
    BY <1>4 DEF TypeOK, HeadTypes, HistTypes, NodeTypes, NetTypes, ClientTypes,
       RefuseStart, headVars, histVars, nodeVars, netVars, boundVars
  <2> QED BY <2>1, <2>2 DEF TypeOK
<1>5. ASSUME PauseAdmission
     PROVE TypeOK'
  <2>1. HeadTypes'
    BY <1>5 DEF TypeOK, HeadTypes, HistTypes, StartTypes, NetTypes, ClientTypes,
       NodeRecord, Statuses, LiveStatuses, JobIds, JobStatuses, PauseAdmission, histVars,
       startVars, nodeVars, netVars, boundVars
  <2>2. HistTypes' /\ StartTypes' /\ NodeTypes' /\ NetTypes' /\ ClientTypes'
    BY <1>5 DEF TypeOK, HistTypes, StartTypes, NodeTypes, NetTypes, ClientTypes,
       PauseAdmission, histVars, startVars, nodeVars, netVars, boundVars
  <2> QED BY <2>1, <2>2 DEF TypeOK
<1>6. ASSUME ResumeAdmission
     PROVE TypeOK'
  <2>1. HeadTypes'
    BY <1>6 DEF TypeOK, HeadTypes, HistTypes, StartTypes, NetTypes, ClientTypes,
       NodeRecord, Statuses, LiveStatuses, JobIds, JobStatuses, ResumeAdmission, histVars,
       startVars, nodeVars, netVars, boundVars
  <2>2. HistTypes' /\ StartTypes' /\ NodeTypes' /\ NetTypes' /\ ClientTypes'
    BY <1>6 DEF TypeOK, HistTypes, StartTypes, NodeTypes, NetTypes, ClientTypes,
       ResumeAdmission, histVars, startVars, nodeVars, netVars, boundVars
  <2> QED BY <2>1, <2>2 DEF TypeOK
<1>7. ASSUME CrashHead
     PROVE TypeOK'
  <2>1. HeadTypes'
    BY <1>7 DEF TypeOK, HeadTypes, HistTypes, StartTypes, NetTypes, ClientTypes,
       NodeRecord, Statuses, LiveStatuses, JobIds, JobStatuses, CrashHead, histVars,
       nodeVars, netVars, Absent
  <2>2. StartTypes'
    BY <1>7 DEF TypeOK, StartTypes, CrashHead, histVars, nodeVars, netVars, Absent
  <2>3. ClientTypes'
    BY <1>7, MaxLossesAssumption, MaxRestartsAssumption DEF TypeOK, ClientTypes,
       CrashHead, histVars, nodeVars, netVars
  <2>4. HistTypes' /\ NodeTypes' /\ NetTypes'
    BY <1>7 DEF TypeOK, HistTypes, NodeTypes, NetTypes, CrashHead, histVars, nodeVars,
       netVars
  <2> QED BY <2>1, <2>2, <2>3, <2>4 DEF TypeOK
<1>8. ASSUME RestartHead
     PROVE TypeOK'
  <2>1. HeadTypes'
    BY <1>8 DEF TypeOK, HeadTypes, HistTypes, StartTypes, NetTypes, ClientTypes,
       NodeRecord, Statuses, LiveStatuses, JobIds, JobStatuses, RestartHead, histVars,
       startVars, nodeVars, netVars, boundVars, Absent
  <2>2. HistTypes' /\ StartTypes' /\ NodeTypes' /\ NetTypes' /\ ClientTypes'
    BY <1>8 DEF TypeOK, HistTypes, StartTypes, NodeTypes, NetTypes, ClientTypes,
       RestartHead, histVars, startVars, nodeVars, netVars, boundVars
  <2> QED BY <2>1, <2>2 DEF TypeOK
<1>9. ASSUME NEW n \in Nodes, NEW j \in Jobs, StartNode(n, j)
     PROVE TypeOK'
  <2>1. HeadTypes'
    BY <1>9 DEF TypeOK, HeadTypes, HistTypes, StartTypes, NetTypes, ClientTypes,
       NodeRecord, Statuses, LiveStatuses, JobIds, JobStatuses, StartNode, startVars,
       netVars, boundVars, Call, MergedStatus, Queued
  <2>2. HistTypes'
    BY <1>9 DEF TypeOK, HeadTypes, HistTypes, StartTypes, NetTypes, NodeRecord, Statuses,
       LiveStatuses, JobIds, JobStatuses, StartNode, startVars, netVars, boundVars, Call,
       MergedStatus, Queued
  <2>3. NodeTypes'
    <3>1. self' \in [Nodes -> SelfRecord]
      BY <1>9 DEF TypeOK, NodeTypes, SelfRecord, Statuses, LiveStatuses, JobIds, Phases,
         StartNode, startVars, netVars, boundVars
    <3>2. todo' \in [Nodes -> Seq(Calls)]
      BY <1>9, QueuedType DEF TypeOK, NodeTypes, Kinds, StartNode, startVars, netVars,
         boundVars
    <3>3. vm' \in [Nodes -> {"none", "up", "gone"}]
      BY <1>9 DEF TypeOK, NodeTypes, StartNode, KillVm, startVars, netVars, boundVars
    <3> QED BY <3>1, <3>2, <3>3 DEF NodeTypes
  <2>4. StartTypes' /\ NetTypes' /\ ClientTypes'
    BY <1>9 DEF TypeOK, StartTypes, NetTypes, ClientTypes, StartNode, startVars, netVars,
       boundVars
  <2> QED BY <2>1, <2>2, <2>3, <2>4 DEF TypeOK
<1>10. ASSUME NEW n \in Nodes, NEW j \in Jobs, FailNode(n, j)
     PROVE TypeOK'
  <2>1. HeadTypes'
    BY <1>10, TerminalType DEF TypeOK, HeadTypes, FailNode, startVars, nodeVars, netVars
  <2>2. HistTypes'
    BY <1>10, TerminalType DEF TypeOK, HistTypes, FailNode, startVars, nodeVars, netVars
  <2>3. ClientTypes'
    BY <1>10, MaxLossesAssumption, MaxRestartsAssumption DEF TypeOK, ClientTypes,
       FailNode, startVars, nodeVars, netVars
  <2>4. StartTypes' /\ NodeTypes' /\ NetTypes'
    BY <1>10 DEF TypeOK, StartTypes, NodeTypes, NetTypes, FailNode, startVars, nodeVars,
       netVars
  <2> QED BY <2>1, <2>2, <2>3, <2>4 DEF TypeOK
<1>11. ASSUME NEW j \in Jobs, NEW s \in {"COMPLETED", "FAILED"}, EndJob(j, s)
     PROVE TypeOK'
  <2>1. HeadTypes'
    BY <1>11, ReleasedType DEF TypeOK, HeadTypes, JobStatuses, EndJob, AppliedStatus,
       startVars, nodeVars, netVars, boundVars
  <2>2. HistTypes'
    <3>1. Released(j) \in [Nodes -> NodeRecord]
      BY ReleasedType DEF TypeOK
    <3>2. histJobs[j] \in [status : JobStatuses, given : SUBSET Nodes] /\ AppliedStatus(j, s) \in JobStatuses
      BY DEF TypeOK, HistTypes, HeadTypes, AppliedStatus, JobStatuses
    <3> QED BY <1>11, <3>1, <3>2 DEF TypeOK, HistTypes, EndJob, startVars, nodeVars, netVars, boundVars
  <2>3. StartTypes' /\ NodeTypes' /\ NetTypes' /\ ClientTypes'
    BY <1>11 DEF TypeOK, StartTypes, NodeTypes, NetTypes, ClientTypes, EndJob, startVars,
       nodeVars, netVars, boundVars
  <2> QED BY <2>1, <2>2, <2>3 DEF TypeOK
<1>12. ASSUME NEW n \in Nodes, BootFails(n)
     PROVE TypeOK'
  <2>1. HeadTypes'
    BY <1>12, TerminalType DEF TypeOK, HeadTypes, BootFails, startVars, boundVars
  <2>2. HistTypes'
    BY <1>12, TerminalType DEF TypeOK, HistTypes, BootFails, startVars, boundVars
  <2>3. NodeTypes'
    BY <1>12 DEF TypeOK, NodeTypes, BootFails, startVars, boundVars, KillVm
  <2>4. NetTypes'
    BY <1>12 DEF TypeOK, NetTypes, BootFails, startVars, boundVars, KillVm
  <2>5. StartTypes' /\ ClientTypes'
    BY <1>12 DEF TypeOK, StartTypes, ClientTypes, BootFails, startVars, boundVars, KillVm
  <2> QED BY <2>1, <2>2, <2>3, <2>4, <2>5 DEF TypeOK
<1>13. ASSUME NEW n \in Nodes, DeleteNode(n)
     PROVE TypeOK'
  <2>1. HeadTypes'
    BY <1>13, TerminalType DEF TypeOK, HeadTypes, DeleteNode, startVars, boundVars
  <2>2. HistTypes'
    BY <1>13, TerminalType DEF TypeOK, HistTypes, DeleteNode, startVars, boundVars
  <2>3. NodeTypes'
    BY <1>13 DEF TypeOK, NodeTypes, DeleteNode, startVars, boundVars, KillVm
  <2>4. NetTypes'
    BY <1>13 DEF TypeOK, NetTypes, DeleteNode, startVars, boundVars, KillVm
  <2>5. StartTypes' /\ ClientTypes'
    BY <1>13 DEF TypeOK, StartTypes, ClientTypes, DeleteNode, startVars, boundVars, KillVm
  <2> QED BY <2>1, <2>2, <2>3, <2>4, <2>5 DEF TypeOK
<1>14. ASSUME NEW n \in Nodes, GoStale(n)
     PROVE TypeOK'
  <2>1. HeadTypes'
    BY <1>14 DEF TypeOK, HeadTypes, HistTypes, StartTypes, NetTypes, ClientTypes,
       NodeRecord, Statuses, LiveStatuses, JobIds, JobStatuses, GoStale, histVars,
       startVars, nodeVars, netVars
  <2>2. ClientTypes'
    BY <1>14, MaxLossesAssumption, MaxRestartsAssumption DEF TypeOK, ClientTypes, GoStale,
       histVars, startVars, nodeVars, netVars
  <2>3. HistTypes' /\ StartTypes' /\ NodeTypes' /\ NetTypes'
    BY <1>14 DEF TypeOK, HistTypes, StartTypes, NodeTypes, NetTypes, GoStale, histVars,
       startVars, nodeVars, netVars
  <2> QED BY <2>1, <2>2, <2>3 DEF TypeOK
<1>15. ASSUME NEW n \in Nodes, SuspectNode(n)
     PROVE TypeOK'
  <2>1. HeadTypes'
    BY <1>15 DEF TypeOK, HeadTypes, HistTypes, StartTypes, NetTypes, ClientTypes,
       NodeRecord, Statuses, LiveStatuses, JobIds, JobStatuses, SuspectNode, histVars,
       startVars, nodeVars, netVars, boundVars
  <2>2. HistTypes' /\ StartTypes' /\ NodeTypes' /\ NetTypes' /\ ClientTypes'
    BY <1>15 DEF TypeOK, HistTypes, StartTypes, NodeTypes, NetTypes, ClientTypes,
       SuspectNode, histVars, startVars, nodeVars, netVars, boundVars
  <2> QED BY <2>1, <2>2 DEF TypeOK
<1>16. ASSUME NEW n \in Nodes, ReapNode(n)
     PROVE TypeOK'
  <2>1. HeadTypes'
    BY <1>16, TerminalType DEF TypeOK, HeadTypes, ReapNode, startVars, boundVars
  <2>2. HistTypes'
    BY <1>16, TerminalType DEF TypeOK, HistTypes, ReapNode, startVars, boundVars
  <2>3. NodeTypes'
    BY <1>16 DEF TypeOK, NodeTypes, ReapNode, startVars, boundVars, KillVm
  <2>4. NetTypes'
    BY <1>16 DEF TypeOK, NetTypes, ReapNode, startVars, boundVars, KillVm
  <2>5. StartTypes' /\ ClientTypes'
    BY <1>16 DEF TypeOK, StartTypes, ClientTypes, ReapNode, startVars, boundVars, KillVm
  <2> QED BY <2>1, <2>2, <2>3, <2>4, <2>5 DEF TypeOK
<1>17. ASSUME NEW n \in Nodes, LoopPush(n)
     PROVE TypeOK'
  <2>1. NetTypes'
    <3>1. Body(n, Call("loop")) \in Bodies
      BY BodyType, CallType DEF TypeOK, Kinds
    <3> QED BY <1>17, <3>1 DEF TypeOK, NetTypes, LoopPush, headVars, histVars, startVars, nodeVars, boundVars
  <2>2. HeadTypes' /\ HistTypes' /\ StartTypes' /\ NodeTypes' /\ ClientTypes'
    BY <1>17 DEF TypeOK, HeadTypes, HistTypes, StartTypes, NodeTypes, ClientTypes,
       LoopPush, headVars, histVars, startVars, nodeVars, boundVars
  <2> QED BY <2>1, <2>2 DEF TypeOK
<1>18. ASSUME NEW n \in Nodes, SendPush(n)
     PROVE TypeOK'
  <2>1. NodeTypes'
    <3>1. Head(todo[n]) \in Calls /\ Tail(todo[n]) \in Seq(Calls)
      BY <1>18, HeadTailProperties DEF TypeOK, NodeTypes, SendPush
    <3> QED BY <1>18, <3>1 DEF TypeOK, NodeTypes, SendPush, headVars, histVars, startVars, boundVars
  <2>2. NetTypes'
    <3>1. Head(todo[n]) \in Calls
      BY <1>18, HeadTailProperties DEF TypeOK, NodeTypes, SendPush
    <3>2. Body(n, Head(todo[n])) \in Bodies
      BY <3>1, BodyType DEF TypeOK
    <3> QED BY <1>18, <3>1, <3>2 DEF TypeOK, NetTypes, SendPush, headVars, histVars, startVars, boundVars
  <2>3. HeadTypes' /\ HistTypes' /\ StartTypes' /\ ClientTypes'
    BY <1>18 DEF TypeOK, HeadTypes, HistTypes, StartTypes, ClientTypes, SendPush,
       headVars, histVars, startVars, boundVars
  <2> QED BY <2>1, <2>2, <2>3 DEF TypeOK
<1>19. ASSUME NEW n \in Nodes, SendExpire(n)
     PROVE TypeOK'
  <2>1. NodeTypes'
    <3>1. self' \in [Nodes -> SelfRecord]
      BY <1>19 DEF TypeOK, NodeTypes, SelfRecord, Statuses, LiveStatuses, JobIds, Phases,
         SendExpire, headVars, histVars, startVars, boundVars
    <3>2. todo' \in [Nodes -> Seq(Calls)]
      BY <1>19, QueuedType DEF TypeOK, NodeTypes, Kinds, SendExpire, headVars, histVars,
         startVars, boundVars
    <3>3. vm' \in [Nodes -> {"none", "up", "gone"}]
      BY <1>19 DEF TypeOK, NodeTypes, SendExpire, KillVm, headVars, histVars, startVars,
         boundVars
    <3> QED BY <3>1, <3>2, <3>3 DEF NodeTypes
  <2>2. NetTypes'
    <3>1. Body(n, Call("expire")) \in Bodies
      BY BodyType, CallType DEF TypeOK, Kinds
    <3> QED BY <1>19, <3>1 DEF TypeOK, NetTypes, SendExpire, headVars, histVars, startVars, boundVars
  <2>3. HeadTypes' /\ HistTypes' /\ StartTypes' /\ ClientTypes'
    BY <1>19 DEF TypeOK, HeadTypes, HistTypes, StartTypes, ClientTypes, SendExpire,
       headVars, histVars, startVars, boundVars
  <2> QED BY <2>1, <2>2, <2>3 DEF TypeOK
<1>20. ASSUME NEW n \in Nodes, HandlePush(n)
     PROVE TypeOK'
  <2>1. HeadTypes'
    BY <1>20, HandledType DEF TypeOK, HeadTypes, HandlePush, startVars, nodeVars,
       boundVars
  <2>2. HistTypes'
    BY <1>20, HandledType DEF TypeOK, HistTypes, HandlePush, startVars, nodeVars,
       boundVars
  <2>3. NetTypes'
    <3>1. PICK b \in wire[n] : \E record \in NodeRecord :
              /\ wire' = [wire EXCEPT ![n] = {}]
              /\ reply' = [reply EXCEPT ![n] = {[kind |-> b.kind, job |-> b.job,
                                   status |-> record.status, res |-> record.res]}]
      BY <1>20, HandledType DEF TypeOK, HandlePush
    <3>2. PICK view \in Views : wire' = [wire EXCEPT ![n] = {}] /\ reply' = [reply EXCEPT ![n] = {view}]
      BY <3>1, HandledType DEF TypeOK
    <3> QED BY <3>2 DEF TypeOK, NetTypes
  <2>4. StartTypes' /\ NodeTypes' /\ ClientTypes'
    BY <1>20 DEF TypeOK, StartTypes, NodeTypes, ClientTypes, HandlePush, startVars,
       nodeVars, boundVars
  <2> QED BY <2>1, <2>2, <2>3, <2>4 DEF TypeOK
<1>21. ASSUME NEW n \in Nodes, ReceiveView(n)
     PROVE TypeOK'
  <2>1. NodeTypes'
    <3>1. PICK r \in reply[n] : self' = [self EXCEPT ![n] = AfterView(n, r)] /\ r \in Views
      BY <1>21 DEF TypeOK, NetTypes, ReceiveView
    <3>2. self' \in [Nodes -> SelfRecord]
      BY <3>1, AfterViewType DEF TypeOK, NodeTypes
    <3>3. todo' \in [Nodes -> Seq(Calls)]
      BY <1>21, QueuedType DEF TypeOK, NodeTypes, Kinds, ReceiveView, headVars, histVars,
         startVars, boundVars
    <3>4. vm' \in [Nodes -> {"none", "up", "gone"}]
      BY <1>21 DEF TypeOK, NodeTypes, ReceiveView, KillVm, headVars, histVars, startVars,
         boundVars
    <3> QED BY <3>1, <3>2, <3>3, <3>4 DEF NodeTypes
  <2>2. NetTypes'
    BY <1>21 DEF TypeOK, NetTypes, ReceiveView, headVars, histVars, startVars, boundVars
  <2>3. HeadTypes' /\ HistTypes' /\ StartTypes' /\ ClientTypes'
    BY <1>21 DEF TypeOK, HeadTypes, HistTypes, StartTypes, ClientTypes, ReceiveView,
       headVars, histVars, startVars, boundVars
  <2> QED BY <2>1, <2>2, <2>3 DEF TypeOK
<1>22. ASSUME NEW n \in Nodes, LosePush(n)
     PROVE TypeOK'
  <2>1. NodeTypes'
    <3>1. PICK b \in wire[n] \cup reply[n] : AfterFailedPush(n, b)
      BY <1>22 DEF LosePush
    <3>2. self[n] \in SelfRecord
      BY DEF TypeOK, NodeTypes
    <3>3. self' \in [Nodes -> SelfRecord]
      BY <3>1, <3>2 DEF TypeOK, NodeTypes, SelfRecord, Statuses, LiveStatuses, Phases,
         AfterFailedPush
    <3>4. todo' \in [Nodes -> Seq(Calls)]
      BY <3>1, <3>2, <3>3, QueuedType DEF TypeOK, NodeTypes, Kinds, AfterFailedPush
    <3>5. vm' \in [Nodes -> {"none", "up", "gone"}]
      BY <3>1, <3>2, <3>3, <3>4 DEF TypeOK, NodeTypes, AfterFailedPush
    <3> QED BY <3>1, <3>2, <3>3, <3>4, <3>5 DEF NodeTypes
  <2>2. NetTypes'
    BY <1>22 DEF TypeOK, NetTypes, LosePush, headVars, histVars, startVars
  <2>3. ClientTypes'
    BY <1>22, MaxLossesAssumption, MaxRestartsAssumption DEF TypeOK, ClientTypes,
       LosePush, headVars, histVars, startVars
  <2>4. HeadTypes' /\ HistTypes' /\ StartTypes'
    BY <1>22 DEF TypeOK, HeadTypes, HistTypes, StartTypes, LosePush, headVars, histVars,
       startVars, AfterFailedPush
  <2> QED BY <2>1, <2>2, <2>3, <2>4 DEF TypeOK
<1>23. ASSUME NEW n \in Nodes, FinishBoot(n)
     PROVE TypeOK'
  <2>1. NodeTypes'
    <3>1. self' \in [Nodes -> SelfRecord]
      BY <1>23 DEF TypeOK, NodeTypes, SelfRecord, Statuses, LiveStatuses, JobIds, Phases,
         FinishBoot, headVars, histVars, startVars, netVars, boundVars
    <3>2. todo' \in [Nodes -> Seq(Calls)]
      BY <1>23, QueuedType DEF TypeOK, NodeTypes, Kinds, FinishBoot, headVars, histVars,
         startVars, netVars, boundVars
    <3>3. vm' \in [Nodes -> {"none", "up", "gone"}]
      BY <1>23 DEF TypeOK, NodeTypes, FinishBoot, KillVm, headVars, histVars, startVars,
         netVars, boundVars
    <3> QED BY <3>1, <3>2, <3>3 DEF NodeTypes
  <2>2. HeadTypes' /\ HistTypes' /\ StartTypes' /\ NetTypes' /\ ClientTypes'
    BY <1>23 DEF TypeOK, HeadTypes, HistTypes, StartTypes, NetTypes, ClientTypes,
       FinishBoot, headVars, histVars, startVars, netVars, boundVars
  <2> QED BY <2>1, <2>2 DEF TypeOK
<1>24. ASSUME NEW n \in Nodes, ExecuteJob(n)
     PROVE TypeOK'
  <2>1. NodeTypes'
    <3>1. self[n] \in SelfRecord
      BY DEF TypeOK, NodeTypes
    <3>2. self' = [self EXCEPT ![n] = [self[n] EXCEPT !.phase = "running"]]
      BY <1>24 DEF ExecuteJob
    <3>3. self' \in [Nodes -> SelfRecord]
      BY <3>1, <3>2 DEF TypeOK, NodeTypes, SelfRecord, Phases
    <3>4. todo' \in [Nodes -> Seq(Calls)]
      BY <1>24, QueuedType DEF TypeOK, NodeTypes, Kinds, ExecuteJob, headVars, histVars,
         startVars, netVars
    <3>5. vm' \in [Nodes -> {"none", "up", "gone"}]
      BY <1>24 DEF TypeOK, NodeTypes, ExecuteJob, KillVm, headVars, histVars, startVars,
         netVars
    <3> QED BY <3>1, <3>2, <3>3, <3>4, <3>5 DEF NodeTypes
  <2>2. ClientTypes'
    BY <1>24, MaxLossesAssumption, MaxRestartsAssumption DEF TypeOK, ClientTypes,
       ExecuteJob, headVars, histVars, startVars, netVars
  <2>3. HeadTypes' /\ HistTypes' /\ StartTypes' /\ NetTypes'
    BY <1>24 DEF TypeOK, HeadTypes, HistTypes, StartTypes, NetTypes, ExecuteJob, headVars,
       histVars, startVars, netVars
  <2> QED BY <2>1, <2>2, <2>3 DEF TypeOK
<1>25. ASSUME NEW n \in Nodes, NoCompatibleWorker(n)
     PROVE TypeOK'
  <2>1. NodeTypes'
    <3>1. self' \in [Nodes -> SelfRecord]
      BY <1>25 DEF TypeOK, NodeTypes, SelfRecord, Statuses, LiveStatuses, JobIds, Phases,
         NoCompatibleWorker, headVars, histVars, startVars, netVars, boundVars
    <3>2. todo' \in [Nodes -> Seq(Calls)]
      BY <1>25, QueuedType DEF TypeOK, NodeTypes, Kinds, NoCompatibleWorker, headVars,
         histVars, startVars, netVars, boundVars
    <3>3. vm' \in [Nodes -> {"none", "up", "gone"}]
      BY <1>25 DEF TypeOK, NodeTypes, NoCompatibleWorker, KillVm, headVars, histVars,
         startVars, netVars, boundVars
    <3> QED BY <3>1, <3>2, <3>3 DEF NodeTypes
  <2>2. ClientTypes'
    BY <1>25 DEF TypeOK, ClientTypes, NodeTypes, JobIds, NoCompatibleWorker, headVars,
       histVars, startVars, netVars, boundVars, Awake, Call, Queued, StartPushPending
  <2>3. HeadTypes' /\ HistTypes' /\ StartTypes' /\ NetTypes'
    BY <1>25 DEF TypeOK, HeadTypes, HistTypes, StartTypes, NetTypes, NoCompatibleWorker,
       headVars, histVars, startVars, netVars, boundVars
  <2> QED BY <2>1, <2>2, <2>3 DEF TypeOK
<1>26. ASSUME NEW n \in Nodes, DisconnectMidAssign(n)
     PROVE TypeOK'
  <2>1. NodeTypes'
    <3>1. self[n] \in SelfRecord
      BY DEF TypeOK, NodeTypes
    <3>2. [self[n] EXCEPT !.phase = "wedged"] \in SelfRecord
      BY <3>1 DEF SelfRecord, Phases
    <3>3. [self[n] EXCEPT !.status = "READY", !.cur = NoJob, !.phase = "idle"] \in SelfRecord
      BY <3>1 DEF SelfRecord, Phases, JobIds, Statuses, LiveStatuses
    <3>4. \/ self' = [self EXCEPT ![n] = [self[n] EXCEPT !.status = "READY", !.cur = NoJob,
                                                   !.phase = "idle"]]
           \/ self' = [self EXCEPT ![n] = [self[n] EXCEPT !.phase = "wedged"]]
      BY <1>26 DEF DisconnectMidAssign
    <3>5. self' \in [Nodes -> SelfRecord]
      BY <3>2, <3>3, <3>4 DEF TypeOK, NodeTypes
    <3>6. todo' \in [Nodes -> Seq(Calls)]
      BY <1>26, QueuedType DEF TypeOK, NodeTypes, Kinds, DisconnectMidAssign, headVars,
         histVars, startVars, netVars
    <3>7. vm' \in [Nodes -> {"none", "up", "gone"}]
      BY <1>26 DEF TypeOK, NodeTypes, DisconnectMidAssign, KillVm, headVars, histVars,
         startVars, netVars
    <3> QED BY <3>1, <3>2, <3>3, <3>4, <3>5, <3>6, <3>7 DEF NodeTypes
  <2>2. ClientTypes'
    <3>1. client' = [client EXCEPT ![self[n].cur][n] = "unasked"]
      BY <1>26 DEF DisconnectMidAssign
    <3>2. client' \in [Jobs -> [Nodes -> {"unasked", "asked", "running", "removed"}]]
      BY <3>1 DEF TypeOK, ClientTypes
    <3>3. losses < MaxLosses /\ losses' = losses + 1 /\ restarts' = restarts
      BY <1>26 DEF DisconnectMidAssign
    <3> QED BY <3>2, <3>3, MaxLossesAssumption, MaxRestartsAssumption DEF TypeOK, ClientTypes
  <2>3. HeadTypes' /\ HistTypes' /\ StartTypes' /\ NetTypes'
    BY <1>26 DEF TypeOK, HeadTypes, HistTypes, StartTypes, NetTypes, DisconnectMidAssign,
       headVars, histVars, startVars, netVars
  <2> QED BY <2>1, <2>2, <2>3 DEF TypeOK
<1>27. ASSUME NEW n \in Nodes, LeaveJob(n)
     PROVE TypeOK'
  <2>1. NodeTypes'
    <3>1. self' \in [Nodes -> SelfRecord]
      BY <1>27 DEF TypeOK, NodeTypes, SelfRecord, Statuses, LiveStatuses, JobIds, Phases,
         LeaveJob, headVars, histVars, startVars, netVars, boundVars
    <3>2. todo' \in [Nodes -> Seq(Calls)]
      BY <1>27, QueuedType DEF TypeOK, NodeTypes, Kinds, LeaveJob, headVars, histVars,
         startVars, netVars, boundVars
    <3>3. vm' \in [Nodes -> {"none", "up", "gone"}]
      BY <1>27 DEF TypeOK, NodeTypes, LeaveJob, KillVm, headVars, histVars, startVars,
         netVars, boundVars
    <3> QED BY <3>1, <3>2, <3>3 DEF NodeTypes
  <2>2. HeadTypes' /\ HistTypes' /\ StartTypes' /\ NetTypes' /\ ClientTypes'
    BY <1>27 DEF TypeOK, HeadTypes, HistTypes, StartTypes, NetTypes, ClientTypes,
       LeaveJob, headVars, histVars, startVars, netVars, boundVars
  <2> QED BY <2>1, <2>2 DEF TypeOK
<1>28. ASSUME NEW n \in Nodes, LeaveJobByReboot(n)
     PROVE TypeOK'
  <2>1. NodeTypes'
    <3>1. self' \in [Nodes -> SelfRecord]
      BY <1>28 DEF TypeOK, NodeTypes, SelfRecord, Statuses, LiveStatuses, JobIds, Phases,
         LeaveJobByReboot, headVars, histVars, startVars, netVars, boundVars
    <3>2. todo' \in [Nodes -> Seq(Calls)]
      BY <1>28, QueuedType DEF TypeOK, NodeTypes, Kinds, LeaveJobByReboot, headVars,
         histVars, startVars, netVars, boundVars
    <3>3. vm' \in [Nodes -> {"none", "up", "gone"}]
      BY <1>28 DEF TypeOK, NodeTypes, LeaveJobByReboot, KillVm, headVars, histVars,
         startVars, netVars, boundVars
    <3> QED BY <3>1, <3>2, <3>3 DEF NodeTypes
  <2>2. HeadTypes' /\ HistTypes' /\ StartTypes' /\ NetTypes' /\ ClientTypes'
    BY <1>28 DEF TypeOK, HeadTypes, HistTypes, StartTypes, NetTypes, ClientTypes,
       LeaveJobByReboot, headVars, histVars, startVars, netVars, boundVars
  <2> QED BY <2>1, <2>2 DEF TypeOK
<1>29. ASSUME NEW n \in Nodes, ExpireReservation(n)
     PROVE TypeOK'
  <2>1. NodeTypes'
    <3>1. self[n] \in SelfRecord
      BY DEF TypeOK, NodeTypes
    <3>2. self' = [self EXCEPT ![n] = [self[n] EXCEPT !.res = NoJob, !.void = TRUE]]
      BY <1>29 DEF ExpireReservation
    <3>3. self' \in [Nodes -> SelfRecord]
      BY <3>1, <3>2 DEF TypeOK, NodeTypes, SelfRecord, JobIds
    <3>4. todo' \in [Nodes -> Seq(Calls)]
      BY <1>29, QueuedType DEF TypeOK, NodeTypes, Kinds, ExpireReservation, headVars,
         histVars, startVars, netVars, boundVars
    <3>5. vm' \in [Nodes -> {"none", "up", "gone"}]
      BY <1>29 DEF TypeOK, NodeTypes, ExpireReservation, KillVm, headVars, histVars,
         startVars, netVars, boundVars
    <3> QED BY <3>1, <3>2, <3>3, <3>4, <3>5 DEF NodeTypes
  <2>2. ClientTypes'
    BY <1>29, MaxLossesAssumption, MaxRestartsAssumption DEF TypeOK, ClientTypes,
       ExpireReservation, headVars, histVars, startVars, netVars
  <2>3. HeadTypes' /\ HistTypes' /\ StartTypes' /\ NetTypes'
    BY <1>29 DEF TypeOK, HeadTypes, HistTypes, StartTypes, NetTypes, ExpireReservation,
       headVars, histVars, startVars, netVars
  <2> QED BY <2>1, <2>2, <2>3 DEF TypeOK
<1>30. ASSUME NEW n \in Nodes, ShutDownIdle(n)
     PROVE TypeOK'
  <2>1. NodeTypes'
    <3>1. self' \in [Nodes -> SelfRecord]
      BY <1>30 DEF TypeOK, NodeTypes, SelfRecord, Statuses, LiveStatuses, JobIds, Phases,
         ShutDownIdle, headVars, histVars, startVars, netVars, boundVars
    <3>2. todo' \in [Nodes -> Seq(Calls)]
      BY <1>30, QueuedType DEF TypeOK, NodeTypes, Kinds, ShutDownIdle, headVars, histVars,
         startVars, netVars, boundVars
    <3>3. vm' \in [Nodes -> {"none", "up", "gone"}]
      BY <1>30 DEF TypeOK, NodeTypes, ShutDownIdle, KillVm, headVars, histVars, startVars,
         netVars, boundVars
    <3> QED BY <3>1, <3>2, <3>3 DEF NodeTypes
  <2>2. HeadTypes' /\ HistTypes' /\ StartTypes' /\ NetTypes' /\ ClientTypes'
    BY <1>30 DEF TypeOK, HeadTypes, HistTypes, StartTypes, NetTypes, ClientTypes,
       ShutDownIdle, headVars, histVars, startVars, netVars, boundVars
  <2> QED BY <2>1, <2>2 DEF TypeOK
<1>31. ASSUME NEW j \in Jobs, NEW n \in Nodes, AssignJob(j, n)
     PROVE TypeOK'
  <2>1. NodeTypes'
    <3>1. self' \in [Nodes -> SelfRecord]
      BY <1>31 DEF TypeOK, NodeTypes, SelfRecord, Statuses, LiveStatuses, JobIds, Phases,
         AssignJob, headVars, histVars, startVars, netVars, boundVars
    <3>2. [kind |-> "start", job |-> j] \in Calls
      BY DEF Calls, Kinds, JobIds
    <3>3. Append(todo[n], [kind |-> "start", job |-> j]) \in Seq(Calls)
      BY <3>1, <3>2, AppendProperties DEF TypeOK, NodeTypes
    <3>4. todo' \in [Nodes -> Seq(Calls)]
      BY <1>31, <3>1, <3>2, <3>3 DEF TypeOK, NodeTypes, AssignJob
    <3>5. vm' \in [Nodes -> {"none", "up", "gone"}]
      BY <1>31 DEF TypeOK, NodeTypes, AssignJob, KillVm, headVars, histVars, startVars,
         netVars, boundVars
    <3> QED BY <3>1, <3>2, <3>3, <3>4, <3>5 DEF NodeTypes
  <2>2. ClientTypes'
    BY <1>31 DEF TypeOK, ClientTypes, NodeTypes, JobIds, AssignJob, headVars, histVars,
       startVars, netVars, boundVars, Accepts, Addressable, Awake
  <2>3. HeadTypes' /\ HistTypes' /\ StartTypes' /\ NetTypes'
    BY <1>31 DEF TypeOK, HeadTypes, HistTypes, StartTypes, NetTypes, AssignJob, headVars,
       histVars, startVars, netVars, boundVars
  <2> QED BY <2>1, <2>2, <2>3 DEF TypeOK
<1>32. ASSUME NEW j \in Jobs, NEW n \in Nodes, RefuseJob(j, n)
     PROVE TypeOK'
  <2>1. ClientTypes'
    BY <1>32 DEF TypeOK, ClientTypes, NodeTypes, JobIds, RefuseJob, headVars, histVars,
       startVars, nodeVars, netVars, boundVars, Accepts, Addressable, Awake
  <2>2. HeadTypes' /\ HistTypes' /\ StartTypes' /\ NodeTypes' /\ NetTypes'
    BY <1>32 DEF TypeOK, HeadTypes, HistTypes, StartTypes, NodeTypes, NetTypes, RefuseJob,
       headVars, histVars, startVars, nodeVars, netVars, boundVars
  <2> QED BY <2>1, <2>2 DEF TypeOK
<1>33. ASSUME UNCHANGED vars PROVE TypeOK'
  BY <1>33 DEF TypeOK, HeadTypes, HistTypes, StartTypes, NodeTypes, NetTypes, ClientTypes,
     vars, headVars, histVars, startVars, nodeVars, netVars, boundVars
<1> QED
  BY <1>1, <1>2, <1>3, <1>4, <1>5, <1>6, <1>7, <1>8, <1>9, <1>10, <1>11, <1>12, <1>13,
     <1>14, <1>15, <1>16, <1>17, <1>18, <1>19, <1>20, <1>21, <1>22, <1>23, <1>24, <1>25,
     <1>26, <1>27, <1>28, <1>29, <1>30, <1>31, <1>32, <1>33 DEF Next, StartStep, HeadStep,
     PushStep, JobStep

-----------------------------------------------------------------------------
(* What the head and the history db hold about nodes and jobs. *)
recordVars == <<headUp, nodes, jobs, given, toBoot, paused, hist, histJobs>>

(* A step that leaves those alone preserves the invariant. *)
LEMMA HeadUnchanged ==
    ASSUME HeadInv, UNCHANGED recordVars
    PROVE  HeadInv'
BY DEF HeadInv, recordVars, HistoryInStep, DownIsEmpty, EndedJobsHoldNothing, HistEndedJobsHoldNothing, ReservedAsAnswered, HistReservedAsAnswered, BootsAsAnswered, NewJobsUnanswered, PausedMeansIdle

(* update_node keeps the scope, and clears a reservation or keeps it. *)
LEMMA MergedShape ==
    ASSUME TypeOK, NEW n \in Nodes, NEW status, NEW cur, NEW res \in {NoJob, Keep}
    PROVE  /\ MergedNode(n, status, cur, res).scope = nodes[n].scope
           /\ MergedNode(n, status, cur, res).res \in {nodes[n].res, NoJob}
<1>1. nodes[n] \in NodeRecord
  BY DEF TypeOK, HeadTypes
<1>2. MergedField(nodes[n].res, res) \in {nodes[n].res, NoJob}
  BY DEF MergedField
<1> QED BY <1>1, <1>2 DEF MergedNode, NodeRecord

(* While the head is up, the jobs table says what the head knows. *)
LEMMA HistoryJobs ==
    ASSUME HeadInv, headUp, NEW j \in Jobs
    PROVE  histJobs[j].status = jobs[j] /\ histJobs[j].given = given[j]
<1>1. histJobs[j] = [status |-> jobs[j], given |-> given[j]]
  BY DEF HeadInv, HistoryInStep
<1> QED BY <1>1

(* A write of one record that keeps its scope and reserves nothing new, made in the
   memory of the head and in the history db alike, preserves the invariant. *)
LEMMA OneNode ==
    ASSUME TypeOK, HeadInv, headUp, NEW n \in Nodes, NEW x \in NodeRecord,
           x.scope = nodes[n].scope, x.res \in {nodes[n].res, NoJob},
           nodes' = [nodes EXCEPT ![n] = x], hist' = [hist EXCEPT ![n] = x],
           UNCHANGED <<headUp, jobs, given, toBoot, paused, histJobs>>
    PROVE  HeadInv'
<1>1. nodes'[n] = x /\ hist'[n] = x
  BY DEF TypeOK, HeadTypes, HistTypes
<1>2. \A m \in Nodes : m # n => nodes'[m] = nodes[m] /\ hist'[m] = hist[m]
  BY DEF TypeOK, HeadTypes, HistTypes
<1>3. HistoryInStep'
  BY <1>1, <1>2 DEF HeadInv, HistoryInStep
<1>4. EndedJobsHoldNothing'
  BY <1>1, <1>2 DEF HeadInv, EndedJobsHoldNothing
<1>5. HistEndedJobsHoldNothing'
  <2> SUFFICES ASSUME NEW m \in Nodes, hist'[m].status # "DELETED", hist'[m].scope = NoJob,
                      hist'[m].res # NoJob
               PROVE  histJobs'[hist'[m].res].status = "RUNNING"
    BY DEF HistEndedJobsHoldNothing
  <2>1. CASE m # n
    BY <2>1, <1>2 DEF HeadInv, HistEndedJobsHoldNothing
  <2>2. CASE m = n
    <3>1. x.res = nodes[n].res /\ nodes[n].scope = NoJob /\ x.res \in Jobs
      BY <2>2, <1>1 DEF NodeRecord, JobIds
    <3>2. jobs[x.res] = "RUNNING"
      BY <3>1, <2>2, <1>1 DEF HeadInv, EndedJobsHoldNothing
    <3>3. histJobs[x.res].status = "RUNNING"
      BY <3>1, <3>2, HistoryJobs
    <3> QED BY <3>3, <2>2, <1>1
  <2> QED BY <2>1, <2>2
<1>6. ReservedAsAnswered'
  <2> SUFFICES ASSUME NEW m \in Nodes, NEW j \in Jobs, j \in {nodes'[m].res, nodes'[m].scope}
               PROVE  m \in given[j]
    BY DEF ReservedAsAnswered
  <2>1. j \in {nodes[m].res, nodes[m].scope}
    BY <1>1, <1>2, NoJobAssumption
  <2> QED BY <2>1 DEF HeadInv, ReservedAsAnswered
<1>7. HistReservedAsAnswered'
  <2> SUFFICES ASSUME NEW m \in Nodes, NEW j \in Jobs, j \in {hist'[m].res, hist'[m].scope}
               PROVE  m \in histJobs[j].given
    BY DEF HistReservedAsAnswered
  <2>1. CASE m # n
    BY <2>1, <1>2 DEF HeadInv, HistReservedAsAnswered
  <2>2. CASE m = n
    <3>1. j \in {nodes[n].res, nodes[n].scope}
      BY <2>2, <1>1, NoJobAssumption
    <3>2. n \in given[j]
      BY <3>1 DEF HeadInv, ReservedAsAnswered
    <3> QED BY <3>2, <2>2, HistoryJobs
  <2> QED BY <2>1, <2>2
<1>8. DownIsEmpty' /\ BootsAsAnswered' /\ NewJobsUnanswered' /\ PausedMeansIdle'
  BY DEF HeadInv, DownIsEmpty, BootsAsAnswered, NewJobsUnanswered, PausedMeansIdle
<1> QED BY <1>3, <1>4, <1>5, <1>6, <1>7, <1>8 DEF HeadInv

(* Every step preserves the invariant of the head and its history. *)
LEMMA HeadStepPreserves ==
    ASSUME TypeOK, PushesReserveNothing, HeadInv, [Next]_vars
    PROVE  HeadInv'
<1>1. ASSUME NEW j \in Jobs, NEW a \in Attempts, SelectNodes(j, a)
     PROVE HeadInv'
  BY <1>1, HeadUnchanged DEF recordVars, SelectNodes, headVars, histVars
<1>2. ASSUME NEW j \in Jobs, NEW a \in Attempts, ReplayStart(j, a)
     PROVE HeadInv'
  BY <1>2, HeadUnchanged DEF recordVars, ReplayStart, headVars, histVars
<1>3. ASSUME NEW j \in Jobs, NEW a \in Attempts, AdmitJob(j, a)
     PROVE HeadInv'
  <2> DEFINE ready == chosen[j][a].ready
             response == chosen[j][a].ready \cup chosen[j][a].planned
             reserved == [n \in Nodes |-> IF n \in ready
                                          THEN [nodes[n] EXCEPT !.res = j] ELSE nodes[n]]
  <2>1. /\ headUp /\ ~paused /\ jobs[j] = "none" /\ UNCHANGED <<headUp, paused>>
        /\ \A n \in ready : Selectable(n)
        /\ nodes' = reserved
        /\ hist' = [n \in Nodes |-> IF n \in ready THEN reserved[n] ELSE hist[n]]
        /\ jobs' = [jobs EXCEPT ![j] = "RUNNING"]
        /\ given' = [given EXCEPT ![j] = response]
        /\ histJobs' = [histJobs EXCEPT ![j] = [status |-> "RUNNING", given |-> response]]
        /\ toBoot' = toBoot \cup (chosen[j][a].planned \X {j})
    BY <1>3 DEF AdmitJob, Admissible, Replayed
  <2>2. ready \subseteq Nodes /\ chosen[j][a].planned \subseteq Nodes
    BY DEF TypeOK, StartTypes
  <2>3. histJobs[j].status = "none" /\ given[j] = {}
    BY <2>1, HistoryJobs DEF HeadInv, NewJobsUnanswered
  <2>4. /\ \A n \in Nodes : nodes'[n].scope = nodes[n].scope
        /\ \A n \in Nodes : n \in ready => nodes'[n].res = j /\ hist'[n] = nodes'[n]
                                           /\ nodes[n].scope = NoJob
        /\ \A n \in Nodes : n \notin ready => nodes'[n] = nodes[n] /\ hist'[n] = hist[n]
    BY <2>1 DEF TypeOK, HeadTypes, NodeRecord, Selectable
  <2>5. /\ jobs'[j] = "RUNNING" /\ given'[j] = response
        /\ histJobs'[j] = [status |-> "RUNNING", given |-> response]
        /\ \A k \in Jobs : k # j => /\ jobs'[k] = jobs[k] /\ given'[k] = given[k]
                                    /\ histJobs'[k] = histJobs[k]
    BY <2>1 DEF TypeOK, HeadTypes, HistTypes
  <2>6. HistoryInStep'
    BY <2>1, <2>4, <2>5 DEF HeadInv, HistoryInStep
  <2>7. EndedJobsHoldNothing' /\ HistEndedJobsHoldNothing'
    <3>1. \A n \in Nodes : nodes[n].res \in JobIds /\ hist[n].res \in JobIds
      BY DEF TypeOK, HeadTypes, HistTypes, NodeRecord
    <3> QED BY <2>4, <2>5, <3>1
            DEF HeadInv, EndedJobsHoldNothing, HistEndedJobsHoldNothing, JobIds
  <2>8. ReservedAsAnswered' /\ HistReservedAsAnswered'
    <3>1. \A n \in Nodes, k \in Jobs : n \in given[k] => n \in given'[k]
      BY <2>3, <2>5
    <3>2. \A n \in Nodes, k \in Jobs : n \in histJobs[k].given => n \in histJobs'[k].given
      BY <2>1, <2>3, <2>5 DEF HeadInv, NewJobsUnanswered
    <3>3. \A n \in ready : n \in given'[j] /\ n \in histJobs'[j].given
      BY <2>5
    <3>4. \A n \in ready : nodes[n].scope = NoJob /\ NoJob \notin Jobs
      BY <2>2, <2>4, NoJobAssumption
    <3> QED BY <2>1, <2>4, <3>1, <3>2, <3>3, <3>4
            DEF HeadInv, ReservedAsAnswered, HistReservedAsAnswered
  <2>9. BootsAsAnswered' /\ NewJobsUnanswered'
    <3>1. ASSUME NEW n \in Nodes, NEW k \in Jobs, <<n, k>> \in toBoot' PROVE n \in given'[k]
      <4>1. CASE <<n, k>> \in toBoot
        BY <4>1, <2>3, <2>5 DEF HeadInv, BootsAsAnswered
      <4>2. CASE n \in chosen[j][a].planned /\ k = j
        BY <4>2, <2>5
      <4> QED BY <2>1, <3>1, <4>1, <4>2
    <3> QED BY <3>1, <2>5 DEF HeadInv, BootsAsAnswered, NewJobsUnanswered
  <2>10. DownIsEmpty' /\ PausedMeansIdle'
    BY <2>1 DEF DownIsEmpty, PausedMeansIdle
  <2> QED BY <2>6, <2>7, <2>8, <2>9, <2>10 DEF HeadInv
<1>4. ASSUME NEW j \in Jobs, NEW a \in Attempts, RefuseStart(j, a)
     PROVE HeadInv'
  BY <1>4, HeadUnchanged DEF recordVars, RefuseStart, headVars, histVars
<1>5. ASSUME PauseAdmission
     PROVE HeadInv'
  BY <1>5 DEF HeadInv, PauseAdmission, histVars, HistoryInStep, DownIsEmpty, EndedJobsHoldNothing,
     HistEndedJobsHoldNothing, ReservedAsAnswered, HistReservedAsAnswered,
     BootsAsAnswered, NewJobsUnanswered, PausedMeansIdle
<1>6. ASSUME ResumeAdmission
     PROVE HeadInv'
  BY <1>6 DEF HeadInv, ResumeAdmission, histVars, HistoryInStep, DownIsEmpty, EndedJobsHoldNothing,
     HistEndedJobsHoldNothing, ReservedAsAnswered, HistReservedAsAnswered,
     BootsAsAnswered, NewJobsUnanswered, PausedMeansIdle
<1>7. ASSUME CrashHead
     PROVE HeadInv'
  <2>1. /\ ~headUp' /\ toBoot' = {} /\ ~paused' /\ UNCHANGED <<hist, histJobs>>
        /\ \A n \in Nodes : nodes'[n] = Absent
        /\ \A j \in Jobs : jobs'[j] = "none"
    BY <1>7 DEF CrashHead, histVars
  <2> QED BY <2>1 DEF HeadInv, Absent, HistoryInStep, DownIsEmpty, EndedJobsHoldNothing,
     HistEndedJobsHoldNothing, ReservedAsAnswered, HistReservedAsAnswered,
     BootsAsAnswered, NewJobsUnanswered, PausedMeansIdle
<1>8. ASSUME RestartHead
     PROVE HeadInv'
  <2>1. /\ ~headUp /\ headUp' /\ UNCHANGED <<toBoot, paused, hist, histJobs>>
        /\ \A n \in Nodes : nodes'[n] = IF hist[n].status = "DELETED" THEN Absent ELSE hist[n]
        /\ \A j \in Jobs : jobs'[j] = histJobs[j].status /\ given'[j] = histJobs[j].given
    BY <1>8 DEF RestartHead, histVars
  <2>2. toBoot = {} /\ ~paused
    BY <2>1 DEF HeadInv, DownIsEmpty
  <2>3. HistoryInStep'
    <3>1. \A j \in Jobs : histJobs[j] = [status |-> histJobs[j].status,
                                         given |-> histJobs[j].given]
      BY DEF TypeOK, HistTypes
    <3> QED BY <2>1, <3>1 DEF HistoryInStep
  <2>4. EndedJobsHoldNothing'
    <3>1. \A n \in Nodes : hist[n].res \in JobIds
      BY DEF TypeOK, HistTypes, NodeRecord
    <3> QED BY <2>1, <3>1 DEF HeadInv, HistEndedJobsHoldNothing, EndedJobsHoldNothing,
               Absent, JobIds
  <2>5. ReservedAsAnswered'
    BY <2>1, NoJobAssumption DEF HeadInv, HistReservedAsAnswered, ReservedAsAnswered, Absent
  <2> QED BY <2>1, <2>2, <2>3, <2>4, <2>5 DEF HeadInv, DownIsEmpty, HistEndedJobsHoldNothing,
     HistReservedAsAnswered, BootsAsAnswered, NewJobsUnanswered, PausedMeansIdle
<1>9. ASSUME NEW n \in Nodes, NEW j \in Jobs, StartNode(n, j)
     PROVE HeadInv'
  <2> DEFINE booting == [status |-> MergedStatus(nodes[n].status, "BOOTING"),
                         cur |-> NoJob, res |-> j, scope |-> j]
  <2>1. /\ headUp /\ <<n, j>> \in toBoot /\ toBoot' \subseteq toBoot
        /\ nodes' = [nodes EXCEPT ![n] = booting] /\ hist' = [hist EXCEPT ![n] = booting]
        /\ UNCHANGED <<headUp, jobs, given, paused, histJobs>>
    BY <1>9 DEF StartNode
  <2>2. nodes'[n] = booting /\ hist'[n] = booting
    BY <2>1 DEF TypeOK, HeadTypes, HistTypes
  <2>3. \A m \in Nodes : m # n => nodes'[m] = nodes[m] /\ hist'[m] = hist[m]
    BY <2>1 DEF TypeOK, HeadTypes, HistTypes
  <2>4. n \in given[j] /\ n \in histJobs[j].given
    BY <2>1, HistoryJobs DEF HeadInv, BootsAsAnswered
  <2>5. HistoryInStep'
    BY <2>1, <2>2, <2>3 DEF HeadInv, HistoryInStep
  <2>6. EndedJobsHoldNothing' /\ HistEndedJobsHoldNothing'
    BY <2>1, <2>2, <2>3, NoJobAssumption
       DEF HeadInv, EndedJobsHoldNothing, HistEndedJobsHoldNothing
  <2>7. ReservedAsAnswered' /\ HistReservedAsAnswered'
    BY <2>1, <2>2, <2>3, <2>4 DEF HeadInv, ReservedAsAnswered, HistReservedAsAnswered
  <2>8. DownIsEmpty' /\ BootsAsAnswered' /\ NewJobsUnanswered' /\ PausedMeansIdle'
    BY <2>1 DEF HeadInv, DownIsEmpty, BootsAsAnswered, NewJobsUnanswered, PausedMeansIdle
  <2> QED BY <2>5, <2>6, <2>7, <2>8 DEF HeadInv
<1>10. ASSUME NEW n \in Nodes, NEW j \in Jobs, FailNode(n, j)
     PROVE HeadInv'
  <2>1. /\ headUp /\ nodes' = [nodes EXCEPT ![n] = MergedNode(n, "FAILED", Keep, Keep)]
        /\ hist' = [hist EXCEPT ![n] = MergedNode(n, "FAILED", Keep, Keep)]
        /\ UNCHANGED <<headUp, jobs, given, toBoot, paused, histJobs>>
    BY <1>10 DEF FailNode
  <2>2. MergedNode(n, "FAILED", Keep, Keep) \in NodeRecord
    BY TerminalType DEF TypeOK
  <2> QED BY <2>1, <2>2, MergedShape, OneNode
<1>11. ASSUME NEW j \in Jobs, NEW s \in {"COMPLETED", "FAILED"}, EndJob(j, s)
     PROVE HeadInv'
  <2>1. /\ headUp /\ jobs[j] # "none" /\ UNCHANGED <<headUp, given, toBoot, paused>>
        /\ jobs' = [jobs EXCEPT ![j] = AppliedStatus(j, s)]
        /\ histJobs' = [histJobs EXCEPT ![j].status = AppliedStatus(j, s)]
        /\ nodes' = Released(j)
        /\ hist' = [n \in Nodes |-> IF nodes[n].res = j THEN Released(j)[n] ELSE hist[n]]
    BY <1>11 DEF EndJob
  <2>2. AppliedStatus(j, s) \notin {"none", "RUNNING"}
    BY <2>1 DEF AppliedStatus, TypeOK, HeadTypes, JobStatuses
  <2>3. /\ jobs'[j] = AppliedStatus(j, s)
        /\ \A i \in Jobs : i # j => jobs'[i] = jobs[i] /\ histJobs'[i] = histJobs[i]
        /\ histJobs'[j].status = AppliedStatus(j, s)
        /\ \A i \in Jobs : histJobs'[i].given = histJobs[i].given
        /\ histJobs'[j] = [status |-> AppliedStatus(j, s), given |-> histJobs[j].given]
    BY <2>1 DEF TypeOK, HeadTypes, HistTypes
  <2>4. \A n \in Nodes : nodes[n].res = j =>
            /\ nodes'[n].scope = nodes[n].scope /\ nodes'[n].res = NoJob
            /\ hist'[n] = nodes'[n]
    BY <2>1 DEF Released, TypeOK, HeadTypes, NodeRecord
  <2>5. \A n \in Nodes : nodes[n].res # j => nodes'[n] = nodes[n] /\ hist'[n] = hist[n]
    BY <2>1 DEF Released
  <2>6. HistoryInStep'
    <3>1. histJobs'[j] = [status |-> jobs'[j], given |-> given'[j]]
      BY <2>1, <2>3, HistoryJobs
    <3>2. \A i \in Jobs : histJobs'[i] = [status |-> jobs'[i], given |-> given'[i]]
      BY <2>1, <2>3, <3>1 DEF HeadInv, HistoryInStep
    <3> QED BY <2>1, <3>2, <2>4, <2>5 DEF HeadInv, HistoryInStep
  <2>7. EndedJobsHoldNothing'
    <3>1. \A n \in Nodes : nodes[n].res \in JobIds
      BY DEF TypeOK, HeadTypes, NodeRecord
    <3> QED BY <2>3, <2>4, <2>5, <3>1 DEF HeadInv, EndedJobsHoldNothing, JobIds
  <2>8. HistEndedJobsHoldNothing'
    <3> SUFFICES ASSUME NEW n \in Nodes, hist'[n].status # "DELETED", hist'[n].scope = NoJob,
                        hist'[n].res # NoJob
                 PROVE  histJobs'[hist'[n].res].status = "RUNNING"
      BY DEF HistEndedJobsHoldNothing
    <3>1. nodes[n].res # j /\ hist'[n] = hist[n]
      BY <2>4, <2>5
    <3>2. hist[n] = nodes[n]
      BY <2>1, <3>1 DEF HeadInv, HistoryInStep
    <3>3. hist[n].res \in Jobs
      BY <3>1 DEF TypeOK, HistTypes, NodeRecord, JobIds
    <3> QED BY <2>3, <3>1, <3>2, <3>3 DEF HeadInv, HistEndedJobsHoldNothing
  <2>9. ReservedAsAnswered' /\ HistReservedAsAnswered'
    <3>1. \A n \in Nodes, i \in Jobs : i \in {nodes'[n].res, nodes'[n].scope} =>
              i \in {nodes[n].res, nodes[n].scope}
      BY <2>4, <2>5, NoJobAssumption
    <3>2. ReservedAsAnswered'
      BY <2>1, <3>1 DEF HeadInv, ReservedAsAnswered
    <3>3. ASSUME NEW n \in Nodes, NEW i \in Jobs, i \in {hist'[n].res, hist'[n].scope}
          PROVE  n \in histJobs'[i].given
      <4>1. CASE nodes[n].res = j
        <5>1. n \in given[i]
          BY <2>1, <2>4, <3>1, <3>3, <4>1 DEF HeadInv, ReservedAsAnswered
        <5> QED BY <2>1, <2>3, <5>1, HistoryJobs
      <4>2. CASE nodes[n].res # j
        BY <2>3, <2>5, <3>3, <4>2 DEF HeadInv, HistReservedAsAnswered
      <4> QED BY <4>1, <4>2
    <3> QED BY <3>2, <3>3 DEF HistReservedAsAnswered
  <2>10. NewJobsUnanswered'
    BY <2>2, <2>3 DEF HeadInv, NewJobsUnanswered
  <2>11. PausedMeansIdle'
    BY <2>1, <2>2, <2>3 DEF HeadInv, PausedMeansIdle
  <2>12. DownIsEmpty' /\ BootsAsAnswered'
    BY <2>1 DEF HeadInv, DownIsEmpty, BootsAsAnswered
  <2> QED BY <2>6, <2>7, <2>8, <2>9, <2>10, <2>11, <2>12 DEF HeadInv
<1>12. ASSUME NEW n \in Nodes, BootFails(n)
     PROVE HeadInv'
  <2>1. /\ headUp /\ nodes' = [nodes EXCEPT ![n] = MergedNode(n, "FAILED", Keep, Keep)]
        /\ hist' = [hist EXCEPT ![n] = MergedNode(n, "FAILED", Keep, Keep)]
        /\ UNCHANGED <<headUp, jobs, given, toBoot, paused, histJobs>>
    BY <1>12 DEF BootFails
  <2>2. MergedNode(n, "FAILED", Keep, Keep) \in NodeRecord
    BY TerminalType DEF TypeOK
  <2> QED BY <2>1, <2>2, MergedShape, OneNode
<1>13. ASSUME NEW n \in Nodes, DeleteNode(n)
     PROVE HeadInv'
  <2>1. /\ headUp /\ nodes' = [nodes EXCEPT ![n] = MergedNode(n, "DELETED", Keep, Keep)]
        /\ hist' = [hist EXCEPT ![n] = MergedNode(n, "DELETED", Keep, Keep)]
        /\ UNCHANGED <<headUp, jobs, given, toBoot, paused, histJobs>>
    BY <1>13 DEF DeleteNode
  <2>2. MergedNode(n, "DELETED", Keep, Keep) \in NodeRecord
    BY TerminalType DEF TypeOK
  <2> QED BY <2>1, <2>2, MergedShape, OneNode
<1>14. ASSUME NEW n \in Nodes, GoStale(n)
     PROVE HeadInv'
  BY <1>14, HeadUnchanged DEF recordVars, GoStale, histVars
<1>15. ASSUME NEW n \in Nodes, SuspectNode(n)
     PROVE HeadInv'
  BY <1>15, HeadUnchanged DEF recordVars, SuspectNode, histVars
<1>16. ASSUME NEW n \in Nodes, ReapNode(n)
     PROVE HeadInv'
  <2>1. /\ headUp /\ nodes' = [nodes EXCEPT ![n] = MergedNode(n, "DELETED", Keep, Keep)]
        /\ hist' = [hist EXCEPT ![n] = MergedNode(n, "DELETED", Keep, Keep)]
        /\ UNCHANGED <<headUp, jobs, given, toBoot, paused, histJobs>>
    BY <1>16 DEF ReapNode
  <2>2. MergedNode(n, "DELETED", Keep, Keep) \in NodeRecord
    BY TerminalType DEF TypeOK
  <2> QED BY <2>1, <2>2, MergedShape, OneNode
<1>17. ASSUME NEW n \in Nodes, LoopPush(n)
     PROVE HeadInv'
  BY <1>17, HeadUnchanged DEF recordVars, LoopPush, headVars, histVars
<1>18. ASSUME NEW n \in Nodes, SendPush(n)
     PROVE HeadInv'
  BY <1>18, HeadUnchanged DEF recordVars, SendPush, headVars, histVars
<1>19. ASSUME NEW n \in Nodes, SendExpire(n)
     PROVE HeadInv'
  BY <1>19, HeadUnchanged DEF recordVars, SendExpire, headVars, histVars
<1>20. ASSUME NEW n \in Nodes, HandlePush(n)
     PROVE HeadInv'
  <2> DEFINE Merged(b) == MergedNode(n, b.status, b.cur, b.res)
             Over(b) == ScopeFinished(Merged(b))
             After(b) == IF Over(b) THEN [Merged(b) EXCEPT !.status = "DELETED"] ELSE Merged(b)
  <2>1. PICK b \in wire[n] :
            /\ nodes' = [nodes EXCEPT ![n] = After(b)]
            /\ hist' = IF Over(b) \/ DurableChanged(n, b.status, b.cur, b.res)
                       THEN [hist EXCEPT ![n] = After(b)] ELSE hist
    BY <1>20 DEF HandlePush
  <2>2. headUp /\ UNCHANGED <<headUp, jobs, given, toBoot, paused, histJobs>>
    BY <1>20 DEF HandlePush
  <2>3. b.res \in {NoJob, Keep}
    BY <2>1 DEF PushesReserveNothing, NetTypes
  <2>4. Merged(b) \in NodeRecord /\ After(b) \in NodeRecord
    BY <2>1, HandledType DEF TypeOK
  <2>5. Merged(b).scope = nodes[n].scope /\ Merged(b).res \in {nodes[n].res, NoJob}
    BY <2>3, MergedShape
  <2>6. After(b).scope = nodes[n].scope /\ After(b).res \in {nodes[n].res, NoJob}
    BY <2>4, <2>5 DEF NodeRecord
  <2>7. CASE Over(b) \/ DurableChanged(n, b.status, b.cur, b.res)
    <3>1. hist' = [hist EXCEPT ![n] = After(b)]
      BY <2>1, <2>7
    <3> HIDE DEF After, Over, Merged
    <3> QED BY <2>1, <2>2, <2>4, <2>6, <3>1, OneNode
  <2>8. CASE ~Over(b) /\ ~DurableChanged(n, b.status, b.cur, b.res)
    <3>1. After(b) = Merged(b) /\ hist' = hist
      BY <2>1, <2>8
    <3>2. /\ MergedStatus(nodes[n].status, b.status) = nodes[n].status
          /\ b.cur = Keep /\ b.res = Keep
      BY <2>8 DEF DurableChanged
    <3>3. nodes[n] \in NodeRecord
      BY DEF TypeOK, HeadTypes
    <3>4. Merged(b) = nodes[n]
      BY <3>2, <3>3 DEF MergedNode, MergedField, NodeRecord
    <3>5. nodes' = nodes
      BY <2>1, <3>1, <3>4 DEF TypeOK, HeadTypes
    <3> QED BY <2>2, <3>1, <3>5, HeadUnchanged DEF recordVars
  <2> QED BY <2>7, <2>8
<1>21. ASSUME NEW n \in Nodes, ReceiveView(n)
     PROVE HeadInv'
  BY <1>21, HeadUnchanged DEF recordVars, ReceiveView, headVars, histVars
<1>22. ASSUME NEW n \in Nodes, LosePush(n)
     PROVE HeadInv'
  BY <1>22, HeadUnchanged DEF recordVars, LosePush, headVars, histVars
<1>23. ASSUME NEW n \in Nodes, FinishBoot(n)
     PROVE HeadInv'
  BY <1>23, HeadUnchanged DEF recordVars, FinishBoot, headVars, histVars
<1>24. ASSUME NEW n \in Nodes, ExecuteJob(n)
     PROVE HeadInv'
  BY <1>24, HeadUnchanged DEF recordVars, ExecuteJob, headVars, histVars
<1>25. ASSUME NEW n \in Nodes, NoCompatibleWorker(n)
     PROVE HeadInv'
  BY <1>25, HeadUnchanged DEF recordVars, NoCompatibleWorker, headVars, histVars
<1>26. ASSUME NEW n \in Nodes, DisconnectMidAssign(n)
     PROVE HeadInv'
  BY <1>26, HeadUnchanged DEF recordVars, DisconnectMidAssign, headVars, histVars
<1>27. ASSUME NEW n \in Nodes, LeaveJob(n)
     PROVE HeadInv'
  BY <1>27, HeadUnchanged DEF recordVars, LeaveJob, headVars, histVars
<1>28. ASSUME NEW n \in Nodes, LeaveJobByReboot(n)
     PROVE HeadInv'
  BY <1>28, HeadUnchanged DEF recordVars, LeaveJobByReboot, headVars, histVars
<1>29. ASSUME NEW n \in Nodes, ExpireReservation(n)
     PROVE HeadInv'
  BY <1>29, HeadUnchanged DEF recordVars, ExpireReservation, headVars, histVars
<1>30. ASSUME NEW n \in Nodes, ShutDownIdle(n)
     PROVE HeadInv'
  BY <1>30, HeadUnchanged DEF recordVars, ShutDownIdle, headVars, histVars
<1>31. ASSUME NEW j \in Jobs, NEW n \in Nodes, AssignJob(j, n)
     PROVE HeadInv'
  BY <1>31, HeadUnchanged DEF recordVars, AssignJob, headVars, histVars
<1>32. ASSUME NEW j \in Jobs, NEW n \in Nodes, RefuseJob(j, n)
     PROVE HeadInv'
  BY <1>32, HeadUnchanged DEF recordVars, RefuseJob, headVars, histVars
<1>33. ASSUME UNCHANGED vars PROVE HeadInv'
  BY <1>33, HeadUnchanged DEF vars, recordVars, headVars, histVars
<1> QED
  BY <1>1, <1>2, <1>3, <1>4, <1>5, <1>6, <1>7, <1>8, <1>9, <1>10, <1>11, <1>12, <1>13,
     <1>14, <1>15, <1>16, <1>17, <1>18, <1>19, <1>20, <1>21, <1>22, <1>23, <1>24, <1>25,
     <1>26, <1>27, <1>28, <1>29, <1>30, <1>31, <1>32, <1>33 DEF Next, StartStep, HeadStep,
     PushStep, JobStep

(* No step of a node puts a reservation into a push. *)
LEMMA PushesStep ==
    ASSUME TypeOK, PushesReserveNothing, [Next]_vars
    PROVE  PushesReserveNothing'
<1>1. ASSUME NEW j \in Jobs, NEW a \in Attempts, SelectNodes(j, a)
     PROVE PushesReserveNothing'
  BY <1>1 DEF PushesReserveNothing, netVars, SelectNodes
<1>2. ASSUME NEW j \in Jobs, NEW a \in Attempts, ReplayStart(j, a)
     PROVE PushesReserveNothing'
  BY <1>2 DEF PushesReserveNothing, netVars, ReplayStart
<1>3. ASSUME NEW j \in Jobs, NEW a \in Attempts, AdmitJob(j, a)
     PROVE PushesReserveNothing'
  BY <1>3 DEF PushesReserveNothing, netVars, AdmitJob
<1>4. ASSUME NEW j \in Jobs, NEW a \in Attempts, RefuseStart(j, a)
     PROVE PushesReserveNothing'
  BY <1>4 DEF PushesReserveNothing, netVars, RefuseStart
<1>5. ASSUME PauseAdmission
     PROVE PushesReserveNothing'
  BY <1>5 DEF PushesReserveNothing, netVars, PauseAdmission
<1>6. ASSUME ResumeAdmission
     PROVE PushesReserveNothing'
  BY <1>6 DEF PushesReserveNothing, netVars, ResumeAdmission
<1>7. ASSUME CrashHead
     PROVE PushesReserveNothing'
  BY <1>7 DEF PushesReserveNothing, netVars, CrashHead
<1>8. ASSUME RestartHead
     PROVE PushesReserveNothing'
  BY <1>8 DEF PushesReserveNothing, netVars, RestartHead
<1>9. ASSUME NEW n \in Nodes, NEW j \in Jobs, StartNode(n, j)
     PROVE PushesReserveNothing'
  BY <1>9 DEF PushesReserveNothing, netVars, StartNode
<1>10. ASSUME NEW n \in Nodes, NEW j \in Jobs, FailNode(n, j)
     PROVE PushesReserveNothing'
  BY <1>10 DEF PushesReserveNothing, netVars, FailNode
<1>11. ASSUME NEW j \in Jobs, NEW s \in {"COMPLETED", "FAILED"}, EndJob(j, s)
     PROVE PushesReserveNothing'
  BY <1>11 DEF PushesReserveNothing, netVars, EndJob
<1>12. ASSUME NEW n \in Nodes, BootFails(n)
     PROVE PushesReserveNothing'
  <2>1. wire' = [wire EXCEPT ![n] = {}]
    BY <1>12 DEF BootFails, KillVm
  <2> QED BY <2>1 DEF TypeOK, NetTypes, PushesReserveNothing
<1>13. ASSUME NEW n \in Nodes, DeleteNode(n)
     PROVE PushesReserveNothing'
  <2>1. wire' = [wire EXCEPT ![n] = {}]
    BY <1>13 DEF DeleteNode, KillVm
  <2> QED BY <2>1 DEF TypeOK, NetTypes, PushesReserveNothing
<1>14. ASSUME NEW n \in Nodes, GoStale(n)
     PROVE PushesReserveNothing'
  BY <1>14 DEF PushesReserveNothing, netVars, GoStale
<1>15. ASSUME NEW n \in Nodes, SuspectNode(n)
     PROVE PushesReserveNothing'
  BY <1>15 DEF PushesReserveNothing, netVars, SuspectNode
<1>16. ASSUME NEW n \in Nodes, ReapNode(n)
     PROVE PushesReserveNothing'
  <2>1. wire' = [wire EXCEPT ![n] = {}]
    BY <1>16 DEF ReapNode, KillVm
  <2> QED BY <2>1 DEF TypeOK, NetTypes, PushesReserveNothing
<1>17. ASSUME NEW n \in Nodes, LoopPush(n)
     PROVE PushesReserveNothing'
  <2>1. wire' = [wire EXCEPT ![n] = {Body(n, Call("loop"))}]
    BY <1>17 DEF LoopPush
  <2>2. Body(n, Call("loop")).res \in {NoJob, Keep}
    BY DEF Body
  <2> HIDE DEF Body
  <2> QED BY <2>1, <2>2 DEF TypeOK, NetTypes, PushesReserveNothing
<1>18. ASSUME NEW n \in Nodes, SendPush(n)
     PROVE PushesReserveNothing'
  <2>1. wire' = [wire EXCEPT ![n] = {Body(n, Head(todo[n]))}]
    BY <1>18 DEF SendPush
  <2>2. Body(n, Head(todo[n])).res \in {NoJob, Keep}
    BY DEF Body
  <2> HIDE DEF Body
  <2> QED BY <2>1, <2>2 DEF TypeOK, NetTypes, PushesReserveNothing
<1>19. ASSUME NEW n \in Nodes, SendExpire(n)
     PROVE PushesReserveNothing'
  <2>1. wire' = [wire EXCEPT ![n] = {Body(n, Call("expire"))}]
    BY <1>19 DEF SendExpire
  <2>2. Body(n, Call("expire")).res \in {NoJob, Keep}
    BY DEF Body
  <2> HIDE DEF Body
  <2> QED BY <2>1, <2>2 DEF TypeOK, NetTypes, PushesReserveNothing
<1>20. ASSUME NEW n \in Nodes, HandlePush(n)
     PROVE PushesReserveNothing'
  <2>1. wire' = [wire EXCEPT ![n] = {}]
    BY <1>20 DEF HandlePush
  <2> QED BY <2>1 DEF TypeOK, NetTypes, PushesReserveNothing
<1>21. ASSUME NEW n \in Nodes, ReceiveView(n)
     PROVE PushesReserveNothing'
  BY <1>21 DEF PushesReserveNothing, netVars, ReceiveView
<1>22. ASSUME NEW n \in Nodes, LosePush(n)
     PROVE PushesReserveNothing'
  <2>1. wire' = [wire EXCEPT ![n] = {}]
    BY <1>22 DEF LosePush
  <2> QED BY <2>1 DEF TypeOK, NetTypes, PushesReserveNothing
<1>23. ASSUME NEW n \in Nodes, FinishBoot(n)
     PROVE PushesReserveNothing'
  BY <1>23 DEF PushesReserveNothing, netVars, FinishBoot
<1>24. ASSUME NEW n \in Nodes, ExecuteJob(n)
     PROVE PushesReserveNothing'
  BY <1>24 DEF PushesReserveNothing, netVars, ExecuteJob
<1>25. ASSUME NEW n \in Nodes, NoCompatibleWorker(n)
     PROVE PushesReserveNothing'
  BY <1>25 DEF PushesReserveNothing, netVars, NoCompatibleWorker
<1>26. ASSUME NEW n \in Nodes, DisconnectMidAssign(n)
     PROVE PushesReserveNothing'
  BY <1>26 DEF PushesReserveNothing, netVars, DisconnectMidAssign
<1>27. ASSUME NEW n \in Nodes, LeaveJob(n)
     PROVE PushesReserveNothing'
  BY <1>27 DEF PushesReserveNothing, netVars, LeaveJob
<1>28. ASSUME NEW n \in Nodes, LeaveJobByReboot(n)
     PROVE PushesReserveNothing'
  BY <1>28 DEF PushesReserveNothing, netVars, LeaveJobByReboot
<1>29. ASSUME NEW n \in Nodes, ExpireReservation(n)
     PROVE PushesReserveNothing'
  BY <1>29 DEF PushesReserveNothing, netVars, ExpireReservation
<1>30. ASSUME NEW n \in Nodes, ShutDownIdle(n)
     PROVE PushesReserveNothing'
  BY <1>30 DEF PushesReserveNothing, netVars, ShutDownIdle
<1>31. ASSUME NEW j \in Jobs, NEW n \in Nodes, AssignJob(j, n)
     PROVE PushesReserveNothing'
  BY <1>31 DEF PushesReserveNothing, netVars, AssignJob
<1>32. ASSUME NEW j \in Jobs, NEW n \in Nodes, RefuseJob(j, n)
     PROVE PushesReserveNothing'
  BY <1>32 DEF PushesReserveNothing, netVars, RefuseJob
<1>33. ASSUME UNCHANGED vars PROVE PushesReserveNothing'
  BY <1>33 DEF vars, netVars, PushesReserveNothing
<1> QED
  BY <1>1, <1>2, <1>3, <1>4, <1>5, <1>6, <1>7, <1>8, <1>9, <1>10, <1>11, <1>12, <1>13,
     <1>14, <1>15, <1>16, <1>17, <1>18, <1>19, <1>20, <1>21, <1>22, <1>23, <1>24, <1>25,
     <1>26, <1>27, <1>28, <1>29, <1>30, <1>31, <1>32, <1>33 DEF Next, StartStep, HeadStep,
     PushStep, JobStep

-----------------------------------------------------------------------------
(* The situations the model starts from satisfy all of it. *)
LEMMA InitType ==
    ASSUME Init
    PROVE  TypeOK
<1>0. PICK s \in Starts : StartFrom(s)
  BY DEF Init
<1>a. /\ s.losses \in 0..MaxLosses /\ s.restarts \in 0..MaxRestarts
      /\ s.warm \in SUBSET Nodes /\ s.free \in SUBSET Nodes /\ s.jobs \in SUBSET Jobs
  BY <1>0, StartsAssumption DEF StartFrom
<1>1. HistTypes
  <2>1. /\ Absent \in NodeRecord /\ [Absent EXCEPT !.status = "READY"] \in NodeRecord
        /\ [Absent EXCEPT !.status = "DELETED"] \in NodeRecord
    BY DEF Absent, NodeRecord, Statuses, LiveStatuses, JobIds
  <2>2. nodes \in [Nodes -> NodeRecord]
    BY <1>0, <2>1 DEF StartFrom
  <2>3. hist \in [Nodes -> NodeRecord]
    BY <1>0, <2>1, <2>2 DEF StartFrom
  <2>4. histJobs \in [Jobs -> [status : JobStatuses, given : SUBSET Nodes]]
    BY <1>0 DEF StartFrom, NoRow, PastJob, JobStatuses
  <2> QED BY <2>3, <2>4 DEF HistTypes
<1>2. HeadTypes
  <2>1. Absent \in NodeRecord /\ [Absent EXCEPT !.status = "READY"] \in NodeRecord
    BY DEF Absent, NodeRecord, Statuses, LiveStatuses, JobIds
  <2>2. nodes \in [Nodes -> NodeRecord]
    BY <1>0, <2>1 DEF StartFrom
  <2>3. jobs \in [Jobs -> JobStatuses] /\ given \in [Jobs -> SUBSET Nodes]
    BY <1>0, <1>1 DEF StartFrom, HistTypes
  <2>4. fresh \in [Nodes -> BOOLEAN]
    <3>1. fresh = [n \in Nodes |-> n \in s.warm]
      BY <1>0 DEF StartFrom
    <3>2. \A n \in Nodes : (n \in s.warm) \in BOOLEAN
      OBVIOUS
    <3> QED BY <3>1, <3>2, Zenon
  <2>5. toBoot = {} /\ watched = {} /\ doomed = {} /\ suspects = {}
    BY <1>0 DEF StartFrom
  <2>6. headUp = TRUE /\ paused = FALSE
    BY <1>0 DEF StartFrom
  <2> QED BY <2>2, <2>3, <2>4, <2>5, <2>6 DEF HeadTypes
<1>3. StartTypes
  BY <1>0 DEF StartFrom, StartTypes, Nothing
<1>4. NodeTypes
  <2>1. self \in [Nodes -> SelfRecord]
    BY <1>0 DEF StartFrom, SelfRecord, Statuses, LiveStatuses, JobIds, Phases
  <2>2. todo \in [Nodes -> Seq(Calls)]
    BY <1>0 DEF StartFrom
  <2>3. vm \in [Nodes -> {"none", "up", "gone"}]
    BY <1>0 DEF StartFrom
  <2> QED BY <2>1, <2>2, <2>3 DEF NodeTypes
<1>5. NetTypes /\ ClientTypes
  BY <1>0, <1>a DEF StartFrom, NetTypes, ClientTypes
<1> QED BY <1>1, <1>2, <1>3, <1>4, <1>5 DEF TypeOK

(* A history db the head starts from agrees with its memory. *)
LEMMA InitHead ==
    ASSUME Init
    PROVE  HeadInv /\ PushesReserveNothing
<1>0. PICK s \in Starts : StartFrom(s)
  BY DEF Init
<1>1. /\ headUp /\ ~paused /\ toBoot = {}
      /\ \A n \in Nodes : wire[n] = {}
      /\ \A n \in Nodes : nodes[n].res = NoJob /\ nodes[n].scope = NoJob
      /\ \A n \in Nodes : hist[n].res = NoJob /\ hist[n].scope = NoJob
  BY <1>0 DEF StartFrom, Absent
<1>2. \A n \in Nodes : hist[n] = nodes[n] \/ (nodes[n] = Absent /\ hist[n].status = "DELETED")
  BY <1>0 DEF StartFrom, Absent
<1>3. \A j \in Jobs : /\ jobs[j] \in {"none", "COMPLETED"} /\ given[j] = {}
                      /\ histJobs[j] = [status |-> jobs[j], given |-> {}]
                      /\ histJobs[j].given = {}
  BY <1>0 DEF StartFrom, NoRow, PastJob
<1>4. HistoryInStep /\ DownIsEmpty /\ EndedJobsHoldNothing /\ HistEndedJobsHoldNothing
  BY <1>1, <1>2, <1>3
     DEF HistoryInStep, DownIsEmpty, EndedJobsHoldNothing, HistEndedJobsHoldNothing
<1>5. ReservedAsAnswered /\ HistReservedAsAnswered
  BY <1>1, NoJobAssumption DEF ReservedAsAnswered, HistReservedAsAnswered
<1>6. BootsAsAnswered /\ NewJobsUnanswered /\ PausedMeansIdle /\ PushesReserveNothing
  BY <1>1, <1>3 DEF BootsAsAnswered, NewJobsUnanswered, PausedMeansIdle, PushesReserveNothing
<1> QED BY <1>4, <1>5, <1>6 DEF HeadInv

(* Every reachable state is well typed: no field a push leaves out is ever stored,
   and no bound is exceeded. *)
THEOREM TypeCorrect == Spec => []TypeOK
<1>1. TypeOK /\ [Next]_vars => TypeOK'
  BY TypeStep
<1> QED BY InitType, <1>1, PTL DEF Spec

(* The invariant of the head and its history holds in every reachable state. *)
THEOREM Invariance == Spec => [](HeadInv /\ PushesReserveNothing)
<1>1. TypeOK /\ (HeadInv /\ PushesReserveNothing) /\ [Next]_vars
          => (HeadInv /\ PushesReserveNothing)'
  BY HeadStepPreserves, PushesStep
<1> QED BY InitHead, TypeCorrect, <1>1, PTL DEF Spec

(* Whenever the head dies, the history db holds what it knew of nodes and jobs,
   tombstones aside: update_node, admit_job and update_job forget no durable write. *)
THEOREM HistoryKept == Spec => []HistoryInStep
<1>1. HeadInv /\ PushesReserveNothing => HistoryInStep
  BY DEF HeadInv
<1> QED BY Invariance, <1>1, PTL

(* A job that is over keeps no warm node reserved, whatever the order of its end,
   the pushes of the nodes and the restarts of the head. *)
THEOREM EndedJobsRelease == Spec => []EndedJobsHoldNothing
<1>1. HeadInv /\ PushesReserveNothing => EndedJobsHoldNothing
  BY DEF HeadInv
<1> QED BY Invariance, <1>1, PTL

(* However often a client repeats its start_job, and across restarts of the head,
   only nodes of the one recorded response are reserved or booted for the job. *)
THEOREM StartIsIdempotent == Spec => []ReservedAsAnswered
<1>1. HeadInv /\ PushesReserveNothing => ReservedAsAnswered
  BY DEF HeadInv
<1> QED BY Invariance, <1>1, PTL

(* While admission is paused for a deploy, no job runs. *)
THEOREM PausedIdle == Spec => []PausedMeansIdle
<1>1. HeadInv /\ PushesReserveNothing => PausedMeansIdle
  BY DEF HeadInv
<1> QED BY Invariance, <1>1, PTL

(* No recorded failure or cancellation is overwritten by this step. *)
FailuresKept ==
    \A i \in Jobs : histJobs[i].status = "FAILED" => histJobs'[i].status = "FAILED"

(* No step turns a recorded failure into anything else. *)
LEMMA FailureStep ==
    ASSUME TypeOK, HeadInv, [Next]_vars
    PROVE  FailuresKept
<1>1. ASSUME NEW j \in Jobs, NEW a \in Attempts, SelectNodes(j, a)
     PROVE FailuresKept
  BY <1>1 DEF FailuresKept, histVars, SelectNodes
<1>2. ASSUME NEW j \in Jobs, NEW a \in Attempts, ReplayStart(j, a)
     PROVE FailuresKept
  BY <1>2 DEF FailuresKept, histVars, ReplayStart
<1>3. ASSUME NEW j \in Jobs, NEW a \in Attempts, AdmitJob(j, a)
     PROVE FailuresKept
  <2>1. headUp /\ jobs[j] = "none"
        /\ \E r : histJobs' = [histJobs EXCEPT ![j] = r]
    BY <1>3 DEF AdmitJob, Replayed
  <2>2. histJobs[j].status = "none"
    BY <2>1, HistoryJobs
  <2> QED BY <2>1, <2>2 DEF FailuresKept, TypeOK, HistTypes
<1>4. ASSUME NEW j \in Jobs, NEW a \in Attempts, RefuseStart(j, a)
     PROVE FailuresKept
  BY <1>4 DEF FailuresKept, histVars, RefuseStart
<1>5. ASSUME PauseAdmission
     PROVE FailuresKept
  BY <1>5 DEF FailuresKept, histVars, PauseAdmission
<1>6. ASSUME ResumeAdmission
     PROVE FailuresKept
  BY <1>6 DEF FailuresKept, histVars, ResumeAdmission
<1>7. ASSUME CrashHead
     PROVE FailuresKept
  BY <1>7 DEF FailuresKept, histVars, CrashHead
<1>8. ASSUME RestartHead
     PROVE FailuresKept
  BY <1>8 DEF FailuresKept, histVars, RestartHead
<1>9. ASSUME NEW n \in Nodes, NEW j \in Jobs, StartNode(n, j)
     PROVE FailuresKept
  BY <1>9 DEF FailuresKept, histVars, StartNode
<1>10. ASSUME NEW n \in Nodes, NEW j \in Jobs, FailNode(n, j)
     PROVE FailuresKept
  BY <1>10 DEF FailuresKept, histVars, FailNode
<1>11. ASSUME NEW j \in Jobs, NEW s \in {"COMPLETED", "FAILED"}, EndJob(j, s)
     PROVE FailuresKept
  <2>1. headUp /\ histJobs' = [histJobs EXCEPT ![j].status = AppliedStatus(j, s)]
    BY <1>11 DEF EndJob
  <2>2. histJobs[j].status = "FAILED" => AppliedStatus(j, s) = "FAILED"
    BY <2>1, HistoryJobs DEF AppliedStatus
  <2> QED BY <2>1, <2>2 DEF FailuresKept, TypeOK, HistTypes
<1>12. ASSUME NEW n \in Nodes, BootFails(n)
     PROVE FailuresKept
  BY <1>12 DEF FailuresKept, histVars, BootFails
<1>13. ASSUME NEW n \in Nodes, DeleteNode(n)
     PROVE FailuresKept
  BY <1>13 DEF FailuresKept, histVars, DeleteNode
<1>14. ASSUME NEW n \in Nodes, GoStale(n)
     PROVE FailuresKept
  BY <1>14 DEF FailuresKept, histVars, GoStale
<1>15. ASSUME NEW n \in Nodes, SuspectNode(n)
     PROVE FailuresKept
  BY <1>15 DEF FailuresKept, histVars, SuspectNode
<1>16. ASSUME NEW n \in Nodes, ReapNode(n)
     PROVE FailuresKept
  BY <1>16 DEF FailuresKept, histVars, ReapNode
<1>17. ASSUME NEW n \in Nodes, LoopPush(n)
     PROVE FailuresKept
  BY <1>17 DEF FailuresKept, histVars, LoopPush
<1>18. ASSUME NEW n \in Nodes, SendPush(n)
     PROVE FailuresKept
  BY <1>18 DEF FailuresKept, histVars, SendPush
<1>19. ASSUME NEW n \in Nodes, SendExpire(n)
     PROVE FailuresKept
  BY <1>19 DEF FailuresKept, histVars, SendExpire
<1>20. ASSUME NEW n \in Nodes, HandlePush(n)
     PROVE FailuresKept
  BY <1>20 DEF FailuresKept, histVars, HandlePush
<1>21. ASSUME NEW n \in Nodes, ReceiveView(n)
     PROVE FailuresKept
  BY <1>21 DEF FailuresKept, histVars, ReceiveView
<1>22. ASSUME NEW n \in Nodes, LosePush(n)
     PROVE FailuresKept
  BY <1>22 DEF FailuresKept, histVars, LosePush
<1>23. ASSUME NEW n \in Nodes, FinishBoot(n)
     PROVE FailuresKept
  BY <1>23 DEF FailuresKept, histVars, FinishBoot
<1>24. ASSUME NEW n \in Nodes, ExecuteJob(n)
     PROVE FailuresKept
  BY <1>24 DEF FailuresKept, histVars, ExecuteJob
<1>25. ASSUME NEW n \in Nodes, NoCompatibleWorker(n)
     PROVE FailuresKept
  BY <1>25 DEF FailuresKept, histVars, NoCompatibleWorker
<1>26. ASSUME NEW n \in Nodes, DisconnectMidAssign(n)
     PROVE FailuresKept
  BY <1>26 DEF FailuresKept, histVars, DisconnectMidAssign
<1>27. ASSUME NEW n \in Nodes, LeaveJob(n)
     PROVE FailuresKept
  BY <1>27 DEF FailuresKept, histVars, LeaveJob
<1>28. ASSUME NEW n \in Nodes, LeaveJobByReboot(n)
     PROVE FailuresKept
  BY <1>28 DEF FailuresKept, histVars, LeaveJobByReboot
<1>29. ASSUME NEW n \in Nodes, ExpireReservation(n)
     PROVE FailuresKept
  BY <1>29 DEF FailuresKept, histVars, ExpireReservation
<1>30. ASSUME NEW n \in Nodes, ShutDownIdle(n)
     PROVE FailuresKept
  BY <1>30 DEF FailuresKept, histVars, ShutDownIdle
<1>31. ASSUME NEW j \in Jobs, NEW n \in Nodes, AssignJob(j, n)
     PROVE FailuresKept
  BY <1>31 DEF FailuresKept, histVars, AssignJob
<1>32. ASSUME NEW j \in Jobs, NEW n \in Nodes, RefuseJob(j, n)
     PROVE FailuresKept
  BY <1>32 DEF FailuresKept, histVars, RefuseJob
<1>33. ASSUME UNCHANGED vars PROVE FailuresKept
  BY <1>33 DEF FailuresKept, vars, histVars
<1> QED
  BY <1>1, <1>2, <1>3, <1>4, <1>5, <1>6, <1>7, <1>8, <1>9, <1>10, <1>11, <1>12, <1>13,
     <1>14, <1>15, <1>16, <1>17, <1>18, <1>19, <1>20, <1>21, <1>22, <1>23, <1>24, <1>25,
     <1>26, <1>27, <1>28, <1>29, <1>30, <1>31, <1>32, <1>33 DEF Next, StartStep, HeadStep,
     PushStep, JobStep

(* A job that was recorded as failed or canceled never becomes COMPLETED or RUNNING
   again, also when the head restarts before the late report of a node. *)
THEOREM FailuresAreFinal == Spec => FailureSticks
<1>1. TypeOK /\ (HeadInv /\ PushesReserveNothing) /\ [Next]_vars => FailuresKept
  BY FailureStep
<1>2. TypeOK /\ (HeadInv /\ PushesReserveNothing) /\ [Next]_vars =>
          [\A j \in Jobs : histJobs[j].status = "FAILED" => histJobs'[j].status = "FAILED"]_vars
  BY <1>1 DEF FailuresKept
<1> QED BY TypeCorrect, Invariance, <1>2, PTL DEF Spec, FailureSticks

-----------------------------------------------------------------------------
(* A node that was booted for a job stays that job's. *)

(* A name is drawn for one request only. *)
DrawnOnce ==
    \A j, k \in Jobs, a, b \in Attempts, n \in Nodes :
        n \in chosen[j][a].planned /\ n \in chosen[k][b].planned => j = k /\ a = b

(* Nobody knows a node that is still to be booted, but the job it was admitted with;
   a client may have had it failed all the same. *)
Unborn(n) == vm[n] = "none" \/ \E j \in Jobs : <<n, j>> \in toBoot
Blank(node) ==
    /\ node.status \notin LiveStatuses
    /\ node.scope = NoJob /\ node.res = NoJob /\ node.cur = NoJob
Unknown(n) ==
    /\ Blank(nodes[n]) /\ Blank(hist[n]) /\ self[n].cur = NoJob
    /\ wire[n] = {} /\ reply[n] = {} /\ todo[n] = <<>>
    /\ n \notin suspects \cup watched
    /\ n \in doomed => \E k \in Jobs : n \in histJobs[k].given
    /\ \A k \in Jobs : n \in histJobs[k].given =>
           \E a \in Attempts : n \in chosen[k][a].planned /\ request[k][a] = "answered"
UnbornUnknown == \A n \in Nodes : Unborn(n) => Unknown(n) /\ vm[n] # "up"

(* The names of a request under way have no VM. *)
PlannedUnborn ==
    \A n \in Nodes, j \in Jobs, a \in Attempts :
        n \in chosen[j][a].planned /\ request[j][a] # "answered" => vm[n] = "none"

(* What the history, the node and every message between them say of the jobs of a
   node concerns the job it was booted for. *)
OnlyOf(n, j) ==
    /\ hist[n].res \in {NoJob, j} /\ hist[n].cur \in {NoJob, j}
    /\ self[n].res \in {NoJob, j} /\ self[n].cur \in {NoJob, j}
    /\ \A b \in wire[n] : b.cur \in {NoJob, Keep, j}
    /\ \A r \in reply[n] : r.res \in {NoJob, j}
    /\ \A i \in 1..Len(todo[n]) : todo[n][i].job \in {NoJob, j}
    /\ \A k \in Jobs \ {j} : n \notin histJobs[k].given
ScopedToOne == \A n \in Nodes, j \in Jobs : hist[n].scope = j => OnlyOf(n, j)

GrowInv == DrawnOnce /\ UnbornUnknown /\ PlannedUnborn /\ ScopedToOne

(* What these speak of. *)
growVars == <<nodes, hist, self, wire, reply, todo, doomed, suspects, watched, histJobs,
              chosen, request, vm, toBoot>>

(* A step that leaves those alone preserves the invariant. *)
LEMMA GrowUnchanged ==
    ASSUME GrowInv, UNCHANGED growVars
    PROVE  GrowInv'
BY DEF GrowInv, growVars, DrawnOnce, UnbornUnknown, Unborn, Unknown, PlannedUnborn, ScopedToOne,
   OnlyOf

(* A step that concerns one node whose VM was created preserves it, if it does so
   for the job of that node. *)
LEMMA GrowOneNode ==
    ASSUME GrowInv, NEW n \in Nodes, ~Unborn(n), vm'[n] # "none",
           \A m \in Nodes \ {n} :
               /\ nodes'[m] = nodes[m] /\ hist'[m] = hist[m] /\ self'[m] = self[m]
               /\ wire'[m] = wire[m] /\ reply'[m] = reply[m] /\ todo'[m] = todo[m]
               /\ vm'[m] = vm[m],
           doomed' \subseteq doomed \cup {n}, suspects' \subseteq suspects \cup {n},
           watched' \subseteq watched \cup {n},
           UNCHANGED <<histJobs, chosen, request, toBoot>>,
           \A j \in Jobs : hist'[n].scope = j => OnlyOf(n, j)'
    PROVE  GrowInv'
<1>1. DrawnOnce'
  BY DEF GrowInv, DrawnOnce
<1>2. UnbornUnknown'
  <2> SUFFICES ASSUME NEW m \in Nodes, Unborn(m)' PROVE Unknown(m)' /\ vm'[m] # "up"
    BY DEF UnbornUnknown
  <2>1. m # n
    BY DEF Unborn
  <2>2. Unborn(m)
    BY <2>1 DEF Unborn
  <2>3. Unknown(m) /\ vm[m] # "up"
    BY <2>2 DEF GrowInv, UnbornUnknown
  <2> QED BY <2>1, <2>3 DEF Unknown
<1>3. PlannedUnborn'
  BY DEF GrowInv, PlannedUnborn, Unborn
<1>4. ScopedToOne'
  <2> SUFFICES ASSUME NEW m \in Nodes, NEW j \in Jobs, hist'[m].scope = j
               PROVE  OnlyOf(m, j)'
    BY DEF ScopedToOne
  <2>1. CASE m = n
    BY <2>1
  <2>2. CASE m # n
    <3>1. OnlyOf(m, j)
      BY <2>2 DEF GrowInv, ScopedToOne
    <3> QED BY <2>2, <3>1 DEF OnlyOf
  <2> QED BY <2>1, <2>2
<1> QED BY <1>1, <1>2, <1>3, <1>4 DEF GrowInv

(* A node that is in the hands of the head or of the network was booted. *)
LEMMA Born ==
    ASSUME TypeOK, GrowInv, NEW n \in Nodes,
           \/ n \in suspects \cup watched
           \/ wire[n] # {} \/ reply[n] # {}
           \/ nodes[n].status \in LiveStatuses
           \/ Awake(n)
    PROVE  ~Unborn(n) /\ vm[n] # "none"
BY DEF GrowInv, UnbornUnknown, Unborn, Unknown, Blank, Awake

(* The head's record of a node that it knows, and a job's nodes, are those of the
   history. *)
LEMMA ScopeInHistory ==
    ASSUME TypeOK, HeadInv, NEW n \in Nodes, NEW j \in Jobs, nodes[n].scope = j
    PROVE  /\ headUp /\ hist[n] = nodes[n]
           /\ \A k \in Jobs : histJobs[k].given = given[k]
<1>1. nodes[n] # Absent
  BY NoJobAssumption DEF Absent
<1>2. headUp
  BY <1>1 DEF HeadInv, DownIsEmpty
<1> QED BY <1>1, <1>2, HistoryJobs DEF HeadInv, HistoryInStep

(* Updates of a record with what concerns the node's own job. *)
LEMMA MergedScope ==
    ASSUME TypeOK, HeadInv, GrowInv, headUp, NEW n \in Nodes, NEW j \in Jobs,
           NEW status \in Statuses \cup {Keep}, NEW cur \in {NoJob, Keep, j},
           NEW res \in {NoJob, Keep},
           MergedNode(n, status, cur, res).scope = j
    PROVE  /\ hist[n].scope = j /\ OnlyOf(n, j)
           /\ MergedNode(n, status, cur, res).res \in {NoJob, j}
           /\ MergedNode(n, status, cur, res).cur \in {NoJob, j}
<1>1. nodes[n] \in NodeRecord
  BY DEF TypeOK, HeadTypes
<1>2. nodes[n].scope = j
  BY <1>1 DEF MergedNode, NodeRecord
<1>3. hist[n] = nodes[n]
  BY <1>2, ScopeInHistory
<1>4. OnlyOf(n, j)
  BY <1>2, <1>3 DEF GrowInv, ScopedToOne
<1>5. /\ MergedNode(n, status, cur, res).res = MergedField(nodes[n].res, res)
      /\ MergedNode(n, status, cur, res).cur = MergedField(nodes[n].cur, cur)
  BY <1>1 DEF MergedNode, NodeRecord
<1> QED BY <1>2, <1>3, <1>4, <1>5 DEF OnlyOf, MergedField

(* A terminal update of the head alone: a reaper, a failed boot, a delete. *)
LEMMA TerminalGrow ==
    ASSUME TypeOK, HeadInv, GrowInv, headUp, NEW n \in Nodes,
           NEW status \in {"FAILED", "DELETED"}, ~Unborn(n),
           nodes' = [nodes EXCEPT ![n] = MergedNode(n, status, Keep, Keep)],
           hist' = [hist EXCEPT ![n] = MergedNode(n, status, Keep, Keep)],
           vm' \in {vm, [vm EXCEPT ![n] = "gone"]},
           wire' \in {wire, [wire EXCEPT ![n] = {}]},
           reply' \in {reply, [reply EXCEPT ![n] = {}]},
           doomed' \subseteq doomed \cup {n}, suspects' \subseteq suspects,
           watched' \subseteq watched,
           UNCHANGED <<self, todo, histJobs, chosen, request, toBoot>>
    PROVE  GrowInv'
<1> DEFINE x == MergedNode(n, status, Keep, Keep)
<1>1. status \in Statuses \cup {Keep}
  BY DEF Statuses
<1>2. nodes'[n] = x /\ hist'[n] = x
  BY DEF TypeOK, HeadTypes, HistTypes
<1>3. \A j \in Jobs : x.scope = j => OnlyOf(n, j) /\ x.res \in {NoJob, j} /\ x.cur \in {NoJob, j}
  BY <1>1, MergedScope
<1>4. /\ \A m \in Nodes \ {n} : nodes'[m] = nodes[m] /\ hist'[m] = hist[m]
      /\ \A m \in Nodes \ {n} : wire'[m] = wire[m] /\ reply'[m] = reply[m] /\ vm'[m] = vm[m]
      /\ wire'[n] \subseteq wire[n] /\ reply'[n] \subseteq reply[n] /\ vm'[n] # "none"
  <2> HIDE DEF x
  <2> QED BY DEF TypeOK, HeadTypes, HistTypes, NetTypes, NodeTypes, Unborn
<1> HIDE DEF x
<1>5. \A j \in Jobs : hist'[n].scope = j => OnlyOf(n, j)'
  BY <1>2, <1>3, <1>4 DEF OnlyOf
<1> QED BY <1>4, <1>5, GrowOneNode

(* A terminal update of a node that is still to be booted: it was admitted, so no
   request under way has its name. *)
LEMMA UnbornEnds ==
    ASSUME TypeOK, HeadInv, GrowInv, headUp, NEW n \in Nodes, Unborn(n),
           NEW status \in {"FAILED", "DELETED"},
           NEW j \in Jobs, n \in histJobs[j].given,
           nodes' = [nodes EXCEPT ![n] = MergedNode(n, status, Keep, Keep)],
           hist' = [hist EXCEPT ![n] = MergedNode(n, status, Keep, Keep)],
           vm' \in {vm, [vm EXCEPT ![n] = "gone"]},
           wire' \in {wire, [wire EXCEPT ![n] = {}]},
           reply' \in {reply, [reply EXCEPT ![n] = {}]},
           doomed' \subseteq doomed \cup {n}, suspects' \subseteq suspects,
           watched' \subseteq watched,
           UNCHANGED <<self, todo, histJobs, chosen, request, toBoot>>
    PROVE  GrowInv'
<1> DEFINE x == MergedNode(n, status, Keep, Keep)
<1>1. Unknown(n) /\ vm[n] # "up"
  BY DEF GrowInv, UnbornUnknown
<1>2. Blank(x)
  BY <1>1 DEF Unknown, Blank, MergedNode, MergedStatus, MergedField, TypeOK, HeadTypes,
     NodeRecord, LiveStatuses
<1>3. nodes'[n] = x /\ hist'[n] = x
  BY DEF TypeOK, HeadTypes, HistTypes
<1>4. /\ \A m \in Nodes \ {n} : nodes'[m] = nodes[m] /\ hist'[m] = hist[m]
      /\ \A m \in Nodes \ {n} : wire'[m] = wire[m] /\ reply'[m] = reply[m] /\ vm'[m] = vm[m]
      /\ wire'[n] = {} /\ reply'[n] = {} /\ vm'[n] \in {vm[n], "gone"}
  <2> HIDE DEF x
  <2> QED BY <1>1 DEF TypeOK, HeadTypes, HistTypes, NetTypes, NodeTypes, Unknown
<1> HIDE DEF x
<1>5. DrawnOnce'
  BY DEF GrowInv, DrawnOnce
<1>6. UnbornUnknown'
  <2> SUFFICES ASSUME NEW m \in Nodes, Unborn(m)' PROVE Unknown(m)' /\ vm'[m] # "up"
    BY DEF UnbornUnknown
  <2>1. CASE m = n
    BY <1>1, <1>2, <1>3, <1>4, <2>1 DEF Unknown
  <2>2. CASE m # n
    <3>1. Unknown(m) /\ vm[m] # "up"
      BY <1>4, <2>2 DEF GrowInv, UnbornUnknown, Unborn
    <3> QED BY <1>4, <2>2, <3>1 DEF Unknown
  <2> QED BY <2>1, <2>2
<1>7. PlannedUnborn'
  <2> SUFFICES ASSUME NEW m \in Nodes, NEW k \in Jobs, NEW a \in Attempts,
                      m \in chosen[k][a].planned, request[k][a] # "answered"
               PROVE  vm'[m] = "none"
    BY DEF PlannedUnborn
  <2>1. PICK b \in Attempts : n \in chosen[j][b].planned /\ request[j][b] = "answered"
    BY <1>1 DEF Unknown
  <2>2. m # n
    BY <2>1 DEF GrowInv, DrawnOnce
  <2> QED BY <1>4, <2>2 DEF GrowInv, PlannedUnborn
<1>8. ScopedToOne'
  <2> SUFFICES ASSUME NEW m \in Nodes, NEW k \in Jobs, hist'[m].scope = k
               PROVE  OnlyOf(m, k)'
    BY DEF ScopedToOne
  <2>1. m # n
    BY <1>2, <1>3, NoJobAssumption DEF Blank
  <2>2. OnlyOf(m, k)
    BY <1>4, <2>1 DEF GrowInv, ScopedToOne
  <2> QED BY <1>4, <2>1, <2>2 DEF OnlyOf
<1> QED BY <1>5, <1>6, <1>7, <1>8 DEF GrowInv

(* A queue of calls about one job stays one when such a call is appended. *)
LEMMA AppendJob ==
    ASSUME NEW q \in Seq(Calls), NEW c \in Calls, NEW j \in Jobs, c.job \in {NoJob, j},
           \A i \in 1..Len(q) : q[i].job \in {NoJob, j}
    PROVE  \A i \in 1..Len(Append(q, c)) : Append(q, c)[i].job \in {NoJob, j}
<1>1. /\ Len(Append(q, c)) = Len(q) + 1 /\ Len(q) \in Nat
      /\ \A i \in 1..Len(q) : Append(q, c)[i] = q[i]
      /\ Append(q, c)[Len(q) + 1] = c
  BY AppendProperties, LenProperties
<1> QED BY <1>1

(* A push queued for the node names its own job or none. *)
LEMMA QueuedJob ==
    ASSUME TypeOK, NEW n \in Nodes, NEW j \in Jobs, NEW kind \in Kinds, OnlyOf(n, j)
    PROVE  \A i \in 1..Len(Queued(n, kind)[n]) : Queued(n, kind)[n][i].job \in {NoJob, j}
<1>1. todo[n] \in Seq(Calls) /\ Queued(n, kind)[n] = Append(todo[n], Call(kind))
  BY DEF TypeOK, NodeTypes, Queued
<1>2. Call(kind) \in Calls /\ Call(kind).job \in {NoJob, j}
  BY CallType DEF Call
<1> QED BY <1>1, <1>2, AppendJob DEF OnlyOf

(* A step of the node itself: it says and knows nothing of other jobs afterwards. *)
LEMMA GrowNodeStep ==
    ASSUME TypeOK, GrowInv, NEW n \in Nodes, ~Unborn(n),
           vm' \in {vm, [vm EXCEPT ![n] = "gone"]},
           \A m \in Nodes \ {n} :
               /\ self'[m] = self[m] /\ wire'[m] = wire[m] /\ reply'[m] = reply[m]
               /\ todo'[m] = todo[m],
           UNCHANGED <<nodes, hist, doomed, suspects, watched, histJobs, chosen, request, toBoot>>,
           \A j \in Jobs : hist[n].scope = j /\ OnlyOf(n, j) =>
               /\ self'[n].res \in {NoJob, j} /\ self'[n].cur \in {NoJob, j}
               /\ \A b \in wire'[n] : b.cur \in {NoJob, Keep, j}
               /\ \A v \in reply'[n] : v.res \in {NoJob, j}
               /\ \A i \in 1..Len(todo'[n]) : todo'[n][i].job \in {NoJob, j}
    PROVE  GrowInv'
<1>1. vm'[n] # "none" /\ \A m \in Nodes \ {n} : vm'[m] = vm[m]
  BY DEF TypeOK, NodeTypes, Unborn
<1>2. \A j \in Jobs : hist'[n].scope = j => OnlyOf(n, j)'
  BY DEF GrowInv, ScopedToOne, OnlyOf
<1> QED BY <1>1, <1>2, GrowOneNode

(* Of the actions that leave the records and the queue of a node as they are. *)
LEMMA SameEntries ==
    ASSUME TypeOK, NEW n \in Nodes
    PROVE  /\ self = [self EXCEPT ![n] = self[n]] /\ wire = [wire EXCEPT ![n] = wire[n]]
           /\ reply = [reply EXCEPT ![n] = reply[n]] /\ todo = [todo EXCEPT ![n] = todo[n]]
BY DEF TypeOK, NodeTypes, NetTypes

(* A request of a client: selection draws a name that nobody knows, admission hands
   it to its job, and takes no node that was booted for another. *)
LEMMA GrowStart ==
    ASSUME TypeOK, HeadInv, GrowInv, NEW j \in Jobs, NEW a \in Attempts,
           SelectNodes(j, a) \/ ReplayStart(j, a) \/ AdmitJob(j, a) \/ RefuseStart(j, a)
    PROVE  GrowInv'
<1>1. CASE SelectNodes(j, a)
  <2>1. PICK ready \in SUBSET Nodes, planned \in SUBSET FreeNames :
             /\ request[j][a] = "new"
             /\ chosen' = [chosen EXCEPT ![j][a] = [ready |-> ready, planned |-> planned]]
    BY <1>1, PlansType DEF SelectNodes
  <2>2. /\ request' = [request EXCEPT ![j][a] = "selected"]
        /\ UNCHANGED <<nodes, hist, self, wire, reply, todo, doomed, suspects, watched,
                       histJobs, vm, toBoot>>
    BY <1>1 DEF SelectNodes, headVars, histVars, nodeVars, netVars
  <2>3. planned \subseteq FreeNames
    BY <2>1
  <2>4. /\ chosen'[j][a].planned = planned /\ request'[j][a] = "selected"
        /\ \A k \in Jobs, b \in Attempts :
               k # j \/ b # a => chosen'[k][b] = chosen[k][b] /\ request'[k][b] = request[k][b]
    BY <2>1, <2>2 DEF TypeOK, StartTypes
  <2>5. DrawnOnce'
    BY <2>3, <2>4 DEF GrowInv, DrawnOnce, FreeNames
  <2>6. UnbornUnknown'
    <3> SUFFICES ASSUME NEW n \in Nodes, Unborn(n), NEW k \in Jobs, n \in histJobs[k].given
                 PROVE  \E b \in Attempts : n \in chosen'[k][b].planned /\ request'[k][b] = "answered"
      BY <2>2 DEF GrowInv, UnbornUnknown, Unborn, Unknown
    <3>1. PICK b \in Attempts : n \in chosen[k][b].planned /\ request[k][b] = "answered"
      BY DEF GrowInv, UnbornUnknown, Unknown
    <3> QED BY <2>1, <2>4, <3>1
  <2>7. PlannedUnborn'
    BY <2>2, <2>3, <2>4 DEF GrowInv, PlannedUnborn, FreeNames
  <2>8. ScopedToOne'
    BY <2>2 DEF GrowInv, ScopedToOne, OnlyOf
  <2> QED BY <2>5, <2>6, <2>7, <2>8 DEF GrowInv
<1>2. CASE ReplayStart(j, a)
  <2>1. /\ request[j][a] \in {"new", "selected"}
        /\ request' = [request EXCEPT ![j][a] = "answered"]
        /\ chosen' = [chosen EXCEPT ![j][a] = Nothing]
        /\ UNCHANGED <<nodes, hist, self, wire, reply, todo, doomed, suspects, watched,
                       histJobs, vm, toBoot>>
    BY <1>2 DEF ReplayStart, headVars, histVars, nodeVars, netVars
  <2>2. /\ chosen'[j][a].planned = {}
        /\ \A k \in Jobs, b \in Attempts :
               k # j \/ b # a => chosen'[k][b] = chosen[k][b] /\ request'[k][b] = request[k][b]
    BY <2>1 DEF TypeOK, StartTypes, Nothing
  <2>3. DrawnOnce' /\ PlannedUnborn' /\ ScopedToOne'
    BY <2>1, <2>2 DEF GrowInv, DrawnOnce, PlannedUnborn, ScopedToOne, OnlyOf
  <2>4. UnbornUnknown'
    BY <2>1, <2>2 DEF GrowInv, UnbornUnknown, Unborn, Unknown
  <2> QED BY <2>3, <2>4 DEF GrowInv
<1>3. CASE AdmitJob(j, a)
  <2> DEFINE ready == chosen[j][a].ready
             planned == chosen[j][a].planned
             reserved == [n \in Nodes |-> IF n \in ready
                                          THEN [nodes[n] EXCEPT !.res = j] ELSE nodes[n]]
  <2>1. /\ headUp /\ request[j][a] = "selected" /\ jobs[j] = "none"
        /\ \A n \in ready : Selectable(n)
        /\ nodes' = reserved
        /\ hist' = [n \in Nodes |-> IF n \in ready THEN reserved[n] ELSE hist[n]]
        /\ histJobs' = [histJobs EXCEPT ![j] = [status |-> "RUNNING", given |-> ready \cup planned]]
        /\ toBoot' = toBoot \cup (planned \X {j})
        /\ request' = [request EXCEPT ![j][a] = "answered"]
        /\ UNCHANGED <<self, wire, reply, todo, doomed, suspects, watched, vm, chosen>>
    BY <1>3 DEF AdmitJob, Admissible, Replayed, nodeVars, netVars
  <2>2. ready \subseteq Nodes /\ planned \subseteq Nodes /\ nodes \in [Nodes -> NodeRecord]
    BY DEF TypeOK, StartTypes, HeadTypes
  <2>3. \A n \in ready : /\ nodes[n].scope = NoJob /\ nodes[n].res = NoJob
                         /\ ~Unborn(n) /\ hist[n] = nodes[n]
    BY <2>1, <2>2, Born DEF Selectable, Absent, HeadInv, HistoryInStep, LiveStatuses
  <2>4. \A n \in planned : Unborn(n) /\ hist[n].scope = NoJob
    BY <2>1, <2>2 DEF GrowInv, PlannedUnborn, UnbornUnknown, Unborn, Unknown, Blank
  <2>5. /\ \A n \in Nodes \ ready : nodes'[n] = nodes[n] /\ hist'[n] = hist[n]
        /\ \A n \in ready : hist'[n].scope = NoJob
    BY <2>1, <2>2, <2>3 DEF NodeRecord
  <2>6. /\ \A k \in Jobs \ {j} : histJobs'[k] = histJobs[k]
        /\ histJobs'[j].given = ready \cup planned
        /\ request'[j][a] = "answered"
        /\ \A k \in Jobs, b \in Attempts : request'[k][b] \in {request[k][b], "answered"}
    BY <2>1 DEF TypeOK, HistTypes, StartTypes
  <2> HIDE DEF reserved
  <2>7. DrawnOnce'
    BY <2>1 DEF GrowInv, DrawnOnce
  <2>8. UnbornUnknown'
    <3> SUFFICES ASSUME NEW n \in Nodes, Unborn(n)' PROVE Unknown(n)' /\ vm[n] # "up"
      BY <2>1 DEF UnbornUnknown
    <3>0. Unborn(n)
      BY <2>1, <2>4 DEF Unborn
    <3>1. Unknown(n) /\ vm[n] # "up" /\ n \notin ready
      BY <2>3, <3>0 DEF GrowInv, UnbornUnknown
    <3>2. \A k \in Jobs : n \in histJobs'[k].given =>
              \E b \in Attempts : n \in chosen[k][b].planned /\ request'[k][b] = "answered"
      BY <2>6, <3>1 DEF Unknown
    <3>3. \A k \in Jobs : n \in histJobs[k].given => n \in histJobs'[k].given
      <4>1. histJobs[j].given = {}
        BY <2>1, HistoryJobs DEF HeadInv, NewJobsUnanswered
      <4> QED BY <2>6, <4>1
    <3> QED BY <2>1, <2>5, <3>1, <3>2, <3>3 DEF Unknown
  <2>9. PlannedUnborn'
    BY <2>1, <2>6 DEF GrowInv, PlannedUnborn
  <2>10. ScopedToOne'
    <3> SUFFICES ASSUME NEW n \in Nodes, NEW k \in Jobs, hist'[n].scope = k
                 PROVE  OnlyOf(n, k)'
      BY DEF ScopedToOne
    <3>1. n \notin ready /\ hist'[n] = hist[n]
      BY <2>5, NoJobAssumption
    <3>2. n \notin planned
      BY <2>4, <3>1, NoJobAssumption
    <3>3. OnlyOf(n, k)
      BY <3>1 DEF GrowInv, ScopedToOne
    <3>4. \A i \in Jobs \ {k} : n \notin histJobs'[i].given
      BY <2>6, <3>1, <3>2, <3>3 DEF OnlyOf
    <3> QED BY <2>1, <3>1, <3>3, <3>4 DEF OnlyOf
  <2> QED BY <2>7, <2>8, <2>9, <2>10 DEF GrowInv
<1>4. CASE RefuseStart(j, a)
  <2>1. /\ request[j][a] = "selected"
        /\ request' = [request EXCEPT ![j][a] = "new"]
        /\ chosen' = [chosen EXCEPT ![j][a] = Nothing]
        /\ UNCHANGED <<nodes, hist, self, wire, reply, todo, doomed, suspects, watched,
                       histJobs, vm, toBoot>>
    BY <1>4 DEF RefuseStart, headVars, histVars, nodeVars, netVars
  <2>2. /\ chosen'[j][a].planned = {}
        /\ \A k \in Jobs, b \in Attempts :
               k # j \/ b # a => chosen'[k][b] = chosen[k][b] /\ request'[k][b] = request[k][b]
    BY <2>1 DEF TypeOK, StartTypes, Nothing
  <2>3. DrawnOnce' /\ PlannedUnborn' /\ ScopedToOne'
    <3>1. DrawnOnce'
      BY <2>2 DEF GrowInv, DrawnOnce
    <3>2. PlannedUnborn'
      BY <2>1, <2>2 DEF GrowInv, PlannedUnborn
    <3> QED BY <2>1, <3>1, <3>2 DEF GrowInv, ScopedToOne, OnlyOf
  <2>4. UnbornUnknown'
    <3> SUFFICES ASSUME NEW n \in Nodes, Unborn(n), NEW k \in Jobs, n \in histJobs[k].given
                 PROVE  \E b \in Attempts : n \in chosen'[k][b].planned /\ request'[k][b] = "answered"
      BY <2>1 DEF GrowInv, UnbornUnknown, Unborn, Unknown
    <3>1. PICK b \in Attempts : n \in chosen[k][b].planned /\ request[k][b] = "answered"
      BY DEF GrowInv, UnbornUnknown, Unknown
    <3> QED BY <2>1, <2>2, <3>1
  <2> QED BY <2>3, <2>4 DEF GrowInv
<1> QED BY <1>1, <1>2, <1>3, <1>4

(* Node.start: the first record of a node says whose it is. *)
LEMMA GrowStartNode ==
    ASSUME TypeOK, HeadInv, GrowInv, NEW n \in Nodes, NEW j \in Jobs, StartNode(n, j)
    PROVE  GrowInv'
<1> DEFINE booting == [status |-> MergedStatus(nodes[n].status, "BOOTING"),
                       cur |-> NoJob, res |-> j, scope |-> j]
<1>1. /\ headUp /\ <<n, j>> \in toBoot
      /\ toBoot' = toBoot \ {<<n, j>>}
      /\ watched' = watched \cup {n}
      /\ nodes' = [nodes EXCEPT ![n] = booting]
      /\ hist' = [hist EXCEPT ![n] = booting]
      /\ vm' = [vm EXCEPT ![n] = "up"]
      /\ self' = [self EXCEPT ![n].res = j]
      /\ todo' = Queued(n, "reboot")
      /\ UNCHANGED <<doomed, suspects, histJobs, chosen, request, wire, reply>>
  BY DEF StartNode, startVars, netVars
<1>2. Unborn(n) /\ Unknown(n)
  BY <1>1 DEF GrowInv, UnbornUnknown, Unborn
<1>3. \A k \in Jobs : n \in histJobs[k].given <=> k = j
  <2>1. n \in histJobs[j].given
    BY <1>1, HistoryJobs DEF HeadInv, BootsAsAnswered
  <2> SUFFICES ASSUME NEW k \in Jobs, n \in histJobs[k].given PROVE k = j
    BY <2>1
  <2>2. PICK a \in Attempts : n \in chosen[j][a].planned
    BY <1>2, <2>1 DEF Unknown
  <2>3. PICK b \in Attempts : n \in chosen[k][b].planned
    BY <1>2 DEF Unknown
  <2> QED BY <2>2, <2>3 DEF GrowInv, DrawnOnce
<1>4. PICK a \in Attempts : n \in chosen[j][a].planned /\ request[j][a] = "answered"
  BY <1>2, <1>3 DEF Unknown
<1>5. DrawnOnce'
  BY <1>1 DEF GrowInv, DrawnOnce
<1>6. \A m \in Nodes \ {n} :
          /\ nodes'[m] = nodes[m] /\ hist'[m] = hist[m] /\ self'[m] = self[m]
          /\ todo'[m] = todo[m] /\ vm'[m] = vm[m]
  BY <1>1 DEF TypeOK, HeadTypes, HistTypes, NodeTypes, Queued
<1>7. vm'[n] = "up" /\ hist'[n] = booting
  BY <1>1 DEF TypeOK, HistTypes, NodeTypes
<1>8. UnbornUnknown'
  <2> SUFFICES ASSUME NEW m \in Nodes, Unborn(m)' PROVE Unknown(m)' /\ vm'[m] # "up"
    BY DEF UnbornUnknown
  <2>0. m # n
    <3> SUFFICES ASSUME NEW k \in Jobs, <<n, k>> \in toBoot' PROVE FALSE
      BY <1>7 DEF Unborn
    <3>1. n \in histJobs[k].given
      BY <1>1, HistoryJobs DEF HeadInv, BootsAsAnswered
    <3> QED BY <1>1, <1>3, <3>1
  <2>1. Unknown(m) /\ vm[m] # "up"
    BY <1>1, <1>6, <2>0 DEF GrowInv, UnbornUnknown, Unborn
  <2> HIDE DEF booting
  <2> QED BY <1>1, <1>6, <2>0, <2>1 DEF Unknown
<1>9. PlannedUnborn'
  <2>1. ASSUME NEW m \in Nodes, NEW k \in Jobs, NEW b \in Attempts,
               m \in chosen[k][b].planned, request[k][b] # "answered"
        PROVE  vm'[m] = "none"
    <3>1. m # n
      BY <1>4, <2>1 DEF GrowInv, DrawnOnce
    <3> QED BY <1>6, <2>1, <3>1 DEF GrowInv, PlannedUnborn
  <2> QED BY <1>1, <2>1 DEF PlannedUnborn
<1>10. ScopedToOne'
  <2> SUFFICES ASSUME NEW m \in Nodes, NEW k \in Jobs, hist'[m].scope = k
               PROVE  OnlyOf(m, k)'
    BY DEF ScopedToOne
  <2>1. CASE m # n
    <3>1. OnlyOf(m, k)
      BY <1>6, <2>1 DEF GrowInv, ScopedToOne
    <3> HIDE DEF booting
    <3> QED BY <1>1, <1>6, <2>1, <3>1 DEF OnlyOf
  <2>2. CASE m = n
    <3>1. k = j
      BY <1>7, <2>2
    <3>2. self'[n].res = j /\ self'[n].cur = NoJob
      BY <1>1, <1>2 DEF TypeOK, NodeTypes, SelfRecord, Unknown
    <3>3. todo'[n] = Append(<<>>, Call("reboot"))
      BY <1>1, <1>2 DEF TypeOK, NodeTypes, Queued, Unknown
    <3>4. \A i \in 1..Len(todo'[n]) : todo'[n][i].job \in {NoJob, j}
      BY <3>3, AppendJob, CallType DEF Call, Kinds
    <3>5. hist'[n].res = j /\ hist'[n].cur = NoJob
      BY <1>7
    <3>6. wire'[n] = {} /\ reply'[n] = {}
      BY <1>1, <1>2 DEF Unknown
    <3>7. \A i \in Jobs \ {j} : n \notin histJobs'[i].given
      BY <1>1, <1>3
    <3> QED BY <2>2, <3>1, <3>2, <3>4, <3>5, <3>6, <3>7 DEF OnlyOf
  <2> QED BY <2>1, <2>2
<1> QED BY <1>5, <1>8, <1>9, <1>10 DEF GrowInv

(* The end of a job: reservations go, from the records of the head. *)
LEMMA GrowEndJob ==
    ASSUME TypeOK, HeadInv, GrowInv, NEW j \in Jobs, NEW status, EndJob(j, status)
    PROVE  GrowInv'
<1>1. /\ headUp /\ nodes' = Released(j)
      /\ hist' = [n \in Nodes |-> IF nodes[n].res = j THEN Released(j)[n] ELSE hist[n]]
      /\ histJobs' = [histJobs EXCEPT ![j].status = AppliedStatus(j, status)]
      /\ UNCHANGED <<self, wire, reply, todo, doomed, suspects, watched, chosen, request,
                     vm, toBoot>>
  BY DEF EndJob, startVars, nodeVars, netVars
<1>2. \A n \in Nodes : nodes[n] \in NodeRecord
  BY DEF TypeOK, HeadTypes
<1>3. \A n \in Nodes : /\ nodes[n].res # j => nodes'[n] = nodes[n] /\ hist'[n] = hist[n]
                       /\ nodes[n].res = j => hist[n] = nodes[n]
                       /\ nodes[n].res = j => /\ hist'[n].scope = hist[n].scope
                                              /\ hist'[n].cur = hist[n].cur
                                              /\ hist'[n].res = NoJob
  BY <1>1, <1>2, NoJobAssumption DEF Released, HeadInv, HistoryInStep, NodeRecord, Absent
<1>4. \A k \in Jobs : histJobs'[k].given = histJobs[k].given
  BY <1>1 DEF TypeOK, HistTypes
<1>5. DrawnOnce' /\ PlannedUnborn'
  BY <1>1 DEF GrowInv, DrawnOnce, PlannedUnborn
<1>6. UnbornUnknown'
  <2> SUFFICES ASSUME NEW n \in Nodes, Unborn(n) PROVE Unknown(n)' /\ vm[n] # "up"
    BY <1>1 DEF UnbornUnknown, Unborn
  <2>1. Unknown(n) /\ vm[n] # "up"
    BY DEF GrowInv, UnbornUnknown
  <2>2. nodes[n].res # j
    BY <2>1, NoJobAssumption DEF Unknown, Blank
  <2>3. Blank(nodes'[n]) /\ Blank(hist'[n])
    BY <1>3, <2>1, <2>2 DEF Unknown
  <2>4. \A k \in Jobs : n \in histJobs'[k].given =>
            \E a \in Attempts : n \in chosen'[k][a].planned /\ request'[k][a] = "answered"
    BY <1>1, <1>4, <2>1 DEF Unknown
  <2>5. /\ self'[n].cur = NoJob /\ wire'[n] = {} /\ reply'[n] = {} /\ todo'[n] = <<>>
        /\ n \notin (suspects \cup watched)'
        /\ n \in doomed' => \E k \in Jobs : n \in histJobs'[k].given
    BY <1>1, <1>4, <2>1 DEF Unknown
  <2> QED BY <2>1, <2>3, <2>4, <2>5, <1>1 DEF Unknown, Blank
<1>7. ScopedToOne'
  <2> SUFFICES ASSUME NEW n \in Nodes, NEW k \in Jobs, hist'[n].scope = k
               PROVE  OnlyOf(n, k)'
    BY DEF ScopedToOne
  <2>1. hist[n].scope = k
    <3>1. CASE nodes[n].res = j
      BY <1>3, <3>1
    <3>2. CASE nodes[n].res # j
      BY <1>3, <3>2
    <3> QED BY <3>1, <3>2
  <2>2. OnlyOf(n, k)
    BY <2>1 DEF GrowInv, ScopedToOne
  <2>3. hist'[n].res \in {NoJob, k} /\ hist'[n].cur \in {NoJob, k}
    <3>1. CASE nodes[n].res = j
      BY <1>3, <2>2, <3>1 DEF OnlyOf
    <3>2. CASE nodes[n].res # j
      BY <1>3, <2>2, <3>2 DEF OnlyOf
    <3> QED BY <3>1, <3>2
  <2>4. \A i \in Jobs \ {k} : n \notin histJobs'[i].given
    BY <1>4, <2>2 DEF OnlyOf
  <2> QED BY <1>1, <2>2, <2>3, <2>4 DEF OnlyOf
<1> QED BY <1>5, <1>6, <1>7 DEF GrowInv

(* The death of the head and its return change nothing that the history says. *)
LEMMA GrowRestart ==
    ASSUME TypeOK, HeadInv, GrowInv, CrashHead \/ RestartHead
    PROVE  GrowInv'
<1>1. /\ UNCHANGED <<hist, histJobs, chosen, vm, self, todo, wire, reply>>
      /\ toBoot' \subseteq toBoot /\ doomed' \subseteq doomed
      /\ suspects' \subseteq suspects /\ watched' \subseteq watched
  BY DEF CrashHead, RestartHead, histVars, nodeVars, netVars, startVars
<1>2. \A k \in Jobs, b \in Attempts : request'[k][b] = "answered" <=> request[k][b] = "answered"
  BY DEF CrashHead, RestartHead, startVars
<1>3. \A n \in Nodes : Unborn(n) => Blank(nodes'[n])
  <2>0. Blank(Absent)
    BY DEF Blank, Absent, LiveStatuses
  <2>1. CASE CrashHead
    BY <2>0, <2>1 DEF CrashHead
  <2>2. CASE RestartHead
    <3> SUFFICES ASSUME NEW n \in Nodes, Unborn(n) PROVE Blank(nodes'[n])
      OBVIOUS
    <3>1. ~headUp /\ nodes' = [m \in Nodes |-> IF hist[m].status = "DELETED" THEN Absent
                                               ELSE hist[m]]
      BY <2>2 DEF RestartHead
    <3>2. Blank(hist[n])
      BY DEF GrowInv, UnbornUnknown, Unknown
    <3> QED BY <2>0, <3>1, <3>2
  <2> QED BY <2>1, <2>2
<1>4. DrawnOnce' /\ PlannedUnborn' /\ ScopedToOne'
  BY <1>1, <1>2 DEF GrowInv, DrawnOnce, PlannedUnborn, ScopedToOne, OnlyOf
<1>5. UnbornUnknown'
  <2> SUFFICES ASSUME NEW n \in Nodes, Unborn(n)' PROVE Unknown(n)' /\ vm'[n] # "up"
    BY DEF UnbornUnknown
  <2>1. Unborn(n)
    BY <1>1 DEF Unborn
  <2>2. Unknown(n) /\ vm[n] # "up"
    BY <2>1 DEF GrowInv, UnbornUnknown
  <2> QED BY <1>1, <1>2, <1>3, <2>1, <2>2 DEF Unknown, Blank
<1> QED BY <1>4, <1>5 DEF GrowInv

(* A push carries what the node says of its own job. *)
LEMMA BodyJob ==
    ASSUME TypeOK, NEW n \in Nodes, NEW push \in Calls, NEW j, push.job \in {NoJob, j}
    PROVE  Body(n, push).cur \in {NoJob, Keep, j}
BY DEF Body

(* The head takes a push in: the record stays about the job it was made for. *)
LEMMA GrowHandle ==
    ASSUME TypeOK, HeadInv, PushesReserveNothing, GrowInv, NEW n \in Nodes, HandlePush(n)
    PROVE  GrowInv'
<1>1. PICK b \in wire[n] :
          LET merged == MergedNode(n, b.status, b.cur, b.res)
              over == ScopeFinished(merged)
              after == IF over THEN [merged EXCEPT !.status = "DELETED"] ELSE merged
          IN  /\ headUp
              /\ nodes' = [nodes EXCEPT ![n] = after]
              /\ hist' = IF over \/ DurableChanged(n, b.status, b.cur, b.res)
                         THEN [hist EXCEPT ![n] = after] ELSE hist
              /\ doomed' = IF over THEN doomed \cup {n} ELSE doomed
              /\ wire' = [wire EXCEPT ![n] = {}]
              /\ reply' = [reply EXCEPT ![n] = {[kind |-> b.kind, job |-> b.job,
                                                 status |-> after.status, res |-> after.res]}]
  BY DEF HandlePush
<1> DEFINE merged == MergedNode(n, b.status, b.cur, b.res)
           over == ScopeFinished(merged)
           after == IF over THEN [merged EXCEPT !.status = "DELETED"] ELSE merged
           durable == DurableChanged(n, b.status, b.cur, b.res)
<1>2. UNCHANGED <<suspects, watched, histJobs, self, todo, vm, chosen, request, toBoot>>
  BY DEF HandlePush, nodeVars, startVars
<1>3. ~Unborn(n) /\ vm[n] # "none" /\ nodes[n] \in NodeRecord /\ hist[n] \in NodeRecord
  BY <1>1, Born DEF TypeOK, HeadTypes, HistTypes
<1>4. b \in Bodies /\ b.res \in {NoJob, Keep} /\ b.status \in Statuses \cup {Keep}
  BY DEF TypeOK, NetTypes, PushesReserveNothing, Bodies
<1>5. /\ merged \in NodeRecord /\ merged.scope = nodes[n].scope
      /\ merged.res = MergedField(nodes[n].res, b.res)
      /\ merged.cur = MergedField(nodes[n].cur, b.cur)
  BY <1>3, <1>4, MergedType DEF MergedNode, NodeRecord, TypeOK, Bodies
<1>6. after.scope = merged.scope /\ after.res = merged.res /\ after.cur = merged.cur
  <2> HIDE DEF merged
  <2> QED BY <1>5 DEF NodeRecord
<1>7. /\ headUp /\ doomed' \subseteq doomed \cup {n}
      /\ nodes' = [nodes EXCEPT ![n] = after]
      /\ hist' \in {hist, [hist EXCEPT ![n] = after]}
      /\ ~durable => b.cur = Keep /\ b.res = Keep
      /\ wire' = [wire EXCEPT ![n] = {}]
      /\ \E v : v.res = after.res /\ reply' = [reply EXCEPT ![n] = {v}]
      /\ hist' = hist => over \/ durable \/ ~durable
  <2>1. \E v : v.res = after.res /\ reply' = [reply EXCEPT ![n] = {v}]
    <3> DEFINE v == [kind |-> b.kind, job |-> b.job, status |-> after.status, res |-> after.res]
    <3>1. v.res = after.res /\ reply' = [reply EXCEPT ![n] = {v}]
      BY <1>1
    <3> HIDE DEF v
    <3> QED BY <3>1
  <2> HIDE DEF merged
  <2> QED BY <1>1, <2>1 DEF DurableChanged, merged
<1>8. nodes[n].scope # NoJob => hist[n] = nodes[n]
  BY <1>3, ScopeInHistory DEF NodeRecord, JobIds
<1>9. nodes[n].scope = NoJob /\ hist' = hist => hist'[n].scope = NoJob \/ after.res = NoJob
  <2>1. SUFFICES ASSUME nodes[n].scope = NoJob, hist[n].scope # NoJob PROVE after.res = NoJob
    OBVIOUS
  <2>2. nodes[n] = Absent
    BY <1>7, <2>1 DEF HeadInv, HistoryInStep
  <2> QED BY <1>4, <1>5, <1>6, <2>2 DEF Absent, MergedField
<1> HIDE DEF merged, over, after, durable
<1>10. /\ \A m \in Nodes \ {n} : nodes'[m] = nodes[m] /\ hist'[m] = hist[m]
       /\ \A m \in Nodes \ {n} : wire'[m] = wire[m] /\ reply'[m] = reply[m]
       /\ wire'[n] = {} /\ \A v \in reply'[n] : v.res = after.res
       /\ hist'[n] \in {hist[n], after} /\ (hist'[n] = after \/ hist' = hist)
  BY <1>7 DEF TypeOK, HeadTypes, HistTypes, NetTypes
<1>11. ASSUME NEW j \in Jobs, hist'[n].scope = j
       PROVE  OnlyOf(n, j)'
  <2>1. hist[n].scope = j
    BY <1>5, <1>6, <1>8, <1>10, <1>11, NoJobAssumption
  <2>2. OnlyOf(n, j)
    BY <2>1 DEF GrowInv, ScopedToOne
  <2>3. after.res \in {NoJob, j}
    <3>1. CASE nodes[n].scope = NoJob
      BY <1>5, <1>6, <1>9, <1>10, <1>11, <3>1, NoJobAssumption
    <3>2. CASE nodes[n].scope # NoJob
      BY <1>4, <1>5, <1>6, <1>8, <2>2, <3>2 DEF MergedField, OnlyOf
    <3> QED BY <3>1, <3>2
  <2>4. hist'[n].cur \in {NoJob, j} /\ hist'[n].res \in {NoJob, j}
    <3>1. CASE hist' = hist
      BY <2>2, <3>1 DEF OnlyOf
    <3>2. CASE hist'[n] = after
      <4>1. nodes[n] = hist[n]
        BY <1>5, <1>6, <1>8, <1>11, <3>2, NoJobAssumption
      <4>2. b.cur \in {NoJob, Keep, j}
        BY <2>2 DEF OnlyOf
      <4> QED BY <1>5, <1>6, <2>2, <2>3, <3>2, <4>1, <4>2 DEF MergedField, OnlyOf
    <3> QED BY <1>10, <3>1, <3>2
  <2> QED BY <1>2, <1>10, <2>2, <2>3, <2>4 DEF OnlyOf
<1> QED BY <1>2, <1>3, <1>7, <1>10, <1>11, GrowOneNode

(* The node's side of a push: what it sends and what it makes of the answer. *)
LEMMA GrowPush ==
    ASSUME TypeOK, HeadInv, GrowInv, NEW n \in Nodes,
           LoopPush(n) \/ SendPush(n) \/ SendExpire(n) \/ ReceiveView(n) \/ LosePush(n)
    PROVE  GrowInv'
<1>0. ~Unborn(n) /\ vm[n] # "none" /\ self[n] \in SelfRecord /\ todo[n] \in Seq(Calls)
  BY Born DEF LoopPush, SendPush, SendExpire, ReceiveView, LosePush, Awake, TypeOK, NodeTypes
<1>1. CASE LoopPush(n)
  <2> DEFINE b == Body(n, Call("loop"))
  <2>1. /\ wire' = [wire EXCEPT ![n] = {b}]
        /\ UNCHANGED <<nodes, hist, doomed, suspects, watched, histJobs, chosen, request, toBoot,
                       vm, self, todo, reply>>
    BY <1>1 DEF LoopPush, headVars, histVars, startVars, nodeVars
  <2>2. b.cur = Keep
    BY DEF Body, Call
  <2> HIDE DEF b
  <2>3. \A j \in Jobs : hist[n].scope = j /\ OnlyOf(n, j) =>
            /\ self[n].res \in {NoJob, j} /\ self[n].cur \in {NoJob, j}
            /\ \A x \in {b} : x.cur \in {NoJob, Keep, j}
            /\ \A v \in reply[n] : v.res \in {NoJob, j}
            /\ \A i \in 1..Len(todo[n]) : todo[n][i].job \in {NoJob, j}
    BY <2>2 DEF OnlyOf
  <2>4. /\ self'[n] = self[n] /\ wire'[n] = {b} /\ reply'[n] = reply[n] /\ todo'[n] = todo[n]
        /\ \A m \in Nodes \ {n} :
               /\ self'[m] = self[m] /\ wire'[m] = wire[m] /\ reply'[m] = reply[m]
               /\ todo'[m] = todo[m]
    BY <2>1 DEF TypeOK, NodeTypes, NetTypes
  <2> QED BY <1>0, <2>1, <2>3, <2>4, GrowNodeStep
<1>2. CASE SendPush(n)
  <2> DEFINE b == Body(n, Head(todo[n]))
             q == Tail(todo[n])
  <2>1. /\ todo[n] # <<>>
        /\ wire' = [wire EXCEPT ![n] = {b}] /\ todo' = [todo EXCEPT ![n] = q]
        /\ UNCHANGED <<nodes, hist, doomed, suspects, watched, histJobs, chosen, request, toBoot,
                       vm, self, reply>>
    BY <1>2 DEF SendPush, headVars, histVars, startVars
  <2>2. /\ Len(todo[n]) \in Nat /\ Len(todo[n]) # 0 /\ Head(todo[n]) = todo[n][1]
        /\ Head(todo[n]) \in Calls
        /\ Len(q) = Len(todo[n]) - 1 /\ \A i \in 1..Len(q) : q[i] = todo[n][i + 1]
    BY <1>0, <2>1, HeadTailProperties, LenProperties, EmptySeq
  <2>3. ASSUME NEW j \in Jobs, OnlyOf(n, j) PROVE b.cur \in {NoJob, Keep, j}
    <3>1. Head(todo[n]).job \in {NoJob, j}
      BY <2>2, <2>3 DEF OnlyOf
    <3>2. \A push \in Calls : push.job \in {NoJob, j} => Body(n, push).cur \in {NoJob, Keep, j}
      BY BodyJob
    <3> HIDE DEF b
    <3>3. Body(n, Head(todo[n])).cur \in {NoJob, Keep, j}
      BY <2>2, <3>1, <3>2
    <3> QED BY <3>3 DEF b
  <2>4. ASSUME NEW j \in Jobs, OnlyOf(n, j), NEW i \in 1..Len(q)
        PROVE  q[i].job \in {NoJob, j}
    <3>1. i + 1 \in 1..Len(todo[n]) /\ q[i] = todo[n][i + 1]
      BY <2>2
    <3> QED BY <2>4, <3>1 DEF OnlyOf
  <2> HIDE DEF b, q
  <2>5. \A j \in Jobs : hist[n].scope = j /\ OnlyOf(n, j) =>
            /\ self[n].res \in {NoJob, j} /\ self[n].cur \in {NoJob, j}
            /\ \A x \in {b} : x.cur \in {NoJob, Keep, j}
            /\ \A v \in reply[n] : v.res \in {NoJob, j}
            /\ \A i \in 1..Len(q) : q[i].job \in {NoJob, j}
    BY <2>3, <2>4 DEF OnlyOf
  <2>6. /\ self'[n] = self[n] /\ wire'[n] = {b} /\ reply'[n] = reply[n] /\ todo'[n] = q
        /\ \A m \in Nodes \ {n} :
               /\ self'[m] = self[m] /\ wire'[m] = wire[m] /\ reply'[m] = reply[m]
               /\ todo'[m] = todo[m]
    BY <2>1 DEF TypeOK, NodeTypes, NetTypes
  <2> QED BY <1>0, <2>1, <2>5, <2>6, GrowNodeStep
<1>3. CASE SendExpire(n)
  <2> DEFINE b == Body(n, Call("expire"))
             s == [self[n] EXCEPT !.void = FALSE]
  <2>1. /\ wire' = [wire EXCEPT ![n] = {b}] /\ self' = [self EXCEPT ![n] = s]
        /\ UNCHANGED <<nodes, hist, doomed, suspects, watched, histJobs, chosen, request, toBoot,
                       vm, todo, reply>>
    BY <1>3 DEF SendExpire, headVars, histVars, startVars
  <2>2. b.cur = Keep /\ s.res = self[n].res /\ s.cur = self[n].cur
    BY <1>0 DEF Body, Call, SelfRecord
  <2> HIDE DEF b, s
  <2>3. \A j \in Jobs : hist[n].scope = j /\ OnlyOf(n, j) =>
            /\ s.res \in {NoJob, j} /\ s.cur \in {NoJob, j}
            /\ \A x \in {b} : x.cur \in {NoJob, Keep, j}
            /\ \A v \in reply[n] : v.res \in {NoJob, j}
            /\ \A i \in 1..Len(todo[n]) : todo[n][i].job \in {NoJob, j}
    BY <2>2 DEF OnlyOf
  <2>4. /\ self'[n] = s /\ wire'[n] = {b} /\ reply'[n] = reply[n] /\ todo'[n] = todo[n]
        /\ \A m \in Nodes \ {n} :
               /\ self'[m] = self[m] /\ wire'[m] = wire[m] /\ reply'[m] = reply[m]
               /\ todo'[m] = todo[m]
    BY <2>1 DEF TypeOK, NodeTypes, NetTypes
  <2> QED BY <1>0, <2>1, <2>3, <2>4, GrowNodeStep
<1>4. CASE ReceiveView(n)
  <2>1. PICK r \in reply[n] :
            /\ reply' = [reply EXCEPT ![n] = {}]
            /\ vm' \in {vm, [vm EXCEPT ![n] = "gone"]}
            /\ self' = [self EXCEPT ![n] = AfterView(n, r)]
    BY <1>4 DEF ReceiveView
  <2>2. UNCHANGED <<nodes, hist, doomed, suspects, watched, histJobs, chosen, request, toBoot,
                    todo, wire>>
    BY <1>4 DEF ReceiveView, headVars, histVars, startVars
  <2> DEFINE s == AfterView(n, r)
  <2>3. s.res \in {self[n].res, r.res} /\ s.cur \in {self[n].cur, NoJob}
    BY <1>0 DEF AfterView, SelfRecord
  <2>a. self' = [self EXCEPT ![n] = s]
    BY <2>1
  <2> HIDE DEF s
  <2>4. \A j \in Jobs : hist[n].scope = j /\ OnlyOf(n, j) =>
            /\ s.res \in {NoJob, j} /\ s.cur \in {NoJob, j}
            /\ \A x \in wire[n] : x.cur \in {NoJob, Keep, j}
            /\ \A v \in {} : v.res \in {NoJob, j}
            /\ \A i \in 1..Len(todo[n]) : todo[n][i].job \in {NoJob, j}
    BY <2>3 DEF OnlyOf
  <2>5. /\ self'[n] = s /\ wire'[n] = wire[n] /\ reply'[n] = {} /\ todo'[n] = todo[n]
        /\ \A m \in Nodes \ {n} :
               /\ self'[m] = self[m] /\ wire'[m] = wire[m] /\ reply'[m] = reply[m]
               /\ todo'[m] = todo[m]
    BY <2>1, <2>2, <2>a DEF TypeOK, NodeTypes, NetTypes
  <2> QED BY <1>0, <2>1, <2>2, <2>4, <2>5, GrowNodeStep
<1>5. CASE LosePush(n)
  <2>1. PICK b \in wire[n] \cup reply[n] :
            /\ AfterFailedPush(n, b)
            /\ wire' = [wire EXCEPT ![n] = {}]
            /\ reply' = [reply EXCEPT ![n] = {}]
    BY <1>5 DEF LosePush
  <2>2. UNCHANGED <<nodes, hist, doomed, suspects, watched, histJobs, chosen, request, toBoot>>
    BY <1>5 DEF LosePush, headVars, histVars, startVars
  <2>3. vm' \in {vm, [vm EXCEPT ![n] = "gone"]}
    BY <2>1 DEF AfterFailedPush
  <2>4. \E s : /\ self' = [self EXCEPT ![n] = s]
               /\ s.res = self[n].res /\ s.cur = self[n].cur
    <3> DEFINE s1 == [self[n] EXCEPT !.phase = "unannounced"]
               s2 == [self[n] EXCEPT !.status = "FAILED", !.phase = "failed"]
               s3 == [self[n] EXCEPT !.status = "BOOTING", !.phase = "rebooting"]
    <3>1. \A s \in {s1, s2, s3, self[n]} : s.res = self[n].res /\ s.cur = self[n].cur
      BY <1>0 DEF SelfRecord
    <3>2. \/ self' = [self EXCEPT ![n] = s1] \/ self' = [self EXCEPT ![n] = s2]
          \/ self' = [self EXCEPT ![n] = s3] \/ self' = [self EXCEPT ![n] = self[n]]
      BY <2>1, SameEntries DEF AfterFailedPush
    <3> HIDE DEF s1, s2, s3
    <3> QED BY <3>1, <3>2
  <2>5. PICK s : /\ self' = [self EXCEPT ![n] = s]
                 /\ s.res = self[n].res /\ s.cur = self[n].cur
    BY <2>4
  <2>6. \E kind \in Kinds : todo' = Queued(n, kind) \/ todo' = todo
    BY <2>1 DEF AfterFailedPush, Kinds
  <2>7. PICK kind \in Kinds : todo' = Queued(n, kind) \/ todo' = todo
    BY <2>6
  <2>8. todo'[n] \in {Queued(n, kind)[n], todo[n]} /\ todo' = [todo EXCEPT ![n] = todo'[n]]
    BY <1>0, <2>7, SameEntries DEF Queued, TypeOK, NodeTypes
  <2> DEFINE q == todo'[n]
  <2>9. todo' = [todo EXCEPT ![n] = q]
    BY <2>8
  <2>10. ASSUME NEW j \in Jobs, OnlyOf(n, j)
         PROVE  \A i \in 1..Len(q) : q[i].job \in {NoJob, j}
    BY <2>8, <2>10, QueuedJob DEF OnlyOf
  <2> HIDE DEF q
  <2>11. \A j \in Jobs : hist[n].scope = j /\ OnlyOf(n, j) =>
            /\ s.res \in {NoJob, j} /\ s.cur \in {NoJob, j}
            /\ \A x \in {} : x.cur \in {NoJob, Keep, j}
            /\ \A v \in {} : v.res \in {NoJob, j}
            /\ \A i \in 1..Len(q) : q[i].job \in {NoJob, j}
    BY <2>5, <2>10 DEF OnlyOf
  <2>12. /\ self'[n] = s /\ wire'[n] = {} /\ reply'[n] = {} /\ todo'[n] = q
        /\ \A m \in Nodes \ {n} :
               /\ self'[m] = self[m] /\ wire'[m] = wire[m] /\ reply'[m] = reply[m]
               /\ todo'[m] = todo[m]
    BY <2>1, <2>5, <2>9 DEF TypeOK, NodeTypes, NetTypes
  <2> QED BY <1>0, <2>1, <2>2, <2>3, <2>5, <2>11, <2>12, GrowNodeStep
<1> QED BY <1>1, <1>2, <1>3, <1>4, <1>5

(* The node's side of a job.  It takes a job only from a client that was told of it. *)
LEMMA GrowJob ==
    ASSUME TypeOK, HeadInv, GrowInv, NEW n \in Nodes, JobStep(n)
    PROVE  GrowInv'
<1>0. self[n] \in SelfRecord /\ todo[n] \in Seq(Calls)
  BY DEF TypeOK, NodeTypes
<1>1. CASE \E j \in Jobs : RefuseJob(j, n)
  BY <1>1, GrowUnchanged DEF RefuseJob, growVars, headVars, histVars, startVars, nodeVars, netVars
<1>2. CASE ~ \E j \in Jobs : RefuseJob(j, n)
  <2>0. Awake(n)
    BY <1>2 DEF JobStep, FinishBoot, ExecuteJob, NoCompatibleWorker, DisconnectMidAssign,
       LeaveJob, LeaveJobByReboot, ExpireReservation, ShutDownIdle, AssignJob, Addressable
  <2>1. /\ ~Unborn(n)
        /\ UNCHANGED <<nodes, hist, doomed, suspects, watched, histJobs, chosen, request, toBoot,
                       vm, wire, reply>>
    BY <1>2, <2>0, Born DEF JobStep, FinishBoot, ExecuteJob, NoCompatibleWorker, DisconnectMidAssign,
       LeaveJob, LeaveJobByReboot, ExpireReservation, ShutDownIdle, AssignJob, Addressable,
       Awake, headVars, histVars, startVars, netVars
  <2>2. \E s, c : /\ self' = [self EXCEPT ![n] = s]
                  /\ \/ s.res \in {self[n].res, NoJob} /\ s.cur \in {self[n].cur, NoJob}
                     \/ s.res = NoJob /\ s.cur = c.job /\ n \in histJobs[c.job].given /\ c.job \in Jobs
                  /\ \/ todo' = [todo EXCEPT ![n] = todo[n]] /\ c = Call("loop")
                     \/ todo' = [todo EXCEPT ![n] = Append(todo[n], c)]
                  /\ c \in Calls
                  /\ c.job = NoJob \/ (n \in histJobs[c.job].given /\ c.job \in Jobs)
    <3> DEFINE Case(s, c) ==
                   /\ self' = [self EXCEPT ![n] = s]
                   /\ \/ s.res \in {self[n].res, NoJob} /\ s.cur \in {self[n].cur, NoJob}
                      \/ s.res = NoJob /\ s.cur = c.job /\ n \in histJobs[c.job].given /\ c.job \in Jobs
                   /\ \/ todo' = [todo EXCEPT ![n] = todo[n]] /\ c = Call("loop")
                      \/ todo' = [todo EXCEPT ![n] = Append(todo[n], c)]
                   /\ c \in Calls
                   /\ c.job = NoJob \/ (n \in histJobs[c.job].given /\ c.job \in Jobs)
    <3> SUFFICES \E s, c : Case(s, c)
      OBVIOUS
    <3>0. \A kind \in Kinds : /\ Call(kind) \in Calls /\ Call(kind).job = NoJob
                              /\ Queued(n, kind) = [todo EXCEPT ![n] = Append(todo[n], Call(kind))]
      BY CallType DEF Call, Queued
    <3>1. CASE FinishBoot(n)
      <4> DEFINE s == [self[n] EXCEPT !.status = "READY", !.phase = "idle"]
      <4>1. s.res = self[n].res /\ s.cur = self[n].cur
        BY <1>0 DEF SelfRecord
      <4>2. self' = [self EXCEPT ![n] = s] /\ todo' = Queued(n, "ready")
        BY <3>1 DEF FinishBoot
      <4> HIDE DEF s
      <4>3. Case(s, Call("ready"))
        BY <3>0, <4>1, <4>2 DEF Kinds
      <4> QED BY <4>3
    <3>2. CASE ExecuteJob(n)
      <4> DEFINE s == [self[n] EXCEPT !.phase = "running"]
      <4>1. s.res = self[n].res /\ s.cur = self[n].cur
        BY <1>0 DEF SelfRecord
      <4>2. self' = [self EXCEPT ![n] = s] /\ todo' = [todo EXCEPT ![n] = todo[n]]
        BY <3>2, SameEntries DEF ExecuteJob
      <4> HIDE DEF s
      <4>3. Case(s, Call("loop"))
        BY <3>0, <4>1, <4>2 DEF Kinds
      <4> QED BY <4>3
    <3>3. CASE NoCompatibleWorker(n)
      <4> DEFINE s == [self[n] EXCEPT !.status = "READY", !.cur = NoJob, !.phase = "idle"]
      <4>1. s.res = self[n].res /\ s.cur = NoJob
        BY <1>0 DEF SelfRecord
      <4>2. self' = [self EXCEPT ![n] = s] /\ todo' = Queued(n, "refuse")
        BY <3>3 DEF NoCompatibleWorker
      <4> HIDE DEF s
      <4>3. Case(s, Call("refuse"))
        BY <3>0, <4>1, <4>2 DEF Kinds
      <4> QED BY <4>3
    <3>4. CASE DisconnectMidAssign(n)
      <4>1. CASE self[n].phase = "assigning"
        <5> DEFINE s == [self[n] EXCEPT !.status = "READY", !.cur = NoJob, !.phase = "idle"]
        <5>1. s.res = self[n].res /\ s.cur = NoJob
          BY <1>0 DEF SelfRecord
        <5>2. self' = [self EXCEPT ![n] = s] /\ todo' = Queued(n, "rollback")
          BY <3>4, <4>1 DEF DisconnectMidAssign
        <5> HIDE DEF s
        <5>3. Case(s, Call("rollback"))
          BY <3>0, <5>1, <5>2 DEF Kinds
        <5> QED BY <5>3
      <4>2. CASE self[n].phase # "assigning"
        <5> DEFINE s == [self[n] EXCEPT !.phase = "wedged"]
        <5>1. s.res = self[n].res /\ s.cur = self[n].cur
          BY <1>0 DEF SelfRecord
        <5>2. self' = [self EXCEPT ![n] = s] /\ todo' = [todo EXCEPT ![n] = todo[n]]
          BY <3>4, <4>2, SameEntries DEF DisconnectMidAssign
        <5> HIDE DEF s
        <5>3. Case(s, Call("loop"))
          BY <3>0, <5>1, <5>2 DEF Kinds
        <5> QED BY <5>3
      <4> QED BY <4>1, <4>2
    <3>5. CASE LeaveJob(n)
      <4> DEFINE s == [status |-> "READY", cur |-> NoJob, res |-> NoJob, void |-> FALSE,
                       phase |-> "idle"]
      <4>1. s.res = NoJob /\ s.cur = NoJob
        OBVIOUS
      <4>2. self' = [self EXCEPT ![n] = s] /\ todo' = Queued(n, "reinit")
        BY <3>5 DEF LeaveJob
      <4> HIDE DEF s
      <4>3. Case(s, Call("reinit"))
        BY <3>0, <4>1, <4>2 DEF Kinds
      <4> QED BY <4>3
    <3>6. CASE LeaveJobByReboot(n)
      <4> DEFINE s == [self[n] EXCEPT !.status = "BOOTING", !.phase = "rebooting"]
      <4>1. s.res = self[n].res /\ s.cur = self[n].cur
        BY <1>0 DEF SelfRecord
      <4>2. self' = [self EXCEPT ![n] = s] /\ todo' = Queued(n, "reboot")
        BY <3>6 DEF LeaveJobByReboot
      <4> HIDE DEF s
      <4>3. Case(s, Call("reboot"))
        BY <3>0, <4>1, <4>2 DEF Kinds
      <4> QED BY <4>3
    <3>7. CASE ExpireReservation(n)
      <4> DEFINE s == [self[n] EXCEPT !.res = NoJob, !.void = TRUE]
      <4>1. s.res = NoJob /\ s.cur = self[n].cur
        BY <1>0 DEF SelfRecord
      <4>2. self' = [self EXCEPT ![n] = s] /\ todo' = [todo EXCEPT ![n] = todo[n]]
        BY <3>7, SameEntries DEF ExpireReservation
      <4> HIDE DEF s
      <4>3. Case(s, Call("loop"))
        BY <3>0, <4>1, <4>2 DEF Kinds
      <4> QED BY <4>3
    <3>8. CASE ShutDownIdle(n)
      <4> DEFINE s == [self[n] EXCEPT !.status = "DELETED", !.phase = "closing"]
      <4>1. s.res = self[n].res /\ s.cur = self[n].cur
        BY <1>0 DEF SelfRecord
      <4>2. self' = [self EXCEPT ![n] = s] /\ todo' = Queued(n, "bye")
        BY <3>8 DEF ShutDownIdle
      <4> HIDE DEF s
      <4>3. Case(s, Call("bye"))
        BY <3>0, <4>1, <4>2 DEF Kinds
      <4> QED BY <4>3
    <3>9. ASSUME NEW j \in Jobs, AssignJob(j, n)
          PROVE  \E s, c : Case(s, c)
      <4> DEFINE s == [status |-> "RUNNING", cur |-> j, res |-> NoJob, void |-> FALSE,
                       phase |-> "assigning"]
                 c == [kind |-> "start", job |-> j]
      <4>1. s.res = NoJob /\ s.cur = j /\ c.job = j /\ c \in Calls
        BY DEF Calls, Kinds, JobIds
      <4>2. /\ self' = [self EXCEPT ![n] = s] /\ n \in histJobs[j].given
            /\ todo' = [todo EXCEPT ![n] = Append(todo[n], c)]
        BY <3>9 DEF AssignJob, Addressable
      <4> HIDE DEF s, c
      <4>3. Case(s, c)
        BY <4>1, <4>2
      <4> QED BY <4>3
    <3> HIDE DEF Case
    <3> QED
      BY <1>2, <3>1, <3>2, <3>3, <3>4, <3>5, <3>6, <3>7, <3>8, <3>9 DEF JobStep
  <2>3. PICK s, c : /\ self' = [self EXCEPT ![n] = s]
                    /\ \/ s.res \in {self[n].res, NoJob} /\ s.cur \in {self[n].cur, NoJob}
                       \/ s.res = NoJob /\ s.cur = c.job /\ n \in histJobs[c.job].given /\ c.job \in Jobs
                    /\ \/ todo' = [todo EXCEPT ![n] = todo[n]] /\ c = Call("loop")
                       \/ todo' = [todo EXCEPT ![n] = Append(todo[n], c)]
                    /\ c \in Calls
                    /\ c.job = NoJob \/ (n \in histJobs[c.job].given /\ c.job \in Jobs)
    BY <2>2
  <2>4. \E q \in {todo[n], Append(todo[n], c)} : todo' = [todo EXCEPT ![n] = q]
    BY <2>3
  <2>5. PICK q \in {todo[n], Append(todo[n], c)} : todo' = [todo EXCEPT ![n] = q]
    BY <2>4
  <2>6. ASSUME NEW j \in Jobs, OnlyOf(n, j) PROVE c.job \in {NoJob, j}
    BY <2>3, <2>6 DEF OnlyOf
  <2>7. ASSUME NEW j \in Jobs, OnlyOf(n, j)
        PROVE  \A i \in 1..Len(q) : q[i].job \in {NoJob, j}
    BY <1>0, <2>3, <2>5, <2>6, <2>7, AppendJob DEF OnlyOf
  <2>8. ASSUME NEW j \in Jobs, OnlyOf(n, j)
        PROVE  s.res \in {NoJob, j} /\ s.cur \in {NoJob, j}
    BY <2>3, <2>6, <2>8, NoJobAssumption DEF OnlyOf
  <2>9. \A j \in Jobs : hist[n].scope = j /\ OnlyOf(n, j) =>
            /\ s.res \in {NoJob, j} /\ s.cur \in {NoJob, j}
            /\ \A x \in wire[n] : x.cur \in {NoJob, Keep, j}
            /\ \A v \in reply[n] : v.res \in {NoJob, j}
            /\ \A i \in 1..Len(q) : q[i].job \in {NoJob, j}
    BY <2>7, <2>8 DEF OnlyOf
  <2>10. /\ self'[n] = s /\ wire'[n] = wire[n] /\ reply'[n] = reply[n] /\ todo'[n] = q
        /\ \A m \in Nodes \ {n} :
               /\ self'[m] = self[m] /\ wire'[m] = wire[m] /\ reply'[m] = reply[m]
               /\ todo'[m] = todo[m]
    BY <2>1, <2>3, <2>5 DEF TypeOK, NodeTypes, NetTypes
  <2> QED BY <1>0, <2>1, <2>3, <2>9, <2>10, GrowNodeStep
<1> QED BY <1>1, <1>2

(* Every step preserves the invariant. *)
LEMMA GrowStep ==
    ASSUME TypeOK, HeadInv, PushesReserveNothing, GrowInv, [Next]_vars
    PROVE  GrowInv'
<1>1. CASE StartStep
  BY <1>1, GrowStart DEF StartStep
<1>2. ASSUME NEW n \in Nodes, PushStep(n)
      PROVE  GrowInv'
  BY <1>2, GrowPush, GrowHandle DEF PushStep
<1>3. ASSUME NEW n \in Nodes, JobStep(n)
      PROVE  GrowInv'
  BY <1>3, GrowJob
<1>4. CASE HeadStep
  <2>1. CASE PauseAdmission \/ ResumeAdmission
    BY <2>1, GrowUnchanged DEF PauseAdmission, ResumeAdmission, growVars, histVars, startVars,
       nodeVars, netVars
  <2>2. CASE CrashHead \/ RestartHead
    BY <2>2, GrowRestart
  <2>3. ASSUME NEW n \in Nodes, NEW j \in Jobs, StartNode(n, j)
        PROVE  GrowInv'
    BY <2>3, GrowStartNode
  <2>4. ASSUME NEW n \in Nodes, NEW j \in Jobs, FailNode(n, j)
        PROVE  GrowInv'
    <3>1. /\ headUp /\ n \in given[j]
          /\ nodes' = [nodes EXCEPT ![n] = MergedNode(n, "FAILED", Keep, Keep)]
          /\ hist' = [hist EXCEPT ![n] = MergedNode(n, "FAILED", Keep, Keep)]
          /\ doomed' = doomed \cup {n}
          /\ UNCHANGED <<suspects, watched, self, todo, histJobs, chosen, request, toBoot, vm,
                         wire, reply>>
      BY <2>4 DEF FailNode, startVars, nodeVars, netVars
    <3>2. n \in histJobs[j].given
      BY <3>1, HistoryJobs DEF HeadInv
    <3>3. CASE Unborn(n)
      BY <3>1, <3>2, <3>3, UnbornEnds
    <3>4. CASE ~Unborn(n)
      BY <3>1, <3>4, TerminalGrow
    <3> QED BY <3>3, <3>4
  <2>5. ASSUME NEW j \in Jobs, NEW status, EndJob(j, status)
        PROVE  GrowInv'
    BY <2>5, GrowEndJob
  <2>6. ASSUME NEW n \in Nodes, BootFails(n)
        PROVE  GrowInv'
    <3>1. /\ headUp /\ n \in watched /\ watched' = watched \ {n}
          /\ nodes' = [nodes EXCEPT ![n] = MergedNode(n, "FAILED", Keep, Keep)]
          /\ hist' = [hist EXCEPT ![n] = MergedNode(n, "FAILED", Keep, Keep)]
          /\ vm' = [vm EXCEPT ![n] = "gone"]
          /\ wire' = [wire EXCEPT ![n] = {}] /\ reply' = [reply EXCEPT ![n] = {}]
          /\ UNCHANGED <<doomed, suspects, self, todo, histJobs, chosen, request, toBoot>>
      BY <2>6 DEF BootFails, KillVm, startVars
    <3>2. ~Unborn(n)
      BY <3>1, Born
    <3> QED BY <3>1, <3>2, TerminalGrow
  <2>7. ASSUME NEW n \in Nodes, DeleteNode(n)
        PROVE  GrowInv'
    <3>1. /\ headUp /\ n \in doomed /\ doomed' = doomed \ {n}
          /\ nodes' = [nodes EXCEPT ![n] = MergedNode(n, "DELETED", Keep, Keep)]
          /\ hist' = [hist EXCEPT ![n] = MergedNode(n, "DELETED", Keep, Keep)]
          /\ vm' = [vm EXCEPT ![n] = "gone"]
          /\ wire' = [wire EXCEPT ![n] = {}] /\ reply' = [reply EXCEPT ![n] = {}]
          /\ UNCHANGED <<watched, suspects, self, todo, histJobs, chosen, request, toBoot>>
      BY <2>7 DEF DeleteNode, KillVm, startVars
    <3>2. CASE Unborn(n)
      <4>1. PICK k \in Jobs : n \in histJobs[k].given
        BY <3>1, <3>2 DEF GrowInv, UnbornUnknown, Unknown
      <4> QED BY <3>1, <3>2, <4>1, UnbornEnds
    <3>3. CASE ~Unborn(n)
      BY <3>1, <3>3, TerminalGrow
    <3> QED BY <3>2, <3>3
  <2>8. ASSUME NEW n \in Nodes, GoStale(n)
        PROVE  GrowInv'
    BY <2>8, GrowUnchanged DEF GoStale, growVars, histVars, startVars, nodeVars, netVars
  <2>9. ASSUME NEW n \in Nodes, SuspectNode(n)
        PROVE  GrowInv'
    <3>1. /\ headUp /\ nodes[n].status \in LiveStatuses /\ suspects' = suspects \cup {n}
          /\ UNCHANGED <<nodes, hist, doomed, watched, self, todo, histJobs, chosen, request,
                         toBoot, vm, wire, reply>>
      BY <2>9 DEF SuspectNode, histVars, startVars, nodeVars, netVars, LiveStatuses
    <3>2. ~Unborn(n) /\ vm[n] # "none"
      BY <3>1, Born
    <3>3. \A j \in Jobs : hist'[n].scope = j => OnlyOf(n, j)'
      BY <3>1 DEF GrowInv, ScopedToOne, OnlyOf
    <3> QED BY <3>1, <3>2, <3>3, GrowOneNode
  <2>10. ASSUME NEW n \in Nodes, ReapNode(n)
         PROVE  GrowInv'
    <3>1. /\ headUp /\ n \in suspects /\ suspects' = suspects \ {n}
          /\ nodes' = [nodes EXCEPT ![n] = MergedNode(n, "DELETED", Keep, Keep)]
          /\ hist' = [hist EXCEPT ![n] = MergedNode(n, "DELETED", Keep, Keep)]
          /\ vm' = [vm EXCEPT ![n] = "gone"]
          /\ wire' = [wire EXCEPT ![n] = {}] /\ reply' = [reply EXCEPT ![n] = {}]
          /\ UNCHANGED <<watched, doomed, self, todo, histJobs, chosen, request, toBoot>>
      BY <2>10 DEF ReapNode, KillVm, startVars
    <3>2. ~Unborn(n)
      BY <3>1, Born
    <3> QED BY <3>1, <3>2, TerminalGrow
  <2> QED
    BY <1>4, <2>1, <2>2, <2>3, <2>4, <2>5, <2>6, <2>7, <2>8, <2>9, <2>10 DEF HeadStep
<1>5. CASE UNCHANGED vars
  BY <1>5, GrowUnchanged DEF vars, growVars, headVars, histVars, startVars, nodeVars, netVars
<1> QED BY <1>1, <1>2, <1>3, <1>4, <1>5 DEF Next

(* At the start no name is drawn and no VM is anybody's. *)
LEMMA InitGrow ==
    ASSUME Init
    PROVE  GrowInv
<1>0. PICK s \in Starts : StartFrom(s)
  BY DEF Init
<1>1. /\ \A j \in Jobs, a \in Attempts : chosen[j][a].planned = {}
      /\ \A n \in Nodes : hist[n].scope = NoJob
      /\ \A n \in Nodes : vm[n] = "none" => n \notin s.warm /\ n \in s.free
      /\ \A n \in Nodes : n \notin s.warm => nodes[n] = Absent
      /\ \A n \in Nodes : n \in s.free /\ n \notin s.warm => hist[n] = Absent
      /\ \A n \in Nodes : /\ self[n].cur = NoJob /\ wire[n] = {} /\ reply[n] = {}
                          /\ todo[n] = <<>>
      /\ doomed = {} /\ suspects = {} /\ watched = {} /\ toBoot = {}
      /\ \A j \in Jobs : histJobs[j].given = {}
  BY <1>0 DEF StartFrom, Nothing, Absent, NoRow, PastJob
<1>2. DrawnOnce /\ PlannedUnborn
  BY <1>1 DEF DrawnOnce, PlannedUnborn
<1>3. UnbornUnknown
  BY <1>1 DEF UnbornUnknown, Unborn, Unknown, Blank, Absent, LiveStatuses
<1>4. ScopedToOne
  BY <1>1, NoJobAssumption DEF ScopedToOne
<1> QED BY <1>2, <1>3, <1>4 DEF GrowInv

(* No reservation passes to another job in this step. *)
HeldOn == \A n \in Nodes : nodes[n].res # NoJob => nodes'[n].res \in {nodes[n].res, NoJob}

(* Nor in any other: whoever reserves a node found it free, and a new node's record
   is the first. *)
LEMMA HeldStep ==
    ASSUME TypeOK, HeadInv, PushesReserveNothing, GrowInv, [Next]_vars
    PROVE  HeldOn
<1>0. \A n \in Nodes : nodes[n] \in NodeRecord
  BY DEF TypeOK, HeadTypes
<1>1. ASSUME NEW n \in Nodes, NEW x \in NodeRecord, nodes' = [nodes EXCEPT ![n] = x],
             x.res \in {nodes[n].res, NoJob} \/ nodes[n].res = NoJob
      PROVE  HeldOn
  BY <1>1 DEF HeldOn, TypeOK, HeadTypes
<1>2. ASSUME UNCHANGED nodes PROVE HeldOn
  BY <1>2 DEF HeldOn
<1>3. ASSUME NEW j \in Jobs, NEW a \in Attempts,
             SelectNodes(j, a) \/ ReplayStart(j, a) \/ RefuseStart(j, a)
      PROVE  HeldOn
  BY <1>2, <1>3 DEF SelectNodes, ReplayStart, RefuseStart, headVars
<1>4. ASSUME NEW j \in Jobs, NEW a \in Attempts, AdmitJob(j, a)
      PROVE  HeldOn
  <2>1. /\ \A n \in chosen[j][a].ready : nodes[n].res = NoJob
        /\ nodes' = [n \in Nodes |-> IF n \in chosen[j][a].ready
                                     THEN [nodes[n] EXCEPT !.res = j] ELSE nodes[n]]
    BY <1>4 DEF AdmitJob, Admissible, Selectable
  <2> QED BY <2>1 DEF HeldOn
<1>5. ASSUME NEW n \in Nodes, NEW j \in Jobs, StartNode(n, j)
      PROVE  HeldOn
  <2> DEFINE x == [status |-> MergedStatus(nodes[n].status, "BOOTING"),
                   cur |-> NoJob, res |-> j, scope |-> j]
  <2>1. <<n, j>> \in toBoot /\ nodes' = [nodes EXCEPT ![n] = x]
    BY <1>5 DEF StartNode
  <2>2. nodes[n].res = NoJob
    BY <2>1 DEF GrowInv, UnbornUnknown, Unborn, Unknown, Blank
  <2> HIDE DEF x
  <2> QED BY <2>1, <2>2 DEF HeldOn, TypeOK, HeadTypes
<1>6. ASSUME NEW n \in Nodes, NEW status \in {"FAILED", "DELETED"},
             nodes' = [nodes EXCEPT ![n] = MergedNode(n, status, Keep, Keep)]
      PROVE  HeldOn
  <2>1. MergedNode(n, status, Keep, Keep) \in NodeRecord
    BY TerminalType DEF TypeOK
  <2>2. MergedNode(n, status, Keep, Keep).res \in {nodes[n].res, NoJob}
    BY MergedShape
  <2> QED BY <1>1, <1>6, <2>1, <2>2
<1>7. ASSUME NEW j \in Jobs, NEW status, EndJob(j, status)
      PROVE  HeldOn
  BY <1>0, <1>7 DEF EndJob, Released, HeldOn, NodeRecord
<1>8. ASSUME CrashHead \/ RestartHead
      PROVE  HeldOn
  BY <1>8 DEF CrashHead, RestartHead, HeldOn, HeadInv, DownIsEmpty, Absent
<1>9. ASSUME NEW n \in Nodes, HandlePush(n)
      PROVE  HeldOn
  <2>1. PICK b \in wire[n] :
            nodes' = [nodes EXCEPT ![n] =
                         IF ScopeFinished(MergedNode(n, b.status, b.cur, b.res))
                         THEN [MergedNode(n, b.status, b.cur, b.res) EXCEPT !.status = "DELETED"]
                         ELSE MergedNode(n, b.status, b.cur, b.res)]
    BY <1>9 DEF HandlePush
  <2> DEFINE x == MergedNode(n, b.status, b.cur, b.res)
             y == [x EXCEPT !.status = "DELETED"]
  <2>2. x \in NodeRecord /\ y \in NodeRecord
    BY HandledType DEF TypeOK
  <2>3. x.res \in {nodes[n].res, NoJob}
    BY MergedShape DEF PushesReserveNothing
  <2>4. nodes' = [nodes EXCEPT ![n] = x] \/ nodes' = [nodes EXCEPT ![n] = y]
    BY <2>1
  <2> HIDE DEF x
  <2>5. y.res = x.res
    BY <2>2 DEF NodeRecord
  <2> HIDE DEF y
  <2> QED BY <1>1, <2>2, <2>3, <2>4, <2>5
<1>10. CASE HeadStep
  BY <1>2, <1>5, <1>6, <1>7, <1>8, <1>10 DEF HeadStep, PauseAdmission, ResumeAdmission, FailNode,
     BootFails, DeleteNode, GoStale, SuspectNode, ReapNode
<1>11. ASSUME NEW n \in Nodes, PushStep(n)
       PROVE  HeldOn
  BY <1>2, <1>9, <1>11 DEF PushStep, LoopPush, SendPush, SendExpire, ReceiveView, LosePush, headVars
<1>12. ASSUME NEW n \in Nodes, JobStep(n)
       PROVE  HeldOn
  BY <1>2, <1>12 DEF JobStep, FinishBoot, ExecuteJob, NoCompatibleWorker, DisconnectMidAssign,
     LeaveJob, LeaveJobByReboot, ExpireReservation, ShutDownIdle, AssignJob, RefuseJob, headVars
<1>13. CASE StartStep
  BY <1>3, <1>4, <1>13 DEF StartStep
<1>14. CASE UNCHANGED vars
  BY <1>2, <1>14 DEF vars, headVars
<1> QED BY <1>10, <1>11, <1>12, <1>13, <1>14 DEF Next

(* Names, boots and messages of grown nodes stay in order in every reachable state. *)
THEOREM GrowInvariance == Spec => []GrowInv
<1>1. TypeOK /\ (HeadInv /\ PushesReserveNothing) /\ GrowInv /\ [Next]_vars => GrowInv'
  BY GrowStep
<1> QED BY InitGrow, TypeCorrect, Invariance, <1>1, PTL DEF Spec

(* A node booted for a job is never another's, and a reservation is given up before
   another job gets the node, whatever requests compete and messages are lost. *)
THEOREM NodesStayPromisedOnce == Spec => NodesPromisedOnce
<1>1. TypeOK /\ (HeadInv /\ PushesReserveNothing) /\ GrowInv => GrownForOneJob
  <2> SUFFICES ASSUME TypeOK, HeadInv, GrowInv, NEW n \in Nodes, NEW j \in Jobs,
                      nodes[n].scope = j
               PROVE  /\ {nodes[n].res, nodes[n].cur, self[n].res, self[n].cur} \subseteq {NoJob, j}
                      /\ \A k \in Jobs \ {j} : n \notin given[k]
    BY DEF GrownForOneJob
  <2>1. hist[n] = nodes[n] /\ \A k \in Jobs : histJobs[k].given = given[k]
    BY ScopeInHistory
  <2>2. OnlyOf(n, j)
    BY <2>1 DEF GrowInv, ScopedToOne
  <2> QED BY <2>1, <2>2 DEF OnlyOf
<1>2. TypeOK /\ (HeadInv /\ PushesReserveNothing) /\ GrowInv /\ [Next]_vars => HeldOn
  BY HeldStep
<1>3. TypeOK /\ (HeadInv /\ PushesReserveNothing) /\ GrowInv /\ [Next]_vars =>
          [\A n \in Nodes : nodes[n].res # NoJob => nodes'[n].res \in {nodes[n].res, NoJob}]_vars
  BY <1>2 DEF HeldOn
<1> QED
  BY TypeCorrect, Invariance, GrowInvariance, <1>1, <1>3, PTL
     DEF Spec, NodesPromisedOnce, ReservationsHold

=============================================================================
