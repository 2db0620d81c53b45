---------------------------- MODULE VmFleetProofs ----------------------------
(* Proofs about VmFleet: for any number of nodes and tasks and any mix of failures,
   a VM under a job goes only for one of the reasons BusyVmKept names, and what a
   sweep took does not come back. *)
EXTENDS VmFleet, TLAPS

Task == [at : {"new", "deleting", "booting", "done", "failed"},
         took : SUBSET Nodes, mine : SUBSET Nodes]

(* TypeOK with the domain of task, a dead head's tasks, and what is left to happen. *)
Types ==
    /\ TypeOK
    /\ task \in [Tasks -> Task]
    /\ \A t \in Tasks : task[t].at \in {"deleting", "booting", "done"} => Up
    /\ \A k \in Kinds : may[k] <= mix.may[k]

(* A name nobody used, or whose VM the cloud does not have yet. *)
Fresh ==
    \A n \in Nodes :
      /\ row[n] = "absent" => rec[n] = "absent" /\ vm[n] = "none" /\ starter[n] = "none"
                              /\ n \notin hosted
      /\ starter[n] = "create" => vm[n] = "none"
      /\ starter[n] \in {"create", "inserted"} =>
             n \notin hosted /\ agent[n] \in {"none", "script", "dead"}

(* The node will not be ready again. *)
Ended(n) ==
    \/ agent[n] \in {"dead", "wedged", "leaving"}
    \/ agent[n] = "none" /\ row[n] # "absent" /\ starter[n] # "create"

(* Its script waits for a certificate it cannot get. *)
Stuck(n) ==
    /\ agent[n] = "script" /\ row[n] # "absent"
    /\ n \notin hosted /\ starter[n] \notin {"create", "inserted"}

(* Nobody takes the VM from under a job by deleting it. *)
Harmless(n) == n \in asked \/ n \in doubted \/ Ended(n) \/ Stuck(n)

(* Who is about to delete a VM, or told that it is not wanted, has a reason. *)
Reasons ==
    /\ \A n \in Nodes :
         /\ starter[n] = "failing" => Harmless(n)
         /\ {rec[n], row[n]} \cap {"FAILED", "DELETED"} # {} => Harmless(n)
         /\ "READY" \in {rec[n], row[n]} =>
                agent[n] # "script" /\ starter[n] \notin {"create", "inserted"}
    /\ \A d \in dels : Harmless(d.node)
    /\ \A s \in suspects : Harmless(s.node)

(* A sweep under way still has the mark of a node to set, or has set it. *)
Swept(t, n) ==
    \/ rec[n] \in LiveStatuses => n \in bare
    \/ /\ task[t].at = "deleting"
       /\ \E d \in dels : d.node = n /\ d.by = t /\ d.step = "mark"

Sweeping ==
    \A t \in Tasks : task[t].at \in {"deleting", "booting", "done"} =>
        \A n \in task[t].took : row[n] # "absent" /\ Swept(t, n)

IInv == Types /\ Fresh /\ Reasons /\ Sweeping

-----------------------------------------------------------------------------
(* What the helpers do. *)

(* What a status of LiveStatuses does not undo. *)
Closed == {"FAILED", "DELETED"}

(* A record and a row that are merged have one of the two statuses. *)
LEMMA UpdateMerges ==
    ASSUME rec \in [Nodes -> Statuses], row \in [Nodes -> Statuses],
           NEW names, NEW status \in Statuses \ {"absent"}, Update(names, status)
    PROVE  \A n \in Nodes :
             /\ rec'[n] = rec[n] \/ (n \in names /\ rec'[n] = status)
             /\ IF n \in names THEN row'[n] = rec'[n] ELSE row'[n] = row[n]
             /\ n \in names => rec'[n] # "absent" /\ row'[n] # "absent"
             /\ rec[n] \in Closed \/ (n \in names /\ status \in Closed)
                => rec'[n] \in Closed
<1> SUFFICES ASSUME NEW n \in Nodes
             PROVE  /\ rec'[n] = rec[n] \/ (n \in names /\ rec'[n] = status)
                    /\ IF n \in names THEN row'[n] = rec'[n] ELSE row'[n] = row[n]
                    /\ n \in names => rec'[n] # "absent" /\ row'[n] # "absent"
                    /\ rec[n] \in Closed \/ (n \in names /\ status \in Closed)
                       => rec'[n] \in Closed
  OBVIOUS
<1>1. rec[n] \in Statuses /\ row[n] \in Statuses
  OBVIOUS
<1>2. CASE n \in names
  <2>1. rec'[n] = Merged(rec[n], status)
    <3>1. rec' = [m \in Nodes |-> IF m \in names THEN Merged(rec[m], status) ELSE rec[m]]
      BY DEF Update
    <3> QED
      BY <1>2, <3>1, Zenon
  <2>2. row'[n] = Merged(rec[n], status)
    <3>1. row' = [m \in Nodes |-> IF m \in names THEN Merged(rec[m], status) ELSE row[m]]
      BY DEF Update
    <3> QED
      BY <1>2, <3>1, Zenon
  <2>3. \A old \in Statuses :
          /\ Merged(old, status) \in {old, status} /\ Merged(old, status) # "absent"
          /\ old \in Closed \/ status \in Closed => Merged(old, status) \in Closed
    BY DEF Merged, Statuses, Closed, LiveStatuses
  <2> QED
    BY <1>1, <1>2, <2>1, <2>2, <2>3
<1>3. CASE n \notin names
  BY <1>3 DEF Update
<1> QED
  BY <1>2, <1>3

(* A push touches one node. *)
LEMMA PushedMerges ==
    ASSUME rec \in [Nodes -> Statuses], row \in [Nodes -> Statuses],
           NEW n \in Nodes, NEW status \in Statuses \ {"absent"}, Pushed(n, status)
    PROVE  /\ \A m \in Nodes \ {n} : rec'[m] = rec[m] /\ row'[m] = row[m]
           /\ rec'[n] \in {rec[n], status} /\ row'[n] = rec'[n] /\ rec'[n] # "absent"
           /\ bare \subseteq bare' /\ rec[n] = "absent" => n \in bare'
BY UpdateMerges DEF Pushed

(* They keep their type. *)
LEMMA UpdateType ==
    ASSUME rec \in [Nodes -> Statuses], row \in [Nodes -> Statuses],
           NEW names, NEW status \in Statuses \ {"absent"}, Update(names, status)
    PROVE  rec' \in [Nodes -> Statuses] /\ row' \in [Nodes -> Statuses]
BY DEF Update, Merged, Statuses

(* So is a push. *)
LEMMA PushedType ==
    ASSUME Types, NEW n \in Nodes, NEW status \in Statuses \ {"absent"}, Pushed(n, status)
    PROVE  /\ rec' \in [Nodes -> Statuses] /\ row' \in [Nodes -> Statuses]
           /\ bare' \subseteq Nodes /\ hosted' \subseteq Nodes
BY UpdateType DEF Pushed, Types, TypeOK

(* An event is taken from those that are left. *)
LEMMA CostType ==
    ASSUME Types, mix' = mix, NEW kinds, Costs(kinds) \/ UNCHANGED may
    PROVE  /\ may' \in [Kinds -> Nat]
           /\ \A k \in Kinds : may'[k] <= may[k] /\ may'[k] <= mix.may[k]
<1>1. /\ may \in [Kinds -> Nat] /\ mix.may \in [Kinds -> Nat]
      /\ \A k \in Kinds : may[k] <= mix.may[k]
  BY MixesAssumption DEF Types, TypeOK
<1>2. CASE UNCHANGED may
  BY <1>1, <1>2
<1>3. CASE Costs(kinds)
  BY <1>1, <1>3 DEF Costs
<1> QED
  BY <1>2, <1>3

(* A node that is given up is remembered, and nothing else changes about the past. *)
LEMMA DoubtStays ==
    ASSUME Types, NEW n \in Nodes,
           Silent(n) \/ BootTimesOut(n) \/ Overdue(n) \/ Doubt(n) \/ UNCHANGED histVars
    PROVE  /\ asked' = asked /\ stopped' = stopped
           /\ doubted \subseteq doubted' /\ doubted' \subseteq Nodes
BY DEF Silent, BootTimesOut, Overdue, Doubt, histVars, Types, TypeOK

(* The steps, by who takes them. *)
Starting(n) == GrowNode(n) \/ CreateRaises(n) \/ InsertConflicts(n) \/ StarterStep(n)
Deletion(n, d) ==
    \/ AskDelete(n) \/ AskFail(n) \/ ReapStopped(n)
    \/ d \in dels /\ (Mark(d) \/ DeleteVm(d) \/ DeleteRaises(d))
Sweep(t) == BeginTask(t) \/ TaskStep(t)
HeadStep == ReaperStep \/ Crash \/ Disappear \/ Restart
Boot(n) ==
    \/ ScriptDone(n) \/ ScriptFails(n) \/ FirstPush(n) \/ BeginReboot(n)
    \/ BootDone(n) \/ BootFails(n)
Serving(n) ==
    \/ Push(n) \/ OrphanLeaves(n) \/ IdleOut(n) \/ NeverReady(n) \/ Leave(n)
    \/ LeaseRunsOut(n) \/ BeginJob(n) \/ EndJob(n) \/ ServiceDies(n)
    \/ Preempt(n) \/ PersonStops(n)

(* There are no others. *)
LEMMA NextGroups ==
    ASSUME Types, Next
    PROVE  \/ \E n \in Nodes : Starting(n) \/ Boot(n) \/ Serving(n) \/ \E d : Deletion(n, d)
           \/ \E t \in Tasks : Sweep(t)
           \/ HeadStep
<1> USE DEF Starting, Boot, Serving, Deletion, Sweep, HeadStep
<1>1. ASSUME NEW n \in Nodes, StarterStep(n) \/ NodeStep(n) \/ Mishap(n)
      PROVE  Starting(n) \/ Boot(n) \/ Serving(n)
  BY <1>1 DEF NodeStep, Mishap
<1>2. ASSUME NEW n \in Nodes, Request(n) \/ ReapStopped(n)
      PROVE  Starting(n) \/ Boot(n) \/ Serving(n) \/ \E d : Deletion(n, d)
  BY <1>2 DEF Request
<1>3. ASSUME NEW d \in dels, Mark(d) \/ DeleteVm(d) \/ DeleteRaises(d)
      PROVE  \E n \in Nodes : \E e : Deletion(n, e)
  <2>1. d.node \in Nodes /\ Deletion(d.node, d)
    BY <1>3 DEF Types, TypeOK
  <2> QED
    BY <2>1
<1> HIDE DEF Starting, Boot, Serving, Deletion, HeadStep, Sweep
<1>4. ReaperStep \/ Crash \/ Disappear \/ Restart => HeadStep
  BY DEF HeadStep
<1>5. \A t \in Tasks : BeginTask(t) \/ TaskStep(t) => Sweep(t)
  BY DEF Sweep
<1> QED
  BY <1>1, <1>2, <1>3, <1>4, <1>5 DEF Next, DeleteStep

-----------------------------------------------------------------------------
(* Types are kept. *)

(* Node.start keeps the types. *)
LEMMA StarterTypes ==
    ASSUME Types, Fresh, NEW n \in Nodes, Starting(n)
    PROVE  Types'
<1> USE UpdateType, PushedType
        DEF Types, TypeOK, Task, Statuses, Agents, StarterTo, AgentTo, Spend, Up,
            recVars, nodeVars, histVars, headVars, LiveStatuses
<1>1. CASE GrowNode(n)
  BY <1>1, CostType DEF GrowNode, Start
<1>2. CASE InsertVm(n)
  BY <1>2, CostType DEF InsertVm, Fresh
<1>3. CASE CreateReturns(n)
  BY <1>3, CostType DEF CreateReturns
<1>4. CASE CreateRaises(n)
  BY <1>4, CostType DEF CreateRaises
<1>5. CASE InsertConflicts(n)
  BY <1>5, CostType DEF InsertConflicts
<1>6. CASE StarterSeesReady(n)
  BY <1>6, CostType DEF StarterSeesReady
<1>7. CASE StarterSeesDeleted(n)
  BY <1>7, CostType DEF StarterSeesDeleted
<1>8. CASE StarterSeesFailure(n)
  <2>1. \E kinds : Costs(kinds) \/ UNCHANGED may
    BY <1>8 DEF StarterSeesFailure, BootTimesOut
  <2> QED
    BY <1>8, <2>1, CostType, DoubtStays DEF StarterSeesFailure
<1>9. CASE StarterFails(n)
  BY <1>9, CostType DEF StarterFails
<1> QED
  BY <1>1, <1>2, <1>3, <1>4, <1>5, <1>6, <1>7, <1>8, <1>9 DEF Starting, StarterStep

(* A delete keeps the types. *)
LEMMA DeleteTypes ==
    ASSUME Types, Fresh, NEW n \in Nodes, NEW d, Deletion(n, d)
    PROVE  Types'
<1> USE UpdateType, PushedType
        DEF Types, TypeOK, Task, Statuses, Agents, StarterTo, AgentTo, Spend, Up,
            recVars, nodeVars, histVars, headVars, LiveStatuses
<1>1. CASE AskDelete(n)
  BY <1>1, CostType DEF AskDelete
<1>2. CASE AskFail(n)
  BY <1>2, CostType DEF AskFail
<1>3. CASE ReapStopped(n)
  BY <1>3, CostType DEF ReapStopped, Gone
<1>4. CASE d \in dels /\ Mark(d)
  BY <1>4, CostType DEF Mark
<1>5. CASE d \in dels /\ DeleteVm(d)
  BY <1>5, CostType DEF DeleteVm, Gone
<1>6. CASE d \in dels /\ DeleteRaises(d)
  BY <1>6, CostType DEF DeleteRaises
<1> QED
  BY <1>1, <1>2, <1>3, <1>4, <1>5, <1>6 DEF Deletion

(* A restart or shutdown keeps the types. *)
LEMMA TaskTypes ==
    ASSUME Types, Fresh, NEW t \in Tasks, Sweep(t)
    PROVE  Types'
<1> USE UpdateType, PushedType
        DEF Types, TypeOK, Task, Statuses, Agents, StarterTo, AgentTo, Spend, Up,
            recVars, nodeVars, histVars, headVars, LiveStatuses
<1>1. CASE BeginTask(t)
  <2>1. [NoTask EXCEPT !.at = "deleting", !.took = Active] \in Task
    BY DEF NoTask, Active
  <2>2. task' \in [Tasks -> Task] /\ \A u \in Tasks : task'[u].at = "deleting" => Up
    BY <1>1, <2>1 DEF BeginTask
  <2>3. dels' \subseteq [node : Nodes, by : Tasks \cup {"starter", "ask", "self"},
                        step : {"mark", "vm", "vmThenMark"}]
    BY <1>1 DEF BeginTask, Active
  <2> QED
    BY ZenonT(30), <1>1, <2>2, <2>3 DEF BeginTask, Active
<1>2. CASE EndDeletes(t)
  <2> PICK names \in SUBSET Nodes :
        /\ task' = [task EXCEPT ![t] =
                     [@ EXCEPT !.at = IF mix.plan[t] = "restart" THEN "booting" ELSE "done",
                               !.mine = names]]
        /\ starter' = [n \in Nodes |-> IF n \in names THEN "create" ELSE starter[n]]
    BY <1>2 DEF EndDeletes
  <2>1. Up /\ rec' \in [Nodes -> Statuses] /\ row' \in [Nodes -> Statuses]
    BY <1>2 DEF EndDeletes, Deleted
  <2>2. task[t] \in Task
    OBVIOUS
  <2>3. \A at \in {"booting", "done"} : [task[t] EXCEPT !.at = at, !.mine = names] \in Task
    BY <2>2
  <2>4. task' \in [Tasks -> Task]
    BY <2>3
  <2>5. starter' \in [Nodes -> {"none", "create", "inserted", "wait", "failing", "done"}]
    OBVIOUS
  <2> QED
    BY <1>2, <2>1, <2>4, <2>5 DEF EndDeletes
<1>3. CASE TaskEnds(t)
  BY <1>3, CostType DEF TaskEnds
<1> QED
  BY <1>1, <1>2, <1>3 DEF Sweep, TaskStep

(* The tasks of a head that dies fail. *)
LEMMA DeadTasks ==
    ASSUME Types, NEW state, Dies(state)
    PROVE  task' \in [Tasks -> Task] /\ \A t \in Tasks : task'[t].at \in {"new", "failed"}
<1>1. NoTask \in Task /\ NoTask.at = "new"
  BY DEF NoTask, Task
<1>2. \A x \in Task : /\ [x EXCEPT !.at = "failed"] \in Task
                    /\ [x EXCEPT !.at = "failed"].at = "failed"
  BY DEF Task
<1>3. task' = [t \in Tasks |-> IF task[t].at = "new" THEN NoTask
                              ELSE [task[t] EXCEPT !.at = "failed"]]
  BY DEF Dies
<1>4. \A t \in Tasks : task[t] \in Task
  BY DEF Types
<1> QED
  BY <1>1, <1>2, <1>3, <1>4

(* A reaper or the head keeps the types. *)
LEMMA HeadTypes ==
    ASSUME Types, Fresh, HeadStep
    PROVE  Types'
<1> USE UpdateType, PushedType
        DEF Types, TypeOK, Task, Statuses, Agents, StarterTo, AgentTo, Spend, Up,
            recVars, nodeVars, histVars, headVars, LiveStatuses
<1>1. CASE ReaperStep
  <2>1. ASSUME NEW n \in Nodes, Suspect(n) PROVE Types'
    <3>1. \E kinds : Costs(kinds) \/ UNCHANGED may
      BY <2>1 DEF Suspect, Overdue, Silent, BootTimesOut
    <3>2. suspects' \subseteq [node : Nodes, existed : BOOLEAN]
      <4>1. Lives(n) \in BOOLEAN
        BY DEF Lives
      <4> QED
        BY <2>1, <4>1 DEF Suspect
    <3> QED
      BY <2>1, <3>1, <3>2, CostType, DoubtStays DEF Suspect
  <2>2. ASSUME NEW n \in Nodes, ReaperDies(n) PROVE Types'
    <3>1. \E kinds : Costs(kinds) \/ UNCHANGED may
      BY <2>2 DEF ReaperDies, Silent
    <3> QED
      BY <2>2, <3>1, CostType, DoubtStays DEF ReaperDies
  <2>3. ASSUME NEW s \in suspects, Reap(s) PROVE Types'
    BY <2>3 DEF Reap, Gone
  <2> QED
    BY <1>1, <2>1, <2>2, <2>3 DEF ReaperStep
<1>2. CASE Crash
  <2>1. (\E kinds : Costs(kinds)) /\ (Dies("down") \/ Dies("gone"))
    BY <1>2 DEF Crash
  <2>2. mix' = mix
    BY <2>1 DEF Dies
  <2>3. task' \in [Tasks -> Task] /\ \A t \in Tasks : task'[t].at \in {"new", "failed"}
    BY <2>1, DeadTasks
  <2> QED
    BY SMTT(30), <2>1, <2>2, <2>3, CostType DEF Dies
<1>3. CASE Disappear
  <2>1. (\E kinds : Costs(kinds)) /\ (Dies("down") \/ Dies("gone"))
    BY <1>3 DEF Disappear
  <2>2. mix' = mix
    BY <2>1 DEF Dies
  <2>3. task' \in [Tasks -> Task] /\ \A t \in Tasks : task'[t].at \in {"new", "failed"}
    BY <2>1, DeadTasks
  <2> QED
    BY SMTT(30), <2>1, <2>2, <2>3, CostType DEF Dies
<1>4. CASE Restart
  BY <1>4, CostType DEF Restart
<1> QED
  BY <1>1, <1>2, <1>3, <1>4 DEF HeadStep

(* A node that boots keeps the types. *)
LEMMA BootTypes ==
    ASSUME Types, Fresh, NEW n \in Nodes, Boot(n)
    PROVE  Types'
<1> USE UpdateType, PushedType
        DEF Types, TypeOK, Task, Statuses, Agents, StarterTo, AgentTo, Spend, Up,
            recVars, nodeVars, histVars, headVars, LiveStatuses
<1>1. CASE ScriptDone(n)
  BY <1>1, CostType DEF ScriptDone
<1>2. CASE ScriptFails(n)
  BY <1>2, CostType DEF ScriptFails, Report
<1>3. CASE FirstPush(n)
  BY <1>3, CostType DEF FirstPush
<1>4. CASE BeginReboot(n)
  BY <1>4, CostType DEF BeginReboot
<1>5. CASE BootDone(n)
  BY <1>5, CostType DEF BootDone
<1>6. CASE BootFails(n)
  BY <1>6, CostType DEF BootFails, Report
<1> QED
  BY <1>1, <1>2, <1>3, <1>4, <1>5, <1>6 DEF Boot

(* A node that serves keeps the types. *)
LEMMA ServiceTypes ==
    ASSUME Types, Fresh, NEW n \in Nodes, Serving(n)
    PROVE  Types'
<1> USE UpdateType, PushedType
        DEF Types, TypeOK, Task, Statuses, Agents, StarterTo, AgentTo, Spend, Up,
            recVars, nodeVars, histVars, headVars, LiveStatuses
<1>1. CASE Push(n)
  BY <1>1, CostType DEF Push, Reported, Pushing
<1>2. CASE OrphanLeaves(n)
  BY <1>2, CostType, DoubtStays DEF OrphanLeaves, Pushing
<1>3. CASE IdleOut(n)
  BY <1>3, CostType DEF IdleOut, LastPush
<1>4. CASE NeverReady(n)
  BY <1>4, CostType DEF NeverReady, LastPush
<1>5. CASE Leave(n)
  BY <1>5, CostType DEF Leave, Marks, PoweredOff
<1>6. CASE LeaseRunsOut(n)
  BY <1>6, CostType DEF LeaseRunsOut, Gone
<1>7. CASE BeginJob(n)
  BY <1>7, CostType DEF BeginJob
<1>8. CASE EndJob(n)
  BY <1>8, CostType DEF EndJob
<1>9. CASE ServiceDies(n)
  BY <1>9, CostType DEF ServiceDies, Pushing
<1>10. CASE Preempt(n)
  BY <1>10, CostType DEF Preempt, Hook, Gone
<1>11. CASE PersonStops(n)
  BY <1>11, CostType DEF PersonStops, Hook, Marks
<1> QED
  BY <1>1, <1>2, <1>3, <1>4, <1>5, <1>6, <1>7, <1>8, <1>9, <1>10, <1>11 DEF Serving

(* Every step keeps the types. *)
LEMMA TypeStep ==
    ASSUME Types, Fresh, [Next]_vars
    PROVE  Types'
<1>1. CASE UNCHANGED vars
  BY <1>1 DEF vars, headVars, recVars, nodeVars, histVars, Types, TypeOK, Up
<1>2. CASE Next
  BY <1>2, NextGroups, StarterTypes, DeleteTypes, TaskTypes,
     HeadTypes, BootTypes, ServiceTypes
<1> QED
  BY <1>1, <1>2

-----------------------------------------------------------------------------
(* What a node's name, thread and VM know of each other. *)

(* Node.start keeps names apart from what they were used for. *)
LEMMA StarterFresh ==
    ASSUME Types, Fresh, NEW n \in Nodes, Starting(n)
    PROVE  Fresh'
<1> USE UpdateType, UpdateMerges
        DEF Types, TypeOK, Task, Statuses, Agents, StarterTo, AgentTo, Spend, Up,
            recVars, nodeVars, histVars, headVars, LiveStatuses, Fresh
<1>1. CASE GrowNode(n)
  BY <1>1 DEF GrowNode, Start, New, Unused
<1>2. CASE InsertVm(n)
  BY <1>2 DEF InsertVm
<1>3. CASE CreateReturns(n)
  BY <1>3 DEF CreateReturns
<1>4. CASE CreateRaises(n)
  BY <1>4 DEF CreateRaises
<1>5. CASE InsertConflicts(n)
  BY <1>5 DEF InsertConflicts
<1>6. CASE StarterSeesReady(n)
  BY <1>6 DEF StarterSeesReady
<1>7. CASE StarterSeesDeleted(n)
  BY <1>7 DEF StarterSeesDeleted
<1>8. CASE StarterSeesFailure(n)
  BY <1>8 DEF StarterSeesFailure
<1>9. CASE StarterFails(n)
  BY <1>9 DEF StarterFails
<1> QED
  BY <1>1, <1>2, <1>3, <1>4, <1>5, <1>6, <1>7, <1>8, <1>9 DEF Starting, StarterStep

(* A delete keeps names apart from what they were used for. *)
LEMMA DeleteFresh ==
    ASSUME Types, Fresh, NEW n \in Nodes, NEW d, Deletion(n, d)
    PROVE  Fresh'
<1> USE UpdateType, UpdateMerges
        DEF Types, TypeOK, Task, Statuses, Agents, StarterTo, AgentTo, Spend, Up,
            recVars, nodeVars, histVars, headVars, LiveStatuses, Fresh
<1>1. CASE AskDelete(n)
  BY <1>1 DEF AskDelete
<1>2. CASE AskFail(n)
  BY <1>2 DEF AskFail
<1>3. CASE ReapStopped(n)
  BY <1>3 DEF ReapStopped, Gone
<1>4. CASE d \in dels /\ Mark(d)
  BY <1>4 DEF Mark
<1>5. CASE d \in dels /\ DeleteVm(d)
  BY <1>5 DEF DeleteVm, Gone
<1>6. CASE d \in dels /\ DeleteRaises(d)
  BY <1>6 DEF DeleteRaises
<1> QED
  BY <1>1, <1>2, <1>3, <1>4, <1>5, <1>6 DEF Deletion

(* A restart or shutdown keeps names apart from what they were used for. *)
LEMMA TaskFresh ==
    ASSUME Types, Fresh, NEW t \in Tasks, Sweep(t)
    PROVE  Fresh'
<1> USE UpdateType, UpdateMerges
        DEF Types, TypeOK, Task, Statuses, Agents, StarterTo, AgentTo, Spend, Up,
            recVars, nodeVars, histVars, headVars, LiveStatuses, Fresh
<1>1. CASE BeginTask(t)
  BY <1>1 DEF BeginTask, NoTask, Active
<1>2. CASE EndDeletes(t)
  BY <1>2 DEF EndDeletes, Deleted, New, Unused
<1>3. CASE TaskEnds(t)
  BY <1>3 DEF TaskEnds
<1> QED
  BY <1>1, <1>2, <1>3 DEF Sweep, TaskStep

(* A reaper or the head keeps names apart from what they were used for. *)
LEMMA HeadFresh ==
    ASSUME Types, Fresh, HeadStep
    PROVE  Fresh'
<1> USE UpdateType, UpdateMerges
        DEF Types, TypeOK, Task, Statuses, Agents, StarterTo, AgentTo, Spend, Up,
            recVars, nodeVars, histVars, headVars, LiveStatuses, Fresh
<1>1. CASE ReaperStep
  <2>1. ASSUME NEW n \in Nodes, Suspect(n) PROVE Fresh'
    BY <2>1 DEF Suspect
  <2>2. ASSUME NEW n \in Nodes, ReaperDies(n) PROVE Fresh'
    BY <2>2 DEF ReaperDies
  <2>3. ASSUME NEW s \in suspects, Reap(s) PROVE Fresh'
    BY <2>3 DEF Reap, Gone
  <2> QED
    BY <1>1, <2>1, <2>2, <2>3 DEF ReaperStep
<1>2. CASE Crash
  BY <1>2 DEF Crash, Dies, NoTask
<1>3. CASE Disappear
  BY <1>3 DEF Disappear, Dies, NoTask
<1>4. CASE Restart
  BY <1>4 DEF Restart
<1> QED
  BY <1>1, <1>2, <1>3, <1>4 DEF HeadStep

(* A node that boots keeps names apart from what they were used for. *)
LEMMA BootFresh ==
    ASSUME Types, Fresh, NEW n \in Nodes, Boot(n)
    PROVE  Fresh'
<1> USE UpdateType, UpdateMerges
        DEF Types, TypeOK, Task, Statuses, Agents, StarterTo, AgentTo, Spend, Up,
            recVars, nodeVars, histVars, headVars, LiveStatuses, Fresh
<1>1. CASE ScriptDone(n)
  BY <1>1 DEF ScriptDone, Certifies
<1>2. CASE ScriptFails(n)
  BY <1>2 DEF ScriptFails, Report, Pushed
<1>3. CASE FirstPush(n)
  BY <1>3 DEF FirstPush, Pushed
<1>4. CASE BeginReboot(n)
  BY <1>4 DEF BeginReboot, Pushed
<1>5. CASE BootDone(n)
  BY <1>5 DEF BootDone, Pushed
<1>6. CASE BootFails(n)
  BY <1>6 DEF BootFails, Report, Pushed
<1> QED
  BY <1>1, <1>2, <1>3, <1>4, <1>5, <1>6 DEF Boot

(* A node that serves keeps names apart from what they were used for. *)
LEMMA ServiceFresh ==
    ASSUME Types, Fresh, NEW n \in Nodes, Serving(n)
    PROVE  Fresh'
<1> USE UpdateType, UpdateMerges
        DEF Types, TypeOK, Task, Statuses, Agents, StarterTo, AgentTo, Spend, Up,
            recVars, nodeVars, histVars, headVars, LiveStatuses, Fresh
<1>1. CASE Push(n)
  BY <1>1 DEF Push, Reported, Pushing, Pushed
<1>2. CASE OrphanLeaves(n)
  BY <1>2 DEF OrphanLeaves, Pushing
<1>3. CASE IdleOut(n)
  BY <1>3 DEF IdleOut, LastPush, Pushed
<1>4. CASE NeverReady(n)
  BY <1>4 DEF NeverReady, LastPush, Pushed
<1>5. CASE Leave(n)
  BY <1>5 DEF Leave, Marks, PoweredOff
<1>6. CASE LeaseRunsOut(n)
  BY <1>6 DEF LeaseRunsOut, Gone
<1>7. CASE BeginJob(n)
  BY <1>7 DEF BeginJob
<1>8. CASE EndJob(n)
  BY <1>8 DEF EndJob
<1>9. CASE ServiceDies(n)
  BY <1>9 DEF ServiceDies, Pushing
<1>10. CASE Preempt(n)
  BY <1>10 DEF Preempt, Hook, Gone, Pushed
<1>11. CASE PersonStops(n)
  BY <1>11 DEF PersonStops, Hook, Marks, Pushed
<1> QED
  BY <1>1, <1>2, <1>3, <1>4, <1>5, <1>6, <1>7, <1>8, <1>9, <1>10, <1>11 DEF Serving

(* Every step keeps names apart from what they were used for. *)
LEMMA FreshStep ==
    ASSUME Types, Fresh, [Next]_vars
    PROVE  Fresh'
<1>1. CASE UNCHANGED vars
  BY <1>1 DEF vars, headVars, recVars, nodeVars, histVars, Fresh
<1>2. CASE Next
  BY <1>2, NextGroups, StarterFresh, DeleteFresh, TaskFresh,
     HeadFresh, BootFresh, ServiceFresh
<1> QED
  BY <1>1, <1>2

-----------------------------------------------------------------------------
(* What happens is paid for, and the surroundings stay. *)
Paid == mix' = mix /\ \E kinds : Costs(kinds) \/ UNCHANGED may

(* A VM that may go without harm to a job stays one. *)

(* Node.start pays for what goes wrong. *)
LEMMA StarterPaid ==
    ASSUME Types, NEW n \in Nodes, Starting(n)
    PROVE  Paid
<1> USE DEF Paid, Spend, BootTimesOut, Overdue, Silent, recVars, headVars
<1>1. CASE GrowNode(n)
  BY <1>1 DEF GrowNode
<1>2. CASE InsertVm(n)
  BY <1>2 DEF InsertVm
<1>3. CASE CreateReturns(n)
  BY <1>3 DEF CreateReturns
<1>4. CASE CreateRaises(n)
  BY <1>4 DEF CreateRaises
<1>5. CASE InsertConflicts(n)
  BY <1>5 DEF InsertConflicts
<1>6. CASE StarterSeesReady(n)
  BY <1>6 DEF StarterSeesReady
<1>7. CASE StarterSeesDeleted(n)
  BY <1>7 DEF StarterSeesDeleted
<1>8. CASE StarterSeesFailure(n)
  BY <1>8 DEF StarterSeesFailure
<1>9. CASE StarterFails(n)
  BY <1>9 DEF StarterFails
<1> QED
  BY <1>1, <1>2, <1>3, <1>4, <1>5, <1>6, <1>7, <1>8, <1>9 DEF Starting, StarterStep

(* A delete pays for what goes wrong. *)
LEMMA DeletePaid ==
    ASSUME Types, NEW n \in Nodes, NEW d, Deletion(n, d)
    PROVE  Paid
<1> USE DEF Paid, Spend, BootTimesOut, Overdue, Silent, recVars, headVars
<1>1. CASE AskDelete(n)
  BY <1>1 DEF AskDelete
<1>2. CASE AskFail(n)
  BY <1>2 DEF AskFail
<1>3. CASE ReapStopped(n)
  BY <1>3 DEF ReapStopped
<1>4. CASE d \in dels /\ Mark(d)
  BY <1>4 DEF Mark
<1>5. CASE d \in dels /\ DeleteVm(d)
  BY <1>5 DEF DeleteVm
<1>6. CASE d \in dels /\ DeleteRaises(d)
  BY <1>6 DEF DeleteRaises
<1> QED
  BY <1>1, <1>2, <1>3, <1>4, <1>5, <1>6 DEF Deletion

(* A restart or shutdown pays for what goes wrong. *)
LEMMA TaskPaid ==
    ASSUME Types, NEW t \in Tasks, Sweep(t)
    PROVE  Paid
<1> USE DEF Paid, Spend, BootTimesOut, Overdue, Silent, recVars, headVars
<1>1. CASE BeginTask(t)
  BY <1>1 DEF BeginTask
<1>2. CASE EndDeletes(t)
  BY <1>2 DEF EndDeletes
<1>3. CASE TaskEnds(t)
  BY <1>3 DEF TaskEnds
<1> QED
  BY <1>1, <1>2, <1>3 DEF Sweep, TaskStep

(* A reaper or the head pays for what goes wrong. *)
LEMMA HeadPaid ==
    ASSUME Types, HeadStep
    PROVE  Paid
<1> USE DEF Paid, Spend, BootTimesOut, Overdue, Silent, recVars, headVars
<1>1. CASE ReaperStep
  <2>1. ASSUME NEW n \in Nodes, Suspect(n) PROVE Paid
    BY <2>1 DEF Suspect
  <2>2. ASSUME NEW n \in Nodes, ReaperDies(n) PROVE Paid
    BY <2>2 DEF ReaperDies
  <2>3. ASSUME NEW s \in suspects, Reap(s) PROVE Paid
    BY <2>3 DEF Reap
  <2> QED
    BY <1>1, <2>1, <2>2, <2>3 DEF ReaperStep
<1>2. CASE Crash
  BY <1>2 DEF Crash, Dies
<1>3. CASE Disappear
  BY <1>3 DEF Disappear, Dies
<1>4. CASE Restart
  BY <1>4 DEF Restart
<1> QED
  BY <1>1, <1>2, <1>3, <1>4 DEF HeadStep

(* A node that boots pays for what goes wrong. *)
LEMMA BootPaid ==
    ASSUME Types, NEW n \in Nodes, Boot(n)
    PROVE  Paid
<1> USE DEF Paid, Spend, BootTimesOut, Overdue, Silent, recVars, headVars
<1>1. CASE ScriptDone(n)
  BY <1>1 DEF ScriptDone
<1>2. CASE ScriptFails(n)
  BY <1>2 DEF ScriptFails
<1>3. CASE FirstPush(n)
  BY <1>3 DEF FirstPush
<1>4. CASE BeginReboot(n)
  BY <1>4 DEF BeginReboot
<1>5. CASE BootDone(n)
  BY <1>5 DEF BootDone
<1>6. CASE BootFails(n)
  BY <1>6 DEF BootFails
<1> QED
  BY <1>1, <1>2, <1>3, <1>4, <1>5, <1>6 DEF Boot

(* A node that serves pays for what goes wrong. *)
LEMMA ServicePaid ==
    ASSUME Types, NEW n \in Nodes, Serving(n)
    PROVE  Paid
<1> USE DEF Paid, Spend, BootTimesOut, Overdue, Silent, recVars, headVars
<1>1. CASE Push(n)
  BY <1>1 DEF Push
<1>2. CASE OrphanLeaves(n)
  BY <1>2 DEF OrphanLeaves
<1>3. CASE IdleOut(n)
  BY <1>3 DEF IdleOut, LastPush
<1>4. CASE NeverReady(n)
  BY <1>4 DEF NeverReady, LastPush
<1>5. CASE Leave(n)
  BY <1>5 DEF Leave
<1>6. CASE LeaseRunsOut(n)
  BY <1>6 DEF LeaseRunsOut
<1>7. CASE BeginJob(n)
  BY <1>7 DEF BeginJob
<1>8. CASE EndJob(n)
  BY <1>8 DEF EndJob
<1>9. CASE ServiceDies(n)
  BY <1>9 DEF ServiceDies
<1>10. CASE Preempt(n)
  BY <1>10 DEF Preempt
<1>11. CASE PersonStops(n)
  BY <1>11 DEF PersonStops
<1> QED
  BY <1>1, <1>2, <1>3, <1>4, <1>5, <1>6, <1>7, <1>8, <1>9, <1>10, <1>11 DEF Serving

(* Every step pays for what goes wrong. *)
LEMMA PaidStep ==
    ASSUME Types, [Next]_vars
    PROVE  Paid
<1>1. CASE UNCHANGED vars
  BY <1>1 DEF vars, headVars, recVars, nodeVars, histVars, Paid
<1>2. CASE Next
  BY <1>2, NextGroups, StarterPaid, DeletePaid, TaskPaid, HeadPaid, BootPaid, ServicePaid
<1> QED
  BY <1>1, <1>2

(* What made a delete harmless still does. *)
Stays == \A m \in Nodes : Harmless(m) => Harmless(m)'

(* Node.start leaves a VM that may go one that may go. *)
LEMMA StarterStays ==
    ASSUME Types, Fresh, NEW n \in Nodes, Starting(n)
    PROVE  Stays
<1> USE UpdateType, UpdateMerges
        DEF Types, TypeOK, Task, Statuses, Agents, StarterTo, AgentTo, Spend, Up,
            recVars, nodeVars, histVars, headVars, LiveStatuses, Fresh,
            Stays, Harmless, Ended, Stuck
<1>1. CASE GrowNode(n)
  BY <1>1 DEF GrowNode, Start, New, Unused
<1>2. CASE InsertVm(n)
  BY <1>2 DEF InsertVm
<1>3. CASE CreateReturns(n)
  BY <1>3 DEF CreateReturns
<1>4. CASE CreateRaises(n)
  BY <1>4 DEF CreateRaises
<1>5. CASE InsertConflicts(n)
  BY <1>5 DEF InsertConflicts
<1>6. CASE StarterSeesReady(n)
  BY <1>6 DEF StarterSeesReady
<1>7. CASE StarterSeesDeleted(n)
  BY <1>7 DEF StarterSeesDeleted
<1>8. CASE StarterSeesFailure(n)
  BY <1>8, DoubtStays DEF StarterSeesFailure
<1>9. CASE StarterFails(n)
  BY <1>9 DEF StarterFails
<1> QED
  BY <1>1, <1>2, <1>3, <1>4, <1>5, <1>6, <1>7, <1>8, <1>9 DEF Starting, StarterStep

(* A delete leaves a VM that may go one that may go. *)
LEMMA DeleteStays ==
    ASSUME Types, Fresh, NEW n \in Nodes, NEW d, Deletion(n, d)
    PROVE  Stays
<1> USE UpdateType, UpdateMerges
        DEF Types, TypeOK, Task, Statuses, Agents, StarterTo, AgentTo, Spend, Up,
            recVars, nodeVars, histVars, headVars, LiveStatuses, Fresh,
            Stays, Harmless, Ended, Stuck
<1>1. CASE AskDelete(n)
  BY <1>1 DEF AskDelete
<1>2. CASE AskFail(n)
  BY <1>2 DEF AskFail
<1>3. CASE ReapStopped(n)
  BY <1>3 DEF ReapStopped, Gone
<1>4. CASE d \in dels /\ Mark(d)
  BY <1>4 DEF Mark
<1>5. CASE d \in dels /\ DeleteVm(d)
  BY <1>5 DEF DeleteVm, Gone
<1>6. CASE d \in dels /\ DeleteRaises(d)
  BY <1>6 DEF DeleteRaises
<1> QED
  BY <1>1, <1>2, <1>3, <1>4, <1>5, <1>6 DEF Deletion

(* A restart or shutdown leaves a VM that may go one that may go. *)
LEMMA TaskStays ==
    ASSUME Types, Fresh, NEW t \in Tasks, Sweep(t)
    PROVE  Stays
<1> USE UpdateType, UpdateMerges
        DEF Types, TypeOK, Task, Statuses, Agents, StarterTo, AgentTo, Spend, Up,
            recVars, nodeVars, histVars, headVars, LiveStatuses, Fresh,
            Stays, Harmless, Ended, Stuck
<1>1. CASE BeginTask(t)
  BY <1>1 DEF BeginTask, NoTask, Active
<1>2. CASE EndDeletes(t)
  BY <1>2 DEF EndDeletes, Deleted, New, Unused
<1>3. CASE TaskEnds(t)
  BY <1>3 DEF TaskEnds
<1> QED
  BY <1>1, <1>2, <1>3 DEF Sweep, TaskStep

(* A reaper or the head leaves a VM that may go one that may go. *)
LEMMA HeadStays ==
    ASSUME Types, Fresh, HeadStep
    PROVE  Stays
<1> USE UpdateType, UpdateMerges
        DEF Types, TypeOK, Task, Statuses, Agents, StarterTo, AgentTo, Spend, Up,
            recVars, nodeVars, histVars, headVars, LiveStatuses, Fresh,
            Stays, Harmless, Ended, Stuck
<1>1. CASE ReaperStep
  <2>1. ASSUME NEW n \in Nodes, Suspect(n) PROVE Stays
    BY <2>1, DoubtStays DEF Suspect
  <2>2. ASSUME NEW n \in Nodes, ReaperDies(n) PROVE Stays
    BY <2>2, DoubtStays DEF ReaperDies
  <2>3. ASSUME NEW s \in suspects, Reap(s) PROVE Stays
    BY <2>3 DEF Reap, Gone
  <2> QED
    BY <1>1, <2>1, <2>2, <2>3 DEF ReaperStep
<1>2. CASE Crash
  BY <1>2 DEF Crash, Dies, NoTask
<1>3. CASE Disappear
  BY <1>3 DEF Disappear, Dies, NoTask
<1>4. CASE Restart
  BY <1>4 DEF Restart
<1> QED
  BY <1>1, <1>2, <1>3, <1>4 DEF HeadStep

(* A node that boots leaves a VM that may go one that may go. *)
LEMMA BootStays ==
    ASSUME Types, Fresh, NEW n \in Nodes, Boot(n)
    PROVE  Stays
<1> USE UpdateType, UpdateMerges
        DEF Types, TypeOK, Task, Statuses, Agents, StarterTo, AgentTo, Spend, Up,
            recVars, nodeVars, histVars, headVars, LiveStatuses, Fresh,
            Stays, Harmless, Ended, Stuck
<1>1. CASE ScriptDone(n)
  BY <1>1 DEF ScriptDone, Certifies
<1>2. CASE ScriptFails(n)
  BY <1>2 DEF ScriptFails, Report, Pushed
<1>3. CASE FirstPush(n)
  BY <1>3 DEF FirstPush, Pushed
<1>4. CASE BeginReboot(n)
  BY <1>4 DEF BeginReboot, Pushed
<1>5. CASE BootDone(n)
  BY <1>5 DEF BootDone, Pushed
<1>6. CASE BootFails(n)
  BY <1>6 DEF BootFails, Report, Pushed
<1> QED
  BY <1>1, <1>2, <1>3, <1>4, <1>5, <1>6 DEF Boot

(* A node that serves leaves a VM that may go one that may go. *)
LEMMA ServiceStays ==
    ASSUME Types, Fresh, NEW n \in Nodes, Serving(n)
    PROVE  Stays
<1> USE UpdateType, UpdateMerges
        DEF Types, TypeOK, Task, Statuses, Agents, StarterTo, AgentTo, Spend, Up,
            recVars, nodeVars, histVars, headVars, LiveStatuses, Fresh,
            Stays, Harmless, Ended, Stuck
<1>1. CASE Push(n)
  BY <1>1 DEF Push, Reported, Pushing, Pushed
<1>2. CASE OrphanLeaves(n)
  BY <1>2, DoubtStays DEF OrphanLeaves, Pushing
<1>3. CASE IdleOut(n)
  BY <1>3 DEF IdleOut, LastPush, Pushed
<1>4. CASE NeverReady(n)
  BY <1>4 DEF NeverReady, LastPush, Pushed
<1>5. CASE Leave(n)
  BY <1>5 DEF Leave, Marks, PoweredOff
<1>6. CASE LeaseRunsOut(n)
  BY <1>6 DEF LeaseRunsOut, Gone
<1>7. CASE BeginJob(n)
  BY <1>7 DEF BeginJob
<1>8. CASE EndJob(n)
  BY <1>8 DEF EndJob
<1>9. CASE ServiceDies(n)
  BY <1>9 DEF ServiceDies, Pushing
<1>10. CASE Preempt(n)
  BY <1>10 DEF Preempt, Hook, Gone, Pushed
<1>11. CASE PersonStops(n)
  BY <1>11 DEF PersonStops, Hook, Marks, Pushed
<1> QED
  BY <1>1, <1>2, <1>3, <1>4, <1>5, <1>6, <1>7, <1>8, <1>9, <1>10, <1>11 DEF Serving

(* Every step leaves a VM that may go one that may go. *)
LEMMA StaysStep ==
    ASSUME Types, Fresh, [Next]_vars
    PROVE  Stays
<1>1. CASE UNCHANGED vars
  BY <1>1 DEF vars, headVars, recVars, nodeVars, histVars, Stays, Harmless, Ended, Stuck
<1>2. CASE Next
  BY <1>2, NextGroups, StarterStays, DeleteStays, TaskStays,
     HeadStays, BootStays, ServiceStays
<1> QED
  BY <1>1, <1>2

(* All of it. *)
LEMMA HarmlessStays ==
    ASSUME Types, Types', Fresh, [Next]_vars, NEW n \in Nodes, Harmless(n)
    PROVE  Harmless(n)'
BY StaysStep DEF Stays

-----------------------------------------------------------------------------
(* Nobody deletes without a reason. *)

(* Harm is not done later either. *)
Patient == \A m \in Nodes : Harmless(m) => Harmless(m)'

(* Node.start deletes nothing without a reason. *)
LEMMA StarterReasons ==
    ASSUME Types, Types', Fresh, Fresh', Reasons, Patient, NEW n \in Nodes, Starting(n)
    PROVE  Reasons'
<1> USE UpdateType, UpdateMerges
        DEF Types, TypeOK, Task, Statuses, Agents, Closed, StarterTo, AgentTo, Up,
            recVars, nodeVars, histVars, headVars, LiveStatuses,
            Reasons, Patient, Fresh, Harmless, Ended, Stuck
<1>1. CASE GrowNode(n)
  BY <1>1 DEF GrowNode, Start, New, Unused
<1>2. CASE InsertVm(n)
  BY <1>2 DEF InsertVm
<1>3. CASE CreateReturns(n)
  BY <1>3 DEF CreateReturns
<1>4. CASE CreateRaises(n)
  BY <1>4 DEF CreateRaises
<1>5. CASE InsertConflicts(n)
  BY <1>5 DEF InsertConflicts
<1>6. CASE StarterSeesReady(n)
  BY <1>6 DEF StarterSeesReady
<1>7. CASE StarterSeesDeleted(n)
  BY <1>7 DEF StarterSeesDeleted
<1>8. CASE StarterSeesFailure(n)
  <2>1. starter[n] = "wait" /\ UNCHANGED <<mix, row, rec, hosted, agent, dels, suspects>>
        /\ asked' = asked /\ starter' = [starter EXCEPT ![n] = "failing"]
    BY <1>8, DoubtStays DEF StarterSeesFailure
  <2>2. rec[n] = "FAILED" \/ BootTimesOut(n)
    BY <1>8 DEF StarterSeesFailure
  <2>3. BootTimesOut(n) => agent[n] \in {"none", "dead"} \/ n \in doubted'
    BY DEF BootTimesOut, Doubt
  <2>4. Harmless(n)'
    BY ZenonT(30), <2>1, <2>2, <2>3 DEF Harmless, Ended
  <2> HIDE DEF Harmless
  <2> QED
    BY <2>1, <2>4
<1>9. CASE StarterFails(n)
  BY <1>9 DEF StarterFails
<1> QED
  BY <1>1, <1>2, <1>3, <1>4, <1>5, <1>6, <1>7, <1>8, <1>9 DEF Starting, StarterStep

(* A delete deletes nothing without a reason. *)
LEMMA DeleteReasons ==
    ASSUME Types, Types', Fresh, Fresh', Reasons, Patient,
           NEW n \in Nodes, NEW d, Deletion(n, d)
    PROVE  Reasons'
<1> USE UpdateType, UpdateMerges
        DEF Types, TypeOK, Task, Statuses, Agents, Closed, StarterTo, AgentTo, Up,
            recVars, nodeVars, histVars, headVars, LiveStatuses,
            Reasons, Patient, Fresh, Harmless, Ended, Stuck
<1>1. CASE AskDelete(n)
  BY <1>1 DEF AskDelete
<1>2. CASE AskFail(n)
  BY <1>2 DEF AskFail
<1>3. CASE ReapStopped(n)
  BY <1>3 DEF ReapStopped, Gone
<1>4. CASE d \in dels /\ Mark(d)
  BY <1>4 DEF Mark
<1>5. CASE d \in dels /\ DeleteVm(d)
  BY <1>5 DEF DeleteVm, Gone
<1>6. CASE d \in dels /\ DeleteRaises(d)
  BY <1>6 DEF DeleteRaises
<1> QED
  BY <1>1, <1>2, <1>3, <1>4, <1>5, <1>6 DEF Deletion

(* A restart or shutdown deletes nothing without a reason. *)
LEMMA TaskReasons ==
    ASSUME Types, Types', Fresh, Fresh', Reasons, Patient, NEW t \in Tasks, Sweep(t)
    PROVE  Reasons'
<1> USE UpdateType, UpdateMerges
        DEF Types, TypeOK, Task, Statuses, Agents, Closed, StarterTo, AgentTo, Up,
            recVars, nodeVars, histVars, headVars, LiveStatuses,
            Reasons, Patient, Fresh, Harmless, Ended, Stuck
<1>1. CASE BeginTask(t)
  <2>1. /\ UNCHANGED <<row, rec, hosted, agent, starter, suspects>>
        /\ asked' = asked \cup Active
        /\ dels' = dels \cup {[node |-> n, by |-> t, step |-> "mark"] : n \in Active}
    BY <1>1 DEF BeginTask
  <2>2. \A n \in Active : Harmless(n)'
    BY <2>1 DEF Harmless
  <2> HIDE DEF Harmless
  <2>3. ASSUME NEW d \in dels' PROVE Harmless(d.node)'
    <3>1. CASE d \in dels
      BY <3>1
    <3>2. CASE d.node \in Active
      BY <3>2, <2>2
    <3> QED
      BY <2>1, <3>1, <3>2
  <2>4. \A s \in suspects' : Harmless(s.node)'
    BY <2>1
  <2> QED
    BY <2>1, <2>3, <2>4
<1>2. CASE EndDeletes(t)
  BY <1>2 DEF EndDeletes, Deleted, New, Unused
<1>3. CASE TaskEnds(t)
  BY <1>3 DEF TaskEnds
<1> QED
  BY <1>1, <1>2, <1>3 DEF Sweep, TaskStep

(* A reaper or the head deletes nothing without a reason. *)
LEMMA HeadReasons ==
    ASSUME Types, Types', Fresh, Fresh', Reasons, Patient, HeadStep
    PROVE  Reasons'
<1> USE UpdateType, UpdateMerges
        DEF Types, TypeOK, Task, Statuses, Agents, Closed, StarterTo, AgentTo, Up,
            recVars, nodeVars, histVars, headVars, LiveStatuses,
            Reasons, Patient, Fresh, Harmless, Ended, Stuck
<1>1. CASE ReaperStep
  <2>1. ASSUME NEW n \in Nodes, Suspect(n) PROVE Reasons'
    <3>1. /\ UNCHANGED <<mix, row, rec, hosted, agent, starter, dels, asked>>
          /\ suspects' = suspects \cup {[node |-> n, existed |-> Lives(n)]}
      BY <2>1, DoubtStays DEF Suspect
    <3>2. Harmless(n)'
      <4>1. CASE rec[n] = "READY"
        <5>1. Pushing(n) => n \in doubted'
          BY <2>1, <4>1 DEF Suspect, Overdue, Silent, Doubt
        <5>2. ~Pushing(n) => Ended(n)'
          BY <3>1, <4>1 DEF Pushing
        <5> QED
          BY <5>1, <5>2 DEF Harmless
      <4>2. CASE rec[n] = "BOOTING" /\ starter[n] \in {"create", "inserted"}
        BY <2>1, <4>2 DEF Suspect, Overdue, Doubt
      <4>3. CASE rec[n] = "BOOTING" /\ starter[n] \notin {"create", "inserted"}
        <5>1. agent[n] \in {"none", "dead"} \/ n \in doubted'
          BY <2>1, <4>3 DEF Suspect, Overdue, BootTimesOut, Doubt
        <5> QED
          BY <3>1, <4>3, <5>1 DEF Harmless, Ended
      <4> QED
        BY <2>1, <4>1, <4>2, <4>3 DEF Suspect, Overdue
    <3>3. \A s \in suspects' : s \in suspects \/ s.node = n
      BY <3>1
    <3> HIDE DEF Harmless
    <3> QED
      BY <3>1, <3>2, <3>3
  <2>2. ASSUME NEW n \in Nodes, ReaperDies(n) PROVE Reasons'
    BY <2>2 DEF ReaperDies
  <2>3. ASSUME NEW s \in suspects, Reap(s) PROVE Reasons'
    BY <2>3 DEF Reap, Gone
  <2> QED
    BY <1>1, <2>1, <2>2, <2>3 DEF ReaperStep
<1>2. CASE Crash
  BY <1>2 DEF Crash, Dies, NoTask
<1>3. CASE Disappear
  BY <1>3 DEF Disappear, Dies, NoTask
<1>4. CASE Restart
  BY <1>4 DEF Restart
<1> QED
  BY <1>1, <1>2, <1>3, <1>4 DEF HeadStep

(* A node that boots deletes nothing without a reason. *)
LEMMA BootReasons ==
    ASSUME Types, Types', Fresh, Fresh', Reasons, Patient, NEW n \in Nodes, Boot(n)
    PROVE  Reasons'
<1> USE UpdateType, UpdateMerges
        DEF Types, TypeOK, Task, Statuses, Agents, Closed, StarterTo, AgentTo, Up,
            recVars, nodeVars, histVars, headVars, LiveStatuses,
            Reasons, Patient, Fresh, Harmless, Ended, Stuck
<1>1. CASE ScriptDone(n)
  BY <1>1 DEF ScriptDone, Certifies
<1>2. CASE ScriptFails(n)
  <2>1. agent' = [agent EXCEPT ![n] = "dead"] /\ UNCHANGED <<starter, suspects>>
        /\ (Pushed(n, "FAILED") \/ UNCHANGED recVars)
        /\ dels' \subseteq dels \cup {[node |-> n, by |-> "self", step |-> "vmThenMark"]}
    BY <1>2 DEF ScriptFails, Report
  <2>2. Harmless(n)'
    BY <2>1 DEF Harmless, Ended
  <2> HIDE DEF Harmless
  <2>3. \A d \in dels' : d \in dels \/ d.node = n
    BY <2>1
  <2>4. /\ \A m \in Nodes \ {n} : rec'[m] = rec[m] /\ row'[m] = row[m]
        /\ rec'[n] \in {rec[n], "FAILED"} /\ row'[n] \in {row[n], rec'[n]}
    BY <2>1, PushedMerges
  <2>5. \A m \in Nodes : {rec'[m], row'[m]} \cap Closed # {} => Harmless(m)'
    BY <2>2, <2>4
  <2>6. \A m \in Nodes : "READY" \in {rec'[m], row'[m]} => "READY" \in {rec[m], row[m]}
    BY <2>4
  <2> QED
    BY <2>1, <2>2, <2>3, <2>5, <2>6
<1>3. CASE FirstPush(n)
  BY <1>3 DEF FirstPush, Pushed
<1>4. CASE BeginReboot(n)
  BY <1>4 DEF BeginReboot, Pushed
<1>5. CASE BootDone(n)
  <2>1. /\ UNCHANGED <<mix, may, dels, suspects, starter, task>> /\ n \in hosted
        /\ agent' = [agent EXCEPT ![n] = agent'[n]] /\ agent'[n] # "script"
    BY <1>5 DEF BootDone
  <2>2. /\ \A m \in Nodes \ {n} : rec'[m] = rec[m] /\ row'[m] = row[m]
        /\ rec'[n] \in {rec[n], "READY"} /\ row'[n] \in {row[n], rec'[n]}
    BY <1>5, PushedMerges DEF BootDone
  <2>3. \A m \in Nodes : {rec'[m], row'[m]} \cap Closed # {} => Harmless(m)'
    BY <2>2
  <2>4. starter[n] \notin {"create", "inserted"}
    BY <2>1
  <2>5. \A m \in Nodes : "READY" \in {rec'[m], row'[m]} =>
          agent'[m] # "script" /\ starter'[m] \notin {"create", "inserted"}
    BY <2>1, <2>2, <2>4
  <2> HIDE DEF Harmless
  <2> QED
    BY <2>1, <2>3, <2>5
<1>6. CASE BootFails(n)
  BY <1>6 DEF BootFails, Report, Pushed
<1> QED
  BY <1>1, <1>2, <1>3, <1>4, <1>5, <1>6 DEF Boot

(* A node that serves deletes nothing without a reason. *)
LEMMA ServiceReasons ==
    ASSUME Types, Types', Fresh, Fresh', Reasons, Patient, NEW n \in Nodes, Serving(n)
    PROVE  Reasons'
<1> USE UpdateType, UpdateMerges
        DEF Types, TypeOK, Task, Statuses, Agents, Closed, StarterTo, AgentTo, Up,
            recVars, nodeVars, histVars, headVars, LiveStatuses,
            Reasons, Patient, Fresh, Harmless, Ended, Stuck
<1>1. CASE Push(n)
  BY <1>1 DEF Push, Reported, Pushing, Pushed
<1>2. CASE OrphanLeaves(n)
  BY <1>2 DEF OrphanLeaves, Pushing
<1>3. CASE IdleOut(n)
  BY <1>3 DEF IdleOut, LastPush, Pushed
<1>4. CASE NeverReady(n)
  BY <1>4 DEF NeverReady, LastPush, Pushed
<1>5. CASE Leave(n)
  BY <1>5 DEF Leave, Marks, PoweredOff
<1>6. CASE LeaseRunsOut(n)
  BY <1>6 DEF LeaseRunsOut, Gone
<1>7. CASE BeginJob(n)
  BY <1>7 DEF BeginJob
<1>8. CASE EndJob(n)
  BY <1>8 DEF EndJob
<1>9. CASE ServiceDies(n)
  BY <1>9 DEF ServiceDies, Pushing
<1>10. CASE Preempt(n)
  BY <1>10 DEF Preempt, Hook, Gone, Pushed
<1>11. CASE PersonStops(n)
  BY <1>11 DEF PersonStops, Hook, Marks, Pushed
<1> QED
  BY <1>1, <1>2, <1>3, <1>4, <1>5, <1>6, <1>7, <1>8, <1>9, <1>10, <1>11 DEF Serving

(* Every step deletes nothing without a reason. *)
LEMMA ReasonsStep ==
    ASSUME Types, Types', Fresh, Fresh', Reasons, Patient, [Next]_vars
    PROVE  Reasons'
<1>1. CASE UNCHANGED vars
  BY <1>1 DEF vars, headVars, recVars, nodeVars, histVars, Reasons, Harmless, Ended, Stuck
<1>2. CASE Next
  BY <1>2, NextGroups, StarterReasons, DeleteReasons, TaskReasons,
     HeadReasons, BootReasons, ServiceReasons
<1> QED
  BY <1>1, <1>2

-----------------------------------------------------------------------------
(* A sweep marks what it took. *)

(* Marks that stay set keep a sweep going. *)
LEMMA MarksStay ==
    ASSUME Types, Sweeping, task' = task, bare \subseteq bare', dels \subseteq dels',
           \A m \in Nodes : /\ row[m] # "absent" => row'[m] # "absent"
                            /\ rec'[m] \in LiveStatuses => rec[m] \in LiveStatuses \/ m \in bare'
    PROVE  Sweeping'
<1>1. ASSUME NEW t \in Tasks, NEW m \in Nodes, Swept(t, m) PROVE Swept(t, m)'
  BY <1>1 DEF Swept
<1>2. ASSUME NEW t \in Tasks, task[t].at \in {"deleting", "booting", "done"},
             NEW m \in task[t].took
      PROVE  m \in Nodes /\ row[m] # "absent" /\ Swept(t, m)
  BY <1>2 DEF Sweeping, Types, Task
<1> QED
  BY <1>1, <1>2 DEF Sweeping

(* Node.start undoes no mark of a sweep. *)
LEMMA StarterSweeping ==
    ASSUME Types, Types', Fresh, Fresh', Sweeping, NEW n \in Nodes, Starting(n)
    PROVE  Sweeping'
<1> USE UpdateType, UpdateMerges
        DEF Types, TypeOK, Task, Statuses, Agents, Closed, StarterTo, AgentTo, Up,
            recVars, nodeVars, histVars, headVars, LiveStatuses, Sweeping, Swept, Fresh
<1>1. CASE GrowNode(n)
  BY <1>1 DEF GrowNode, Start, New, Unused
<1>2. CASE InsertVm(n)
  BY <1>2 DEF InsertVm
<1>3. CASE CreateReturns(n)
  BY <1>3 DEF CreateReturns
<1>4. CASE CreateRaises(n)
  BY <1>4 DEF CreateRaises
<1>5. CASE InsertConflicts(n)
  BY <1>5 DEF InsertConflicts
<1>6. CASE StarterSeesReady(n)
  BY <1>6 DEF StarterSeesReady
<1>7. CASE StarterSeesDeleted(n)
  BY <1>7 DEF StarterSeesDeleted
<1>8. CASE StarterSeesFailure(n)
  BY <1>8 DEF StarterSeesFailure
<1>9. CASE StarterFails(n)
  BY <1>9 DEF StarterFails
<1> QED
  BY <1>1, <1>2, <1>3, <1>4, <1>5, <1>6, <1>7, <1>8, <1>9 DEF Starting, StarterStep

(* A delete undoes no mark of a sweep. *)
LEMMA DeleteSweeping ==
    ASSUME Types, Types', Fresh, Fresh', Sweeping, NEW n \in Nodes, NEW d, Deletion(n, d)
    PROVE  Sweeping'
<1> USE UpdateType, UpdateMerges
        DEF Types, TypeOK, Task, Statuses, Agents, Closed, StarterTo, AgentTo, Up,
            recVars, nodeVars, histVars, headVars, LiveStatuses, Sweeping, Swept, Fresh
<1>1. CASE AskDelete(n)
  BY <1>1 DEF AskDelete
<1>2. CASE AskFail(n)
  BY <1>2 DEF AskFail
<1>3. CASE ReapStopped(n)
  BY <1>3 DEF ReapStopped, Gone
<1>4. CASE d \in dels /\ Mark(d)
  BY <1>4 DEF Mark
<1>5. CASE d \in dels /\ DeleteVm(d)
  <2>1. /\ task' = task /\ bare' = bare
        /\ \A e \in dels : e.step = "mark" => e \in dels'
    BY <1>5 DEF DeleteVm
  <2>2. \A m \in Nodes : rec'[m] \in LiveStatuses => rec'[m] = rec[m]
    BY <1>5 DEF DeleteVm
  <2>5. \A m \in Nodes : row[m] # "absent" => row'[m] # "absent"
    BY <1>5 DEF DeleteVm
  <2>3. ASSUME NEW t \in Tasks, NEW m \in Nodes, Swept(t, m) PROVE Swept(t, m)'
    <3>1. CASE rec[m] \in LiveStatuses => m \in bare
      BY <2>1, <2>2, <3>1
    <3>2. CASE task[t].at = "deleting" /\ \E e \in dels : e.node = m /\ e.by = t /\ e.step = "mark"
      BY <2>1, <3>2
    <3> QED
      BY <2>3, <3>1, <3>2
  <2> HIDE DEF Swept
  <2>4. ASSUME NEW t \in Tasks, task[t].at \in {"deleting", "booting", "done"},
               NEW m \in task[t].took
        PROVE  row'[m] # "absent" /\ Swept(t, m)'
    <3>1. m \in Nodes /\ row[m] # "absent" /\ Swept(t, m)
      BY <2>4
    <3>2. row'[m] # "absent"
      BY <2>5, <3>1, Zenon
    <3>3. Swept(t, m)'
      BY <2>3, <3>1
    <3> QED
      BY <3>2, <3>3
  <2> QED
    BY <2>1, <2>4
<1>6. CASE d \in dels /\ DeleteRaises(d)
  BY <1>6 DEF DeleteRaises
<1> QED
  BY <1>1, <1>2, <1>3, <1>4, <1>5, <1>6 DEF Deletion

(* A restart or shutdown undoes no mark of a sweep. *)
LEMMA TaskSweeping ==
    ASSUME Types, Types', Fresh, Fresh', Sweeping, NEW t \in Tasks, Sweep(t)
    PROVE  Sweeping'
<1> USE UpdateType, UpdateMerges
        DEF Types, TypeOK, Task, Statuses, Agents, Closed, StarterTo, AgentTo, Up,
            recVars, nodeVars, histVars, headVars, LiveStatuses, Sweeping, Swept, Fresh
<1>1. CASE BeginTask(t)
  <2>1. /\ task' = [task EXCEPT ![t] = [NoTask EXCEPT !.at = "deleting", !.took = Active]]
        /\ UNCHANGED <<rec, row, bare>>
        /\ dels' = dels \cup {[node |-> n, by |-> t, step |-> "mark"] : n \in Active}
    BY <1>1 DEF BeginTask
  <2>2. task'[t].took = Active
    BY <2>1 DEF NoTask
  <2>3. \A u \in Tasks \ {t} : task'[u] = task[u]
    BY <2>1
  <2>4. ASSUME NEW u \in Tasks, NEW m \in Nodes, Swept(u, m) PROVE Swept(u, m)'
    <3>1. task[u].at = "deleting" => task'[u].at = "deleting"
      BY <1>1, <2>3 DEF BeginTask
    <3> QED
      BY <2>1, <2>4, <3>1
  <2>5. ASSUME NEW m \in Active PROVE row'[m] # "absent" /\ Swept(t, m)'
    <3>1. [node |-> m, by |-> t, step |-> "mark"] \in dels'
      BY <2>1
    <3>2. \E d \in dels' : d.node = m /\ d.by = t /\ d.step = "mark"
      BY <3>1
    <3>3. m \in Nodes /\ rec[m] # "absent"
      BY DEF Active
    <3>4. row'[m] # "absent"
      BY <2>1, <3>3
    <3>5. task'[t].at = "deleting"
      BY <2>1 DEF NoTask
    <3> QED
      BY <3>2, <3>4, <3>5
  <2> HIDE DEF Swept
  <2> QED
    BY <2>2, <2>3, <2>4, <2>5, <2>1
<1>2. CASE EndDeletes(t)
  BY <1>2 DEF EndDeletes, Deleted, New, Unused
<1>3. CASE TaskEnds(t)
  BY <1>3 DEF TaskEnds
<1> QED
  BY <1>1, <1>2, <1>3 DEF Sweep, TaskStep

(* A reaper or the head undoes no mark of a sweep. *)
LEMMA HeadSweeping ==
    ASSUME Types, Types', Fresh, Fresh', Sweeping, HeadStep
    PROVE  Sweeping'
<1> USE UpdateType, UpdateMerges
        DEF Types, TypeOK, Task, Statuses, Agents, Closed, StarterTo, AgentTo, Up,
            recVars, nodeVars, histVars, headVars, LiveStatuses, Sweeping, Swept, Fresh
<1>1. CASE ReaperStep
  <2>1. ASSUME NEW n \in Nodes, Suspect(n) PROVE Sweeping'
    BY <2>1 DEF Suspect
  <2>2. ASSUME NEW n \in Nodes, ReaperDies(n) PROVE Sweeping'
    BY <2>2 DEF ReaperDies
  <2>3. ASSUME NEW s \in suspects, Reap(s) PROVE Sweeping'
    BY <2>3 DEF Reap, Gone
  <2> QED
    BY <1>1, <2>1, <2>2, <2>3 DEF ReaperStep
<1>2. CASE Crash
  BY <1>2 DEF Crash, Dies, NoTask
<1>3. CASE Disappear
  BY <1>3 DEF Disappear, Dies, NoTask
<1>4. CASE Restart
  BY <1>4 DEF Restart
<1> QED
  BY <1>1, <1>2, <1>3, <1>4 DEF HeadStep

(* A node that boots undoes no mark of a sweep. *)
LEMMA BootSweeping ==
    ASSUME Types, Types', Fresh, Fresh', Sweeping, NEW n \in Nodes, Boot(n)
    PROVE  Sweeping'
<1> USE UpdateType, UpdateMerges
        DEF Types, TypeOK, Task, Statuses, Agents, Closed, StarterTo, AgentTo, Up,
            recVars, nodeVars, histVars, headVars, LiveStatuses, Sweeping, Swept, Fresh
<1>1. CASE ScriptDone(n)
  BY <1>1 DEF ScriptDone, Certifies
<1>2. CASE ScriptFails(n)
  <2>1. task' = task /\ bare \subseteq bare' /\ dels \subseteq dels'
    BY <1>2 DEF ScriptFails, Report, Pushed
  <2>2. \/ UNCHANGED recVars
        \/ Pushed(n, "FAILED")
    BY <1>2 DEF ScriptFails, Report
  <2>3. \A m \in Nodes :
          /\ row[m] # "absent" => row'[m] # "absent"
          /\ rec'[m] \in LiveStatuses => rec[m] \in LiveStatuses \/ m \in bare'
    BY <2>2, PushedMerges
  <2> QED
    BY <2>1, <2>3, MarksStay
<1>3. CASE FirstPush(n)
  BY <1>3 DEF FirstPush, Pushed
<1>4. CASE BeginReboot(n)
  BY <1>4 DEF BeginReboot, Pushed
<1>5. CASE BootDone(n)
  <2>1. task' = task /\ bare \subseteq bare' /\ dels' = dels
    BY <1>5 DEF BootDone, Pushed
  <2>2. \A m \in Nodes :
          /\ row[m] # "absent" => row'[m] # "absent"
          /\ rec'[m] \in LiveStatuses => rec[m] \in LiveStatuses \/ m \in bare'
    BY <1>5, PushedMerges DEF BootDone
  <2> QED
    BY <2>1, <2>2, MarksStay
<1>6. CASE BootFails(n)
  <2>1. task' = task /\ bare \subseteq bare' /\ dels \subseteq dels'
    BY <1>6 DEF BootFails, Report, Pushed
  <2>2. \/ UNCHANGED recVars
        \/ Pushed(n, "FAILED")
    BY <1>6 DEF BootFails, Report
  <2>3. \A m \in Nodes :
          /\ row[m] # "absent" => row'[m] # "absent"
          /\ rec'[m] \in LiveStatuses => rec[m] \in LiveStatuses \/ m \in bare'
    BY <2>2, PushedMerges
  <2> QED
    BY <2>1, <2>3, MarksStay
<1> QED
  BY <1>1, <1>2, <1>3, <1>4, <1>5, <1>6 DEF Boot

(* A node that serves undoes no mark of a sweep. *)
LEMMA ServiceSweeping ==
    ASSUME Types, Types', Fresh, Fresh', Sweeping, NEW n \in Nodes, Serving(n)
    PROVE  Sweeping'
<1> USE UpdateType, UpdateMerges
        DEF Types, TypeOK, Task, Statuses, Agents, Closed, StarterTo, AgentTo, Up,
            recVars, nodeVars, histVars, headVars, LiveStatuses, Sweeping, Swept, Fresh
<1>1. CASE Push(n)
  BY <1>1 DEF Push, Reported, Pushing, Pushed
<1>2. CASE OrphanLeaves(n)
  BY <1>2 DEF OrphanLeaves, Pushing
<1>3. CASE IdleOut(n)
  <2>1. task' = task /\ bare \subseteq bare' /\ dels \subseteq dels'
    BY <1>3 DEF IdleOut, LastPush, Pushed
  <2>2. \A m \in Nodes :
          /\ row[m] # "absent" => row'[m] # "absent"
          /\ rec'[m] \in LiveStatuses => rec[m] \in LiveStatuses \/ m \in bare'
    BY <1>3 DEF IdleOut, LastPush, Pushed
  <2> QED
    BY <2>1, <2>2, MarksStay
<1>4. CASE NeverReady(n)
  <2>1. task' = task /\ bare \subseteq bare' /\ dels \subseteq dels'
    BY <1>4 DEF NeverReady, LastPush, Pushed
  <2>2. \A m \in Nodes :
          /\ row[m] # "absent" => row'[m] # "absent"
          /\ rec'[m] \in LiveStatuses => rec[m] \in LiveStatuses \/ m \in bare'
    BY <1>4 DEF NeverReady, LastPush, Pushed
  <2> QED
    BY <2>1, <2>2, MarksStay
<1>5. CASE Leave(n)
  BY <1>5 DEF Leave, Marks, PoweredOff
<1>6. CASE LeaseRunsOut(n)
  BY <1>6 DEF LeaseRunsOut, Gone
<1>7. CASE BeginJob(n)
  BY <1>7 DEF BeginJob
<1>8. CASE EndJob(n)
  BY <1>8 DEF EndJob
<1>9. CASE ServiceDies(n)
  BY <1>9 DEF ServiceDies, Pushing
<1>10. CASE Preempt(n)
  <2>1. task' = task /\ bare \subseteq bare' /\ dels \subseteq dels'
    BY <1>10 DEF Preempt, Hook, Gone, Pushed
  <2>2. \A m \in Nodes :
          /\ row[m] # "absent" => row'[m] # "absent"
          /\ rec'[m] \in LiveStatuses => rec[m] \in LiveStatuses \/ m \in bare'
    BY <1>10 DEF Preempt, Hook, Gone, Pushed
  <2> QED
    BY <2>1, <2>2, MarksStay
<1>11. CASE PersonStops(n)
  <2>1. task' = task /\ bare \subseteq bare' /\ dels \subseteq dels'
    BY <1>11 DEF PersonStops, Hook, Pushed
  <2>2. \A m \in Nodes :
          /\ row[m] # "absent" => row'[m] # "absent"
          /\ rec'[m] \in LiveStatuses => rec[m] \in LiveStatuses \/ m \in bare'
    BY <1>11 DEF PersonStops, Hook, Pushed
  <2> QED
    BY <2>1, <2>2, MarksStay
<1> QED
  BY <1>1, <1>2, <1>3, <1>4, <1>5, <1>6, <1>7, <1>8, <1>9, <1>10, <1>11 DEF Serving

(* Every step undoes no mark of a sweep. *)
LEMMA SweepingStep ==
    ASSUME Types, Types', Fresh, Fresh', Sweeping, [Next]_vars
    PROVE  Sweeping'
<1>1. CASE UNCHANGED vars
  BY <1>1 DEF vars, headVars, recVars, nodeVars, histVars, Sweeping, Swept
<1>2. CASE Next
  BY <1>2, NextGroups, StarterSweeping, DeleteSweeping, TaskSweeping,
     HeadSweeping, BootSweeping, ServiceSweeping
<1> QED
  BY <1>1, <1>2

-----------------------------------------------------------------------------
(* A VM under a job is spared. *)

(* The step form of BusyVmKept. *)
Spared == \A m \in Nodes : JobLosesVm(m) => Excused(m) \/ m \in doubted'

(* What is harmless for a busy node's VM. *)
LEMMA BusyHarm ==
    ASSUME Types, Reasons, NEW n \in Nodes, n \in busy
    PROVE  /\ agent[n] = "ready" /\ vm[n] = "on"
           /\ Harmless(n) => n \in asked \/ n \in doubted
           /\ rec[n] = "DELETED" => n \in asked \/ n \in doubted
           /\ \A d \in dels : d.node = n => n \in asked \/ n \in doubted
           /\ \A s \in suspects : s.node = n => n \in asked \/ n \in doubted
<1>1. agent[n] = "ready" /\ vm[n] = "on"
  BY DEF Types, TypeOK
<1>2. Harmless(n) => n \in asked \/ n \in doubted
  BY <1>1 DEF Harmless, Ended, Stuck
<1> QED
  BY <1>1, <1>2 DEF Reasons

(* Node.start spares the VM of a busy node. *)
LEMMA StarterSpared ==
    ASSUME Types, Fresh, Reasons, NEW n \in Nodes, Starting(n)
    PROVE  Spared
<1> USE BusyHarm
        DEF Types, TypeOK, Statuses, StarterTo, AgentTo, Up, recVars, nodeVars, histVars, headVars,
            Spared, JobLosesVm, Excused
<1>1. CASE GrowNode(n)
  BY <1>1 DEF GrowNode, Start, New, Unused
<1>2. CASE InsertVm(n)
  BY <1>2 DEF InsertVm
<1>3. CASE CreateReturns(n)
  BY <1>3 DEF CreateReturns
<1>4. CASE CreateRaises(n)
  BY <1>4 DEF CreateRaises
<1>5. CASE InsertConflicts(n)
  BY <1>5 DEF InsertConflicts
<1>6. CASE StarterSeesReady(n)
  BY <1>6 DEF StarterSeesReady
<1>7. CASE StarterSeesDeleted(n)
  BY <1>7 DEF StarterSeesDeleted
<1>8. CASE StarterSeesFailure(n)
  BY <1>8 DEF StarterSeesFailure
<1>9. CASE StarterFails(n)
  BY <1>9 DEF StarterFails
<1> QED
  BY <1>1, <1>2, <1>3, <1>4, <1>5, <1>6, <1>7, <1>8, <1>9 DEF Starting, StarterStep

(* A delete spares the VM of a busy node. *)
LEMMA DeleteSpared ==
    ASSUME Types, Fresh, Reasons, NEW n \in Nodes, NEW d, Deletion(n, d)
    PROVE  Spared
<1> USE BusyHarm
        DEF Types, TypeOK, Statuses, StarterTo, AgentTo, Up, recVars, nodeVars, histVars, headVars,
            Spared, JobLosesVm, Excused
<1>1. CASE AskDelete(n)
  BY <1>1 DEF AskDelete
<1>2. CASE AskFail(n)
  BY <1>2 DEF AskFail
<1>3. CASE ReapStopped(n)
  BY <1>3 DEF ReapStopped, Gone
<1>4. CASE d \in dels /\ Mark(d)
  BY <1>4 DEF Mark
<1>5. CASE d \in dels /\ DeleteVm(d)
  BY <1>5 DEF DeleteVm, Gone
<1>6. CASE d \in dels /\ DeleteRaises(d)
  BY <1>6 DEF DeleteRaises
<1> QED
  BY <1>1, <1>2, <1>3, <1>4, <1>5, <1>6 DEF Deletion

(* A restart or shutdown spares the VM of a busy node. *)
LEMMA TaskSpared ==
    ASSUME Types, Fresh, Reasons, NEW t \in Tasks, Sweep(t)
    PROVE  Spared
<1> USE BusyHarm
        DEF Types, TypeOK, Statuses, StarterTo, AgentTo, Up, recVars, nodeVars, histVars, headVars,
            Spared, JobLosesVm, Excused
<1>1. CASE BeginTask(t)
  BY <1>1 DEF BeginTask, NoTask, Active
<1>2. CASE EndDeletes(t)
  BY <1>2 DEF EndDeletes, Deleted, New, Unused
<1>3. CASE TaskEnds(t)
  BY <1>3 DEF TaskEnds
<1> QED
  BY <1>1, <1>2, <1>3 DEF Sweep, TaskStep

(* A reaper or the head spares the VM of a busy node. *)
LEMMA HeadSpared ==
    ASSUME Types, Fresh, Reasons, HeadStep
    PROVE  Spared
<1> USE BusyHarm
        DEF Types, TypeOK, Statuses, StarterTo, AgentTo, Up, recVars, nodeVars, histVars, headVars,
            Spared, JobLosesVm, Excused
<1>1. CASE ReaperStep
  <2>1. ASSUME NEW n \in Nodes, Suspect(n) PROVE Spared
    BY <2>1 DEF Suspect
  <2>2. ASSUME NEW n \in Nodes, ReaperDies(n) PROVE Spared
    BY <2>2 DEF ReaperDies
  <2>3. ASSUME NEW s \in suspects, Reap(s) PROVE Spared
    BY <2>3 DEF Reap, Gone
  <2> QED
    BY <1>1, <2>1, <2>2, <2>3 DEF ReaperStep
<1>2. CASE Crash
  BY <1>2 DEF Crash, Dies, NoTask
<1>3. CASE Disappear
  BY <1>3 DEF Disappear, Dies, NoTask
<1>4. CASE Restart
  BY <1>4 DEF Restart
<1> QED
  BY <1>1, <1>2, <1>3, <1>4 DEF HeadStep

(* A node that boots spares the VM of a busy node. *)
LEMMA BootSpared ==
    ASSUME Types, Fresh, Reasons, NEW n \in Nodes, Boot(n)
    PROVE  Spared
<1> USE BusyHarm
        DEF Types, TypeOK, Statuses, StarterTo, AgentTo, Up, recVars, nodeVars, histVars, headVars,
            Spared, JobLosesVm, Excused
<1>1. CASE ScriptDone(n)
  BY <1>1 DEF ScriptDone, Certifies
<1>2. CASE ScriptFails(n)
  BY <1>2 DEF ScriptFails, Report, Pushed
<1>3. CASE FirstPush(n)
  BY <1>3 DEF FirstPush, Pushed
<1>4. CASE BeginReboot(n)
  BY <1>4 DEF BeginReboot, Pushed
<1>5. CASE BootDone(n)
  BY <1>5 DEF BootDone, Pushed
<1>6. CASE BootFails(n)
  BY <1>6 DEF BootFails, Report, Pushed
<1> QED
  BY <1>1, <1>2, <1>3, <1>4, <1>5, <1>6 DEF Boot

(* A node that serves spares the VM of a busy node. *)
LEMMA ServiceSpared ==
    ASSUME Types, Fresh, Reasons, NEW n \in Nodes, Serving(n)
    PROVE  Spared
<1> USE BusyHarm
        DEF Types, TypeOK, Statuses, StarterTo, AgentTo, Up, recVars, nodeVars, histVars, headVars,
            Spared, JobLosesVm, Excused
<1>1. CASE Push(n)
  <2>1. n \in busy /\ agent'[n] = "leaving" => rec'[n] = "DELETED" /\ Pushed(n, "READY")
    BY <1>1, BusyHarm DEF Push, Reported
  <2>2. n \in busy /\ agent'[n] = "leaving" => rec[n] = "DELETED"
    BY <2>1, UpdateMerges DEF Pushed
  <2>3. vm' = vm /\ doubted' = doubted /\ \A m \in Nodes \ {n} : agent'[m] = agent[m]
    BY <1>1 DEF Push
  <2> QED
    BY <2>2, <2>3, BusyHarm
<1>2. CASE OrphanLeaves(n)
  <2>1. head = "gone" \/ n \in doubted'
    BY <1>2 DEF OrphanLeaves, Doubt
  <2>2. vm' = vm /\ \A m \in Nodes \ {n} : agent'[m] = agent[m]
    BY <1>2 DEF OrphanLeaves
  <2> QED
    BY <2>1, <2>2, BusyHarm
<1>3. CASE IdleOut(n)
  BY <1>3 DEF IdleOut, Occupied, LastPush, Pushed
<1>4. CASE NeverReady(n)
  BY <1>4 DEF NeverReady, LastPush, Pushed
<1>5. CASE Leave(n)
  BY <1>5 DEF Leave, Marks, PoweredOff
<1>6. CASE LeaseRunsOut(n)
  BY <1>6 DEF LeaseRunsOut, Gone
<1>7. CASE BeginJob(n)
  BY <1>7 DEF BeginJob
<1>8. CASE EndJob(n)
  BY <1>8 DEF EndJob
<1>9. CASE ServiceDies(n)
  BY <1>9 DEF ServiceDies, Pushing
<1>10. CASE Preempt(n)
  <2>1. may'["spot"] # may["spot"]
    BY <1>10 DEF Preempt, Spend, Costs, Kinds
  <2> QED
    BY <2>1
<1>11. CASE PersonStops(n)
  BY <1>11 DEF PersonStops, Hook, Marks, Pushed
<1> QED
  BY <1>1, <1>2, <1>3, <1>4, <1>5, <1>6, <1>7, <1>8, <1>9, <1>10, <1>11 DEF Serving

(* Every step spares the VM of a busy node. *)
LEMMA SparedStep ==
    ASSUME Types, Fresh, Reasons, [Next]_vars
    PROVE  Spared
<1>1. CASE UNCHANGED vars
  BY <1>1 DEF vars, headVars, recVars, nodeVars, histVars, Spared, JobLosesVm, Excused, Types, TypeOK
<1>2. CASE Next
  BY <1>2, NextGroups, StarterSpared, DeleteSpared, TaskSpared,
     HeadSpared, BootSpared, ServiceSpared
<1> QED
  BY <1>1, <1>2

-----------------------------------------------------------------------------
LEMMA InitInv == Init => IInv
<1> SUFFICES ASSUME Init PROVE IInv
  OBVIOUS
<1>1. Types
  <2>1. mix.may \in [Kinds -> Nat] /\ NoTask \in Task
    BY MixesAssumption DEF Init, NoTask, Task
  <2> QED
    BY <2>1 DEF Init, Types, TypeOK, Statuses, Agents, Up, NoTask
<1>2. Fresh /\ Reasons /\ Sweeping
  BY DEF Init, Fresh, Reasons, Sweeping, NoTask
<1> QED
  BY <1>1, <1>2 DEF IInv

(* Every step keeps the invariant. *)
LEMMA NextInv == IInv /\ [Next]_vars => IInv'
<1> SUFFICES ASSUME IInv, [Next]_vars PROVE IInv'
  OBVIOUS
<1>1. Types' /\ Fresh'
  BY TypeStep, FreshStep DEF IInv
<1>2. Patient
  BY <1>1, HarmlessStays DEF IInv, Patient
<1>3. Reasons' /\ Sweeping'
  BY <1>1, <1>2, ReasonsStep, SweepingStep DEF IInv
<1> QED
  BY <1>1, <1>3 DEF IInv

(* IInv is an inductive invariant of VmFleet, whatever the failures. *)
THEOREM Invariance == Spec => []IInv
  BY InitInv, NextInv, PTL DEF Spec

(* The variables keep their types: nothing runs in a VM that is not on, no thread,
   delete or suspicion outlives the head, and only a ready node has work. *)
THEOREM TypeCorrect == Spec => []TypeOK
<1>1. IInv => TypeOK
  BY DEF IInv, Types
<1> QED
  BY <1>1, Invariance, PTL

(* Neither a delete in progress, nor the reaper with a verdict that is out of date,
   nor a watchdog takes a VM from under its job: shutdown_if_idle_for_too_long and
   node_reaper_loop, whatever fails and however often. *)
THEOREM BusyVmStays == Spec => BusyVmKept
<1>1. IInv /\ [Next]_vars => Spared
  BY SparedStep DEF IInv
<1>2. IInv /\ [Next]_vars =>
      [\A n \in Nodes : JobLosesVm(n) => Excused(n) \/ n \in doubted']_vars
  BY <1>1 DEF Spared
<1> QED
  BY <1>2, Invariance, PTL DEF Spec, BusyVmKept

(* A shutdown or restart that is over leaves no live record of a node it took, but
   the bare one of a late push: _shutdown_cluster and the tombstones of
   update_node. *)
THEOREM SweepsStayClean == Spec => []CleanSweep
<1>1. IInv => CleanSweep
  <2> SUFFICES ASSUME IInv, NEW t \in Tasks, task[t].at \in {"booting", "done"},
                      NEW n \in task[t].took, rec[n] \in LiveStatuses
               PROVE  n \in bare
    BY DEF CleanSweep
  <2> QED
    BY DEF IInv, Sweeping, Swept
<1> QED
  BY <1>1, Invariance, PTL

-----------------------------------------------------------------------------
(* Nothing is left unminded by a head that stays. *)

(* The surroundings: the head stays up, its answers and the cloud's deletes arrive,
   and a node service is killed only where no create is slow and no sweep drops
   tombstones.  Boots fail and hang, inserts conflict, nodes fall silent, VMs are preempted,
   stopped, rebooted and asked to go as often as they like. *)
Steady ==
    \A x \in Mixes :
      /\ \A k \in {"crash", "gone", "lost", "api"} : x.may[k] = 0
      /\ \/ x.may["service"] = 0
         \/ x.may["slow"] = 0 /\ \A t \in Tasks : x.plan[t] = "none"

Deleting(n) == \E d \in dels : d.node = n

(* The node is on record, or goes, or is its starter's matter. *)
OnRecord(n) ==
    \/ rec[n] \in LiveStatuses \/ Deleting(n) \/ agent[n] = "leaving"
    \/ agent[n] = "script" /\ (rec[n] = "DELETED" \/ n \notin hosted)
    \/ rec[n] = "FAILED" /\ agent[n] # "ready" /\ starter[n] \in {"wait", "failing"}

(* The VM is not there and will not be. *)
Absent(n) == vm[n] = "gone" \/ (vm[n] = "none" /\ starter[n] # "create" /\ row[n] # "absent")

(* Records are whole: no sweep drops one, so no push makes one, and the reaper
   meets none that would end it. *)
WholeRecords ==
    /\ \A t \in Tasks : mix.plan[t] = "none" /\ task[t].at = "new"
    /\ reaper /\ bare = {}
    /\ \A n \in Nodes : rec[n] = "absent" => row[n] = "absent"

AllOnRecord == \A n \in Nodes : vm[n] = "on" => OnRecord(n)

TrueSuspicions == \A s \in suspects : s.existed \/ Absent(s.node)

(* The reaper can do its work on a service that is dead. *)
Watched == may["slow"] = 0 /\ WholeRecords /\ AllOnRecord /\ TrueSuspicions

(* No request is lost and no delete fails. *)
Reached == Up /\ \A k \in {"crash", "gone", "lost", "api"} : may[k] = 0

(* What has left or failed is being deleted, or can be once it is off. *)
Settled ==
    /\ \A n \in Nodes : vm[n] = "on" /\ agent[n] \in {"none", "wedged"} => Deleting(n)
    /\ \A n \in Nodes : vm[n] = "off" /\ n \notin stopped => Reapable(n)

(* A service that is dead reported a failure. *)
DeadGoes(n) == vm[n] = "on" /\ agent[n] = "dead" => Deleting(n)
DeadReported == may["service"] = 0 /\ \A n \in Nodes : DeadGoes(n)

Tended == Reached /\ Settled /\ (DeadReported \/ Watched)

(* A failure that is told arrives whole. *)
LEMMA ReportArrives ==
    ASSUME Types, Reached, NEW n \in Nodes, NEW landed \in SUBSET Requests,
           Report(n, landed), \E kinds : Costs(LossOf(landed) \cup kinds)
    PROVE  /\ Pushed(n, "FAILED")
           /\ dels' = dels \cup {[node |-> n, by |-> "self", step |-> "vmThenMark"]}
<1>1. "lost" \notin LossOf(landed)
  BY DEF Costs, Reached, Kinds, Types, TypeOK
<1>2. landed = Requests
  BY <1>1 DEF LossOf, Reached
<1> QED
  BY <1>2 DEF Report, Requests

(* So does the last push of a node that leaves. *)
LEMMA LastArrives ==
    ASSUME Types, Reached, NEW n \in Nodes, LastPush(n)
    PROVE  Pushed(n, "DELETED") /\ may' = may
BY DEF LastPush, Reached, Types, TypeOK

(* Nothing but a crash, the end or a restart of the head changes whether it is up. *)
HeadSame == Up => Crash \/ Disappear \/ head' = head

(* Node.start neither ends nor restarts the head unseen. *)
LEMMA StarterHeadSame ==
    ASSUME Types, NEW n \in Nodes, Starting(n)
    PROVE  HeadSame
<1> USE DEF HeadSame, headVars, Up
<1>1. CASE GrowNode(n)
  BY <1>1 DEF GrowNode, Start, New, Unused
<1>2. CASE InsertVm(n)
  BY <1>2 DEF InsertVm
<1>3. CASE CreateReturns(n)
  BY <1>3 DEF CreateReturns
<1>4. CASE CreateRaises(n)
  BY <1>4 DEF CreateRaises
<1>5. CASE InsertConflicts(n)
  BY <1>5 DEF InsertConflicts
<1>6. CASE StarterSeesReady(n)
  BY <1>6 DEF StarterSeesReady
<1>7. CASE StarterSeesDeleted(n)
  BY <1>7 DEF StarterSeesDeleted
<1>8. CASE StarterSeesFailure(n)
  BY <1>8 DEF StarterSeesFailure
<1>9. CASE StarterFails(n)
  BY <1>9 DEF StarterFails
<1> QED
  BY <1>1, <1>2, <1>3, <1>4, <1>5, <1>6, <1>7, <1>8, <1>9 DEF Starting, StarterStep

(* A delete neither ends nor restarts the head unseen. *)
LEMMA DeleteHeadSame ==
    ASSUME Types, NEW n \in Nodes, NEW d, Deletion(n, d)
    PROVE  HeadSame
<1> USE DEF HeadSame, headVars, Up
<1>1. CASE AskDelete(n)
  BY <1>1 DEF AskDelete
<1>2. CASE AskFail(n)
  BY <1>2 DEF AskFail
<1>3. CASE ReapStopped(n)
  BY <1>3 DEF ReapStopped, Gone
<1>4. CASE d \in dels /\ Mark(d)
  BY <1>4 DEF Mark
<1>5. CASE d \in dels /\ DeleteVm(d)
  BY <1>5 DEF DeleteVm, Gone
<1>6. CASE d \in dels /\ DeleteRaises(d)
  BY <1>6 DEF DeleteRaises
<1> QED
  BY <1>1, <1>2, <1>3, <1>4, <1>5, <1>6 DEF Deletion

(* A restart or shutdown neither ends nor restarts the head unseen. *)
LEMMA TaskHeadSame ==
    ASSUME Types, NEW t \in Tasks, Sweep(t)
    PROVE  HeadSame
<1> USE DEF HeadSame, headVars, Up
<1>1. CASE BeginTask(t)
  BY <1>1 DEF BeginTask, NoTask, Active
<1>2. CASE EndDeletes(t)
  BY <1>2 DEF EndDeletes, Deleted, New, Unused
<1>3. CASE TaskEnds(t)
  BY <1>3 DEF TaskEnds
<1> QED
  BY <1>1, <1>2, <1>3 DEF Sweep, TaskStep

(* A reaper or the head neither ends nor restarts the head unseen. *)
LEMMA HeadHeadSame ==
    ASSUME Types, HeadStep
    PROVE  HeadSame
<1> USE DEF HeadSame, headVars, Up
<1>1. CASE ReaperStep
  <2>1. ASSUME NEW n \in Nodes, Suspect(n) PROVE HeadSame
    BY <2>1 DEF Suspect
  <2>2. ASSUME NEW n \in Nodes, ReaperDies(n) PROVE HeadSame
    BY <2>2 DEF ReaperDies
  <2>3. ASSUME NEW s \in suspects, Reap(s) PROVE HeadSame
    BY <2>3 DEF Reap
  <2> QED
    BY <1>1, <2>1, <2>2, <2>3 DEF ReaperStep
<1>2. CASE Crash
  BY <1>2 DEF HeadSame
<1>3. CASE Disappear
  BY <1>3 DEF HeadSame
<1>4. CASE Restart
  BY <1>4 DEF Restart
<1> QED
  BY <1>1, <1>2, <1>3, <1>4 DEF HeadStep

(* A node that boots neither ends nor restarts the head unseen. *)
LEMMA BootHeadSame ==
    ASSUME Types, NEW n \in Nodes, Boot(n)
    PROVE  HeadSame
<1> USE DEF HeadSame, headVars, Up
<1>1. CASE ScriptDone(n)
  BY <1>1 DEF ScriptDone, Certifies
<1>2. CASE ScriptFails(n)
  BY <1>2 DEF ScriptFails, Report, Pushed
<1>3. CASE FirstPush(n)
  BY <1>3 DEF FirstPush, Pushed
<1>4. CASE BeginReboot(n)
  BY <1>4 DEF BeginReboot, Pushed
<1>5. CASE BootDone(n)
  BY <1>5 DEF BootDone, Pushed
<1>6. CASE BootFails(n)
  BY <1>6 DEF BootFails, Report, Pushed
<1> QED
  BY <1>1, <1>2, <1>3, <1>4, <1>5, <1>6 DEF Boot

(* A node that serves neither ends nor restarts the head unseen. *)
LEMMA ServiceHeadSame ==
    ASSUME Types, NEW n \in Nodes, Serving(n)
    PROVE  HeadSame
<1> USE DEF HeadSame, headVars, Up
<1>1. CASE Push(n)
  BY <1>1 DEF Push, Reported, Pushing, Pushed
<1>2. CASE OrphanLeaves(n)
  BY <1>2 DEF OrphanLeaves, Pushing
<1>3. CASE IdleOut(n)
  BY <1>3 DEF IdleOut, LastPush, Pushed
<1>4. CASE NeverReady(n)
  BY <1>4 DEF NeverReady, LastPush, Pushed
<1>5. CASE Leave(n)
  BY <1>5 DEF Leave, Marks, PoweredOff
<1>6. CASE LeaseRunsOut(n)
  BY <1>6 DEF LeaseRunsOut, Gone
<1>7. CASE BeginJob(n)
  BY <1>7 DEF BeginJob
<1>8. CASE EndJob(n)
  BY <1>8 DEF EndJob
<1>9. CASE ServiceDies(n)
  BY <1>9 DEF ServiceDies, Pushing
<1>10. CASE Preempt(n)
  BY <1>10 DEF Preempt, Hook, Gone, Pushed
<1>11. CASE PersonStops(n)
  BY <1>11 DEF PersonStops, Hook, Marks, Pushed
<1> QED
  BY <1>1, <1>2, <1>3, <1>4, <1>5, <1>6, <1>7, <1>8, <1>9, <1>10, <1>11 DEF Serving

(* Every step neither ends nor restarts the head unseen. *)
LEMMA HeadSameStep ==
    ASSUME Types, [Next]_vars
    PROVE  HeadSame
<1>1. CASE UNCHANGED vars
  BY <1>1 DEF vars, headVars, recVars, nodeVars, histVars, HeadSame
<1>2. CASE Next
  BY <1>2, NextGroups, StarterHeadSame, DeleteHeadSame, TaskHeadSame,
     HeadHeadSame, BootHeadSame, ServiceHeadSame
<1> QED
  BY <1>1, <1>2

(* No step changes that. *)
LEMMA ReachedStep ==
    ASSUME Types, Reached, [Next]_vars
    PROVE  Reached'
<1>1. \A k \in Kinds : may[k] = 0 => may'[k] = 0
  BY PaidStep, CostType DEF Paid, Types, TypeOK
<1>2. ~Crash /\ ~Disappear
  BY DEF Crash, Disappear, Spend, Costs, Reached, Kinds
<1>3. head' = head
  <2>1. CASE UNCHANGED vars
    BY <2>1 DEF vars, headVars
  <2>2. CASE Next
    BY <2>2, <1>2, HeadSameStep DEF HeadSame, Reached
  <2> QED
    BY <2>1, <2>2
<1> QED
  BY <1>1, <1>3 DEF Reached, Up, Kinds

(* Node.start leaves what has ended to a delete. *)
LEMMA StarterSettled ==
    ASSUME Types, Types', Fresh, Fresh', Reached, Settled, NEW n \in Nodes, Starting(n)
    PROVE  Settled'
<1> USE UpdateType, UpdateMerges
        DEF Types, TypeOK, Task, Statuses, Agents, StarterTo, AgentTo, Up,
            recVars, nodeVars, histVars, headVars, Fresh, Settled, Deleting, Reapable
<1>1. CASE GrowNode(n)
  BY <1>1 DEF GrowNode, Start, New, Unused
<1>2. CASE InsertVm(n)
  BY <1>2 DEF InsertVm
<1>3. CASE CreateReturns(n)
  BY <1>3 DEF CreateReturns
<1>4. CASE CreateRaises(n)
  BY <1>4 DEF CreateRaises
<1>5. CASE InsertConflicts(n)
  BY <1>5 DEF InsertConflicts
<1>6. CASE StarterSeesReady(n)
  BY <1>6 DEF StarterSeesReady
<1>7. CASE StarterSeesDeleted(n)
  BY <1>7 DEF StarterSeesDeleted
<1>8. CASE StarterSeesFailure(n)
  BY <1>8, DoubtStays DEF StarterSeesFailure
<1>9. CASE StarterFails(n)
  BY <1>9 DEF StarterFails
<1> QED
  BY <1>1, <1>2, <1>3, <1>4, <1>5, <1>6, <1>7, <1>8, <1>9 DEF Starting, StarterStep

(* A delete leaves what has ended to a delete. *)
LEMMA DeleteSettled ==
    ASSUME Types, Types', Fresh, Fresh', Reached, Settled,
           NEW n \in Nodes, NEW d, Deletion(n, d)
    PROVE  Settled'
<1> USE UpdateType, UpdateMerges
        DEF Types, TypeOK, Task, Statuses, Agents, StarterTo, AgentTo, Up,
            recVars, nodeVars, histVars, headVars, Fresh, Settled, Deleting, Reapable
<1>1. CASE AskDelete(n)
  BY <1>1 DEF AskDelete
<1>2. CASE AskFail(n)
  BY <1>2 DEF AskFail
<1>3. CASE ReapStopped(n)
  BY <1>3 DEF ReapStopped, Gone
<1>4. CASE d \in dels /\ Mark(d)
  <2>1. /\ Update({d.node}, "DELETED")
        /\ UNCHANGED <<mix, may, bare, reaper, task, suspects, vm, agent, stopped, marked,
                       starter, hosted>>
    BY <1>4 DEF Mark
  <2>2. \A m \in Nodes : Deleting(m) => Deleting(m)'
    <3>1. /\ [d EXCEPT !.step = "vm"] \in dels' /\ d \in dels
          /\ [d EXCEPT !.step = "vm"].node = d.node
      BY <1>4 DEF Mark
    <3>2. \A e \in dels : e = d \/ e \in dels'
      BY <1>4 DEF Mark
    <3> QED
      BY <3>1, <3>2
  <2>3. Deleting(d.node)
    BY <1>4
  <2> HIDE DEF Deleting
  <2> QED
    BY <2>1, <2>2, <2>3
<1>5. CASE d \in dels /\ DeleteVm(d)
  BY <1>5 DEF DeleteVm, Gone
<1>6. CASE d \in dels /\ DeleteRaises(d)
  BY <1>6 DEF DeleteRaises, Spend, Costs, Reached, Kinds
<1> QED
  BY <1>1, <1>2, <1>3, <1>4, <1>5, <1>6 DEF Deletion

(* A restart or shutdown leaves what has ended to a delete. *)
LEMMA TaskSettled ==
    ASSUME Types, Types', Fresh, Fresh', Reached, Settled, NEW t \in Tasks, Sweep(t)
    PROVE  Settled'
<1> USE UpdateType, UpdateMerges
        DEF Types, TypeOK, Task, Statuses, Agents, StarterTo, AgentTo, Up,
            recVars, nodeVars, histVars, headVars, Fresh, Settled, Deleting, Reapable
<1>1. CASE BeginTask(t)
  <2>1. /\ UNCHANGED <<rec, row, hosted, starter, vm, agent, stopped, marked, mix, may>>
        /\ dels \subseteq dels'
    BY <1>1 DEF BeginTask
  <2> QED
    BY <2>1
<1>2. CASE EndDeletes(t)
  BY <1>2 DEF EndDeletes, Deleted, New, Unused
<1>3. CASE TaskEnds(t)
  BY <1>3 DEF TaskEnds
<1> QED
  BY <1>1, <1>2, <1>3 DEF Sweep, TaskStep

(* A reaper or the head leaves what has ended to a delete. *)
LEMMA HeadSettled ==
    ASSUME Types, Types', Fresh, Fresh', Reached, Settled, HeadStep
    PROVE  Settled'
<1> USE UpdateType, UpdateMerges
        DEF Types, TypeOK, Task, Statuses, Agents, StarterTo, AgentTo, Up,
            recVars, nodeVars, histVars, headVars, Fresh, Settled, Deleting, Reapable
<1>1. CASE ReaperStep
  <2>1. ASSUME NEW n \in Nodes, Suspect(n) PROVE Settled'
    BY <2>1, DoubtStays DEF Suspect
  <2>2. ASSUME NEW n \in Nodes, ReaperDies(n) PROVE Settled'
    BY <2>2, DoubtStays DEF ReaperDies
  <2>3. ASSUME NEW s \in suspects, Reap(s) PROVE Settled'
    BY <2>3 DEF Reap, Gone
  <2> QED
    BY <1>1, <2>1, <2>2, <2>3 DEF ReaperStep
<1>2. CASE Crash
  BY <1>2 DEF Crash, Spend, Costs, Reached, Kinds
<1>3. CASE Disappear
  BY <1>3 DEF Disappear, Spend, Costs, Reached, Kinds
<1>4. CASE Restart
  BY <1>4 DEF Restart
<1> QED
  BY <1>1, <1>2, <1>3, <1>4 DEF HeadStep

(* A node that boots leaves what has ended to a delete. *)
LEMMA BootSettled ==
    ASSUME Types, Types', Fresh, Fresh', Reached, Settled, NEW n \in Nodes, Boot(n)
    PROVE  Settled'
<1> USE UpdateType, UpdateMerges
        DEF Types, TypeOK, Task, Statuses, Agents, StarterTo, AgentTo, Up,
            recVars, nodeVars, histVars, headVars, Fresh, Settled, Deleting, Reapable
<1>1. CASE ScriptDone(n)
  BY <1>1 DEF ScriptDone, Certifies
<1>2. CASE ScriptFails(n)
  <2> PICK landed \in SUBSET Requests :
         Report(n, landed) /\ \E kinds : Costs(LossOf(landed) \cup kinds)
    BY <1>2 DEF ScriptFails, Requests
  <2>1. /\ Pushed(n, "FAILED")
        /\ dels' = dels \cup {[node |-> n, by |-> "self", step |-> "vmThenMark"]}
    BY ReportArrives
  <2>2. Deleting(n)' /\ \A m \in Nodes : Deleting(m) => Deleting(m)'
    <3> DEFINE own == [node |-> n, by |-> "self", step |-> "vmThenMark"]
    <3>1. \E d \in dels' : d.node = n
      <4>1. own \in dels' /\ own.node = n
        BY <2>1
      <4> HIDE DEF own
      <4> QED
        BY <4>1
    <3>2. \A m \in Nodes : (\E d \in dels : d.node = m) => \E d \in dels' : d.node = m
      BY <2>1
    <3> QED
      BY <3>1, <3>2
  <2>3. /\ UNCHANGED <<mix, starter, suspects, task, reaper, vm, marked, stopped>>
        /\ agent' = [agent EXCEPT ![n] = "dead"]
    BY <1>2 DEF ScriptFails
  <2> HIDE DEF Deleting
  <2> QED
    BY <2>1, <2>2, <2>3 DEF Pushed
<1>3. CASE FirstPush(n)
  BY <1>3 DEF FirstPush, Pushed
<1>4. CASE BeginReboot(n)
  BY <1>4 DEF BeginReboot, Pushed
<1>5. CASE BootDone(n)
  BY <1>5 DEF BootDone, Pushed
<1>6. CASE BootFails(n)
  <2> PICK landed \in SUBSET Requests :
         Report(n, landed) /\ \E kinds : Costs(LossOf(landed) \cup kinds)
    BY <1>6 DEF BootFails, Requests
  <2>1. /\ Pushed(n, "FAILED")
        /\ dels' = dels \cup {[node |-> n, by |-> "self", step |-> "vmThenMark"]}
    BY ReportArrives
  <2>2. Deleting(n)' /\ \A m \in Nodes : Deleting(m) => Deleting(m)'
    <3> DEFINE own == [node |-> n, by |-> "self", step |-> "vmThenMark"]
    <3>1. \E d \in dels' : d.node = n
      <4>1. own \in dels' /\ own.node = n
        BY <2>1
      <4> HIDE DEF own
      <4> QED
        BY <4>1
    <3>2. \A m \in Nodes : (\E d \in dels : d.node = m) => \E d \in dels' : d.node = m
      BY <2>1
    <3> QED
      BY <3>1, <3>2
  <2>3. /\ UNCHANGED <<mix, starter, suspects, task, reaper, vm, marked, stopped>>
        /\ agent' = [agent EXCEPT ![n] = IF agent[n] = "reboot" THEN "wedged" ELSE "dead"]
    BY <1>6 DEF BootFails
  <2> HIDE DEF Deleting
  <2> QED
    BY <2>1, <2>2, <2>3 DEF Pushed
<1> QED
  BY <1>1, <1>2, <1>3, <1>4, <1>5, <1>6 DEF Boot

(* A node that serves leaves what has ended to a delete. *)
LEMMA ServiceSettled ==
    ASSUME Types, Types', Fresh, Fresh', Reached, Settled, NEW n \in Nodes, Serving(n)
    PROVE  Settled'
<1> USE UpdateType, UpdateMerges
        DEF Types, TypeOK, Task, Statuses, Agents, StarterTo, AgentTo, Up,
            recVars, nodeVars, histVars, headVars, Fresh, Settled, Deleting, Reapable
<1>1. CASE Push(n)
  BY <1>1 DEF Push, Reported, Pushing, Pushed
<1>2. CASE OrphanLeaves(n)
  BY <1>2, DoubtStays DEF OrphanLeaves, Pushing
<1>3. CASE IdleOut(n)
  <2>1. Pushed(n, "DELETED")
    BY <1>3, LastArrives DEF IdleOut
  <2> QED
    BY <1>3, <2>1 DEF IdleOut, Pushed
<1>4. CASE NeverReady(n)
  <2>1. Pushed(n, "DELETED")
    BY <1>4, LastArrives DEF NeverReady
  <2> QED
    BY <1>4, <2>1 DEF NeverReady, Pushed
<1>5. CASE Leave(n)
  <2>1. dels' = dels \cup {[node |-> n, by |-> "self", step |-> "vmThenMark"]}
    BY <1>5 DEF Leave, Costs, Reached, Kinds
  <2>2. Deleting(n)' /\ \A m \in Nodes : Deleting(m) => Deleting(m)'
    <3> DEFINE own == [node |-> n, by |-> "self", step |-> "vmThenMark"]
    <3>1. \E d \in dels' : d.node = n
      <4>1. own \in dels' /\ own.node = n
        BY <2>1
      <4> HIDE DEF own
      <4> QED
        BY <4>1
    <3>2. \A m \in Nodes : (\E d \in dels : d.node = m) => \E d \in dels' : d.node = m
      BY <2>1
    <3> QED
      BY <3>1, <3>2
  <2>3. /\ UNCHANGED <<mix, rec, row, bare, hosted, starter, suspects, task, reaper, stopped>>
        /\ agent[n] = "leaving" /\ agent' = [agent EXCEPT ![n] = "none"]
        /\ marked' = Marks(n)
        /\ \A m \in Nodes \ {n} : vm'[m] = vm[m]
    BY <1>5 DEF Leave
  <2>4. vm'[n] = "off" => Reapable(n)' \/ n \in stopped
    BY <1>5 DEF Leave, Marks, PoweredOff
  <2> HIDE DEF Deleting
  <2> QED
    BY <2>2, <2>3, <2>4 DEF Marks
<1>6. CASE LeaseRunsOut(n)
  BY <1>6 DEF LeaseRunsOut, Gone
<1>7. CASE BeginJob(n)
  BY <1>7 DEF BeginJob
<1>8. CASE EndJob(n)
  BY <1>8 DEF EndJob
<1>9. CASE ServiceDies(n)
  BY <1>9 DEF ServiceDies, Pushing
<1>10. CASE Preempt(n)
  BY <1>10 DEF Preempt, Hook, Gone, Pushed
<1>11. CASE PersonStops(n)
  BY <1>11 DEF PersonStops, Hook, Marks, Pushed
<1> QED
  BY <1>1, <1>2, <1>3, <1>4, <1>5, <1>6, <1>7, <1>8, <1>9, <1>10, <1>11 DEF Serving

(* Every step leaves what has ended to a delete. *)
LEMMA SettledStep ==
    ASSUME Types, Types', Fresh, Fresh', Reached, Settled, [Next]_vars
    PROVE  Settled'
<1>1. CASE UNCHANGED vars
  BY <1>1 DEF vars, headVars, recVars, nodeVars, histVars, Settled, Deleting, Reapable
<1>2. CASE Next
  BY <1>2, NextGroups, StarterSettled, DeleteSettled, TaskSettled,
     HeadSettled, BootSettled, ServiceSettled
<1> QED
  BY <1>1, <1>2

(* The service is not killed, and what is dead reported it. *)
AllDeadGo == \A m \in Nodes : DeadGoes(m)

(* Node.start leaves what is dead to a delete. *)
LEMMA StarterDeadGo ==
    ASSUME Types, Types', Fresh, Fresh', Reached, DeadReported, NEW n \in Nodes, Starting(n)
    PROVE  AllDeadGo'
<1> USE UpdateType, UpdateMerges
        DEF Types, TypeOK, Task, Statuses, Agents, StarterTo, AgentTo, Up,
            recVars, nodeVars, histVars, headVars, Fresh,
            DeadReported, DeadGoes, AllDeadGo, Deleting
<1>1. CASE GrowNode(n)
  BY <1>1 DEF GrowNode, Start, New, Unused
<1>2. CASE InsertVm(n)
  BY <1>2 DEF InsertVm
<1>3. CASE CreateReturns(n)
  BY <1>3 DEF CreateReturns
<1>4. CASE CreateRaises(n)
  BY <1>4 DEF CreateRaises
<1>5. CASE InsertConflicts(n)
  BY <1>5 DEF InsertConflicts
<1>6. CASE StarterSeesReady(n)
  BY <1>6 DEF StarterSeesReady
<1>7. CASE StarterSeesDeleted(n)
  BY <1>7 DEF StarterSeesDeleted
<1>8. CASE StarterSeesFailure(n)
  BY <1>8 DEF StarterSeesFailure
<1>9. CASE StarterFails(n)
  BY <1>9 DEF StarterFails
<1> QED
  BY <1>1, <1>2, <1>3, <1>4, <1>5, <1>6, <1>7, <1>8, <1>9 DEF Starting, StarterStep

(* A delete leaves what is dead to a delete. *)
LEMMA DeleteDeadGo ==
    ASSUME Types, Types', Fresh, Fresh', Reached, DeadReported,
           NEW n \in Nodes, NEW d, Deletion(n, d)
    PROVE  AllDeadGo'
<1> USE UpdateType, UpdateMerges
        DEF Types, TypeOK, Task, Statuses, Agents, StarterTo, AgentTo, Up,
            recVars, nodeVars, histVars, headVars, Fresh,
            DeadReported, DeadGoes, AllDeadGo, Deleting
<1>1. CASE AskDelete(n)
  BY <1>1 DEF AskDelete
<1>2. CASE AskFail(n)
  BY <1>2 DEF AskFail
<1>3. CASE ReapStopped(n)
  BY <1>3 DEF ReapStopped, Gone
<1>4. CASE d \in dels /\ Mark(d)
  <2>1. /\ Update({d.node}, "DELETED")
        /\ UNCHANGED <<mix, may, bare, reaper, task, suspects, vm, agent, stopped, marked,
                       starter, hosted>>
    BY <1>4 DEF Mark
  <2>2. \A m \in Nodes : Deleting(m) => Deleting(m)'
    <3>1. /\ [d EXCEPT !.step = "vm"] \in dels' /\ d \in dels
          /\ [d EXCEPT !.step = "vm"].node = d.node
      BY <1>4 DEF Mark
    <3>2. \A e \in dels : e = d \/ e \in dels'
      BY <1>4 DEF Mark
    <3> QED
      BY <3>1, <3>2
  <2>3. Deleting(d.node)
    BY <1>4
  <2> HIDE DEF Deleting
  <2> QED
    BY <2>1, <2>2, <2>3
<1>5. CASE d \in dels /\ DeleteVm(d)
  BY <1>5 DEF DeleteVm, Gone
<1>6. CASE d \in dels /\ DeleteRaises(d)
  BY <1>6 DEF DeleteRaises, Spend, Costs, Reached, Kinds
<1> QED
  BY <1>1, <1>2, <1>3, <1>4, <1>5, <1>6 DEF Deletion

(* A restart or shutdown leaves what is dead to a delete. *)
LEMMA TaskDeadGo ==
    ASSUME Types, Types', Fresh, Fresh', Reached, DeadReported, NEW t \in Tasks, Sweep(t)
    PROVE  AllDeadGo'
<1> USE UpdateType, UpdateMerges
        DEF Types, TypeOK, Task, Statuses, Agents, StarterTo, AgentTo, Up,
            recVars, nodeVars, histVars, headVars, Fresh,
            DeadReported, DeadGoes, AllDeadGo, Deleting
<1>1. CASE BeginTask(t)
  <2>1. /\ UNCHANGED <<rec, row, hosted, starter, vm, agent, stopped, marked, mix, may>>
        /\ dels \subseteq dels'
    BY <1>1 DEF BeginTask
  <2> QED
    BY <2>1
<1>2. CASE EndDeletes(t)
  BY <1>2 DEF EndDeletes, Deleted, New, Unused
<1>3. CASE TaskEnds(t)
  BY <1>3 DEF TaskEnds
<1> QED
  BY <1>1, <1>2, <1>3 DEF Sweep, TaskStep

(* A reaper or the head leaves what is dead to a delete. *)
LEMMA HeadDeadGo ==
    ASSUME Types, Types', Fresh, Fresh', Reached, DeadReported, HeadStep
    PROVE  AllDeadGo'
<1> USE UpdateType, UpdateMerges
        DEF Types, TypeOK, Task, Statuses, Agents, StarterTo, AgentTo, Up,
            recVars, nodeVars, histVars, headVars, Fresh,
            DeadReported, DeadGoes, AllDeadGo, Deleting
<1>1. CASE ReaperStep
  <2>1. ASSUME NEW n \in Nodes, Suspect(n) PROVE AllDeadGo'
    BY <2>1 DEF Suspect
  <2>2. ASSUME NEW n \in Nodes, ReaperDies(n) PROVE AllDeadGo'
    BY <2>2 DEF ReaperDies
  <2>3. ASSUME NEW s \in suspects, Reap(s) PROVE AllDeadGo'
    BY <2>3 DEF Reap, Gone
  <2> QED
    BY <1>1, <2>1, <2>2, <2>3 DEF ReaperStep
<1>2. CASE Crash
  BY <1>2 DEF Crash, Spend, Costs, Reached, Kinds
<1>3. CASE Disappear
  BY <1>3 DEF Disappear, Spend, Costs, Reached, Kinds
<1>4. CASE Restart
  BY <1>4 DEF Restart
<1> QED
  BY <1>1, <1>2, <1>3, <1>4 DEF HeadStep

(* A node that boots leaves what is dead to a delete. *)
LEMMA BootDeadGo ==
    ASSUME Types, Types', Fresh, Fresh', Reached, DeadReported, NEW n \in Nodes, Boot(n)
    PROVE  AllDeadGo'
<1> USE UpdateType, UpdateMerges
        DEF Types, TypeOK, Task, Statuses, Agents, StarterTo, AgentTo, Up,
            recVars, nodeVars, histVars, headVars, Fresh,
            DeadReported, DeadGoes, AllDeadGo, Deleting
<1>1. CASE ScriptDone(n)
  BY <1>1 DEF ScriptDone, Certifies
<1>2. CASE ScriptFails(n)
  <2> PICK landed \in SUBSET Requests :
         Report(n, landed) /\ \E kinds : Costs(LossOf(landed) \cup kinds)
    BY <1>2 DEF ScriptFails, Requests
  <2>1. /\ Pushed(n, "FAILED")
        /\ dels' = dels \cup {[node |-> n, by |-> "self", step |-> "vmThenMark"]}
    BY ReportArrives
  <2>2. Deleting(n)' /\ \A m \in Nodes : Deleting(m) => Deleting(m)'
    <3> DEFINE own == [node |-> n, by |-> "self", step |-> "vmThenMark"]
    <3>1. \E d \in dels' : d.node = n
      <4>1. own \in dels' /\ own.node = n
        BY <2>1
      <4> HIDE DEF own
      <4> QED
        BY <4>1
    <3>2. \A m \in Nodes : (\E d \in dels : d.node = m) => \E d \in dels' : d.node = m
      BY <2>1
    <3> QED
      BY <3>1, <3>2
  <2>3. /\ UNCHANGED <<mix, starter, suspects, task, reaper, vm, marked, stopped>>
        /\ agent' = [agent EXCEPT ![n] = "dead"]
    BY <1>2 DEF ScriptFails
  <2> HIDE DEF Deleting
  <2> QED
    BY <2>1, <2>2, <2>3 DEF Pushed
<1>3. CASE FirstPush(n)
  BY <1>3 DEF FirstPush, Pushed
<1>4. CASE BeginReboot(n)
  BY <1>4 DEF BeginReboot, Pushed
<1>5. CASE BootDone(n)
  BY <1>5 DEF BootDone, Pushed
<1>6. CASE BootFails(n)
  <2> PICK landed \in SUBSET Requests :
         Report(n, landed) /\ \E kinds : Costs(LossOf(landed) \cup kinds)
    BY <1>6 DEF BootFails, Requests
  <2>1. /\ Pushed(n, "FAILED")
        /\ dels' = dels \cup {[node |-> n, by |-> "self", step |-> "vmThenMark"]}
    BY ReportArrives
  <2>2. Deleting(n)' /\ \A m \in Nodes : Deleting(m) => Deleting(m)'
    <3> DEFINE own == [node |-> n, by |-> "self", step |-> "vmThenMark"]
    <3>1. \E d \in dels' : d.node = n
      <4>1. own \in dels' /\ own.node = n
        BY <2>1
      <4> HIDE DEF own
      <4> QED
        BY <4>1
    <3>2. \A m \in Nodes : (\E d \in dels : d.node = m) => \E d \in dels' : d.node = m
      BY <2>1
    <3> QED
      BY <3>1, <3>2
  <2>3. /\ UNCHANGED <<mix, starter, suspects, task, reaper, vm, marked, stopped>>
        /\ agent' = [agent EXCEPT ![n] = IF agent[n] = "reboot" THEN "wedged" ELSE "dead"]
    BY <1>6 DEF BootFails
  <2> HIDE DEF Deleting
  <2> QED
    BY <2>1, <2>2, <2>3 DEF Pushed
<1> QED
  BY <1>1, <1>2, <1>3, <1>4, <1>5, <1>6 DEF Boot

(* A node that serves leaves what is dead to a delete. *)
LEMMA ServiceDeadGo ==
    ASSUME Types, Types', Fresh, Fresh', Reached, DeadReported, NEW n \in Nodes, Serving(n)
    PROVE  AllDeadGo'
<1> USE UpdateType, UpdateMerges
        DEF Types, TypeOK, Task, Statuses, Agents, StarterTo, AgentTo, Up,
            recVars, nodeVars, histVars, headVars, Fresh,
            DeadReported, DeadGoes, AllDeadGo, Deleting
<1>1. CASE Push(n)
  BY <1>1 DEF Push, Reported, Pushing, Pushed
<1>2. CASE OrphanLeaves(n)
  BY <1>2 DEF OrphanLeaves, Pushing
<1>3. CASE IdleOut(n)
  <2>1. Pushed(n, "DELETED")
    BY <1>3, LastArrives DEF IdleOut
  <2> QED
    BY <1>3, <2>1 DEF IdleOut, Pushed
<1>4. CASE NeverReady(n)
  <2>1. Pushed(n, "DELETED")
    BY <1>4, LastArrives DEF NeverReady
  <2> QED
    BY <1>4, <2>1 DEF NeverReady, Pushed
<1>5. CASE Leave(n)
  <2>1. /\ dels' = dels \cup {[node |-> n, by |-> "self", step |-> "vmThenMark"]}
        /\ agent' = [agent EXCEPT ![n] = "none"] /\ \A m \in Nodes \ {n} : vm'[m] = vm[m]
    BY <1>5 DEF Leave, Costs, Reached, Kinds
  <2>2. \A m \in Nodes : Deleting(m) => Deleting(m)'
    BY <2>1
  <2> HIDE DEF Deleting
  <2> QED
    BY <2>1, <2>2
<1>6. CASE LeaseRunsOut(n)
  BY <1>6 DEF LeaseRunsOut, Gone
<1>7. CASE BeginJob(n)
  BY <1>7 DEF BeginJob
<1>8. CASE EndJob(n)
  BY <1>8 DEF EndJob
<1>9. CASE ServiceDies(n)
  BY <1>9 DEF ServiceDies, Spend, Costs, Kinds
<1>10. CASE Preempt(n)
  BY <1>10 DEF Preempt, Hook, Gone, Pushed
<1>11. CASE PersonStops(n)
  BY <1>11 DEF PersonStops, Hook, Marks, Pushed
<1> QED
  BY <1>1, <1>2, <1>3, <1>4, <1>5, <1>6, <1>7, <1>8, <1>9, <1>10, <1>11 DEF Serving

(* Every step leaves what is dead to a delete. *)
LEMMA DeadGoStep ==
    ASSUME Types, Types', Fresh, Fresh', Reached, DeadReported, [Next]_vars
    PROVE  AllDeadGo'
<1>1. CASE UNCHANGED vars
  BY <1>1 DEF vars, headVars, recVars, nodeVars, histVars,
              DeadReported, AllDeadGo, DeadGoes, Deleting
<1>2. CASE Next
  BY <1>2, NextGroups, StarterDeadGo, DeleteDeadGo, TaskDeadGo,
     HeadDeadGo, BootDeadGo, ServiceDeadGo
<1> QED
  BY <1>1, <1>2

-----------------------------------------------------------------------------
(* The reaper minds a service that is killed. *)

(* Node.start makes no bare record. *)
LEMMA StarterWholeRecords ==
    ASSUME Types, Types', Fresh, Fresh', Reached, Settled, Watched, NEW n \in Nodes, Starting(n)
    PROVE  WholeRecords'
<1> USE UpdateType, UpdateMerges
        DEF Types, TypeOK, Task, Statuses, Agents, StarterTo, AgentTo, Up,
            recVars, nodeVars, histVars, headVars, Fresh, Watched, WholeRecords
<1>1. CASE GrowNode(n)
  BY <1>1 DEF GrowNode, Start, New, Unused
<1>2. CASE InsertVm(n)
  BY <1>2 DEF InsertVm
<1>3. CASE CreateReturns(n)
  BY <1>3 DEF CreateReturns
<1>4. CASE CreateRaises(n)
  BY <1>4 DEF CreateRaises
<1>5. CASE InsertConflicts(n)
  BY <1>5 DEF InsertConflicts
<1>6. CASE StarterSeesReady(n)
  BY <1>6 DEF StarterSeesReady
<1>7. CASE StarterSeesDeleted(n)
  BY <1>7 DEF StarterSeesDeleted
<1>8. CASE StarterSeesFailure(n)
  BY <1>8 DEF StarterSeesFailure
<1>9. CASE StarterFails(n)
  BY <1>9 DEF StarterFails
<1> QED
  BY <1>1, <1>2, <1>3, <1>4, <1>5, <1>6, <1>7, <1>8, <1>9 DEF Starting, StarterStep

(* A delete makes no bare record. *)
LEMMA DeleteWholeRecords ==
    ASSUME Types, Types', Fresh, Fresh', Reached, Settled, Watched,
           NEW n \in Nodes, NEW d, Deletion(n, d)
    PROVE  WholeRecords'
<1> USE UpdateType, UpdateMerges
        DEF Types, TypeOK, Task, Statuses, Agents, StarterTo, AgentTo, Up,
            recVars, nodeVars, histVars, headVars, Fresh, Watched, WholeRecords
<1>1. CASE AskDelete(n)
  BY <1>1 DEF AskDelete
<1>2. CASE AskFail(n)
  BY <1>2 DEF AskFail
<1>3. CASE ReapStopped(n)
  BY <1>3 DEF ReapStopped, Gone
<1>4. CASE d \in dels /\ Mark(d)
  BY <1>4 DEF Mark
<1>5. CASE d \in dels /\ DeleteVm(d)
  BY <1>5 DEF DeleteVm, Gone
<1>6. CASE d \in dels /\ DeleteRaises(d)
  BY <1>6 DEF DeleteRaises, Spend, Costs, Reached, Kinds
<1> QED
  BY <1>1, <1>2, <1>3, <1>4, <1>5, <1>6 DEF Deletion

(* A restart or shutdown makes no bare record. *)
LEMMA TaskWholeRecords ==
    ASSUME Types, Types', Fresh, Fresh', Reached, Settled, Watched, NEW t \in Tasks, Sweep(t)
    PROVE  WholeRecords'
<1> USE UpdateType, UpdateMerges
        DEF Types, TypeOK, Task, Statuses, Agents, StarterTo, AgentTo, Up,
            recVars, nodeVars, histVars, headVars, Fresh, Watched, WholeRecords
<1>1. CASE BeginTask(t)
  BY <1>1 DEF BeginTask
<1>2. CASE EndDeletes(t)
  BY <1>2 DEF EndDeletes, Deleted, New, Unused
<1>3. CASE TaskEnds(t)
  BY <1>3 DEF TaskEnds
<1> QED
  BY <1>1, <1>2, <1>3 DEF Sweep, TaskStep

(* A reaper or the head makes no bare record. *)
LEMMA HeadWholeRecords ==
    ASSUME Types, Types', Fresh, Fresh', Reached, Settled, Watched, HeadStep
    PROVE  WholeRecords'
<1> USE UpdateType, UpdateMerges
        DEF Types, TypeOK, Task, Statuses, Agents, StarterTo, AgentTo, Up,
            recVars, nodeVars, histVars, headVars, Fresh, Watched, WholeRecords
<1>1. CASE ReaperStep
  <2>1. ASSUME NEW n \in Nodes, Suspect(n) PROVE WholeRecords'
    BY <2>1 DEF Suspect
  <2>2. ASSUME NEW n \in Nodes, ReaperDies(n) PROVE WholeRecords'
    BY <2>2 DEF ReaperDies
  <2>3. ASSUME NEW s \in suspects, Reap(s) PROVE WholeRecords'
    BY <2>3 DEF Reap, Gone
  <2> QED
    BY <1>1, <2>1, <2>2, <2>3 DEF ReaperStep
<1>2. CASE Crash
  BY <1>2 DEF Crash, Spend, Costs, Reached, Kinds
<1>3. CASE Disappear
  BY <1>3 DEF Disappear, Spend, Costs, Reached, Kinds
<1>4. CASE Restart
  BY <1>4 DEF Restart
<1> QED
  BY <1>1, <1>2, <1>3, <1>4 DEF HeadStep

(* A node that boots makes no bare record. *)
LEMMA BootWholeRecords ==
    ASSUME Types, Types', Fresh, Fresh', Reached, Settled, Watched, NEW n \in Nodes, Boot(n)
    PROVE  WholeRecords'
<1> USE UpdateType, UpdateMerges
        DEF Types, TypeOK, Task, Statuses, Agents, StarterTo, AgentTo, Up,
            recVars, nodeVars, histVars, headVars, Fresh, Watched, WholeRecords
<1>1. CASE ScriptDone(n)
  BY <1>1 DEF ScriptDone, Certifies
<1>2. CASE ScriptFails(n)
  <2> PICK landed \in SUBSET Requests :
         Report(n, landed) /\ \E kinds : Costs(LossOf(landed) \cup kinds)
    BY <1>2 DEF ScriptFails, Requests
  <2>1. /\ Pushed(n, "FAILED")
        /\ dels' = dels \cup {[node |-> n, by |-> "self", step |-> "vmThenMark"]}
    BY ReportArrives
  <2> QED
    BY <1>2, <2>1 DEF ScriptFails, Pushed
<1>3. CASE FirstPush(n)
  BY <1>3 DEF FirstPush, Pushed
<1>4. CASE BeginReboot(n)
  BY <1>4 DEF BeginReboot, Pushed
<1>5. CASE BootDone(n)
  BY <1>5 DEF BootDone, Pushed
<1>6. CASE BootFails(n)
  <2> PICK landed \in SUBSET Requests :
         Report(n, landed) /\ \E kinds : Costs(LossOf(landed) \cup kinds)
    BY ZenonT(30), <1>6 DEF BootFails, Requests
  <2>1. /\ Pushed(n, "FAILED")
        /\ dels' = dels \cup {[node |-> n, by |-> "self", step |-> "vmThenMark"]}
    BY ReportArrives
  <2> QED
    BY <1>6, <2>1 DEF BootFails, Pushed
<1> QED
  BY <1>1, <1>2, <1>3, <1>4, <1>5, <1>6 DEF Boot

(* A node that serves makes no bare record. *)
LEMMA ServiceWholeRecords ==
    ASSUME Types, Types', Fresh, Fresh', Reached, Settled, Watched, NEW n \in Nodes, Serving(n)
    PROVE  WholeRecords'
<1> USE UpdateType, UpdateMerges
        DEF Types, TypeOK, Task, Statuses, Agents, StarterTo, AgentTo, Up,
            recVars, nodeVars, histVars, headVars, Fresh, Watched, WholeRecords
<1>1. CASE Push(n)
  BY <1>1 DEF Push, Reported, Pushing, Pushed
<1>2. CASE OrphanLeaves(n)
  BY <1>2 DEF OrphanLeaves, Pushing
<1>3. CASE IdleOut(n)
  <2>1. Pushed(n, "DELETED")
    BY <1>3, LastArrives DEF IdleOut
  <2> QED
    BY <1>3, <2>1 DEF IdleOut, Pushed
<1>4. CASE NeverReady(n)
  <2>1. Pushed(n, "DELETED")
    BY <1>4, LastArrives DEF NeverReady
  <2> QED
    BY <1>4, <2>1 DEF NeverReady, Pushed
<1>5. CASE Leave(n)
  BY <1>5 DEF Leave
<1>6. CASE LeaseRunsOut(n)
  BY <1>6 DEF LeaseRunsOut, Gone
<1>7. CASE BeginJob(n)
  BY <1>7 DEF BeginJob
<1>8. CASE EndJob(n)
  BY <1>8 DEF EndJob
<1>9. CASE ServiceDies(n)
  BY <1>9 DEF ServiceDies, Pushing
<1>10. CASE Preempt(n)
  <2>1. rec[n] # "absent"
    BY <1>10 DEF Preempt
  <2>2. /\ UNCHANGED <<mix, task, reaper>>
        /\ Pushed(n, "DELETED") \/ UNCHANGED recVars
    BY <1>10 DEF Preempt, Hook
  <2> QED
    BY <2>1, <2>2 DEF Pushed
<1>11. CASE PersonStops(n)
  BY <1>11 DEF PersonStops, Hook, Marks, Pushed
<1> QED
  BY <1>1, <1>2, <1>3, <1>4, <1>5, <1>6, <1>7, <1>8, <1>9, <1>10, <1>11 DEF Serving

(* Every step makes no bare record. *)
LEMMA WholeRecordsStep ==
    ASSUME Types, Types', Fresh, Fresh', Reached, Settled, Watched, [Next]_vars
    PROVE  WholeRecords'
<1>1. CASE UNCHANGED vars
  BY <1>1 DEF vars, headVars, recVars, nodeVars, histVars, Watched, WholeRecords
<1>2. CASE Next
  BY <1>2, NextGroups, StarterWholeRecords, DeleteWholeRecords, TaskWholeRecords,
     HeadWholeRecords, BootWholeRecords, ServiceWholeRecords
<1> QED
  BY <1>1, <1>2

(* Node.start suspects only what is there. *)
LEMMA StarterSuspicions ==
    ASSUME Types, Types', Fresh, Fresh', Reached, Settled, Watched, Reasons,
           NEW n \in Nodes, Starting(n)
    PROVE  TrueSuspicions'
<1> USE UpdateType, UpdateMerges
        DEF Types, TypeOK, Task, Statuses, Agents, StarterTo, AgentTo, Up,
            recVars, nodeVars, histVars, headVars, Fresh, Watched, TrueSuspicions, Absent
<1>1. CASE GrowNode(n)
  BY <1>1 DEF GrowNode, Start, New, Unused
<1>2. CASE InsertVm(n)
  BY <1>2 DEF InsertVm
<1>3. CASE CreateReturns(n)
  BY <1>3 DEF CreateReturns
<1>4. CASE CreateRaises(n)
  BY <1>4 DEF CreateRaises
<1>5. CASE InsertConflicts(n)
  BY <1>5 DEF InsertConflicts
<1>6. CASE StarterSeesReady(n)
  BY <1>6 DEF StarterSeesReady
<1>7. CASE StarterSeesDeleted(n)
  BY <1>7 DEF StarterSeesDeleted
<1>8. CASE StarterSeesFailure(n)
  BY <1>8 DEF StarterSeesFailure
<1>9. CASE StarterFails(n)
  BY <1>9 DEF StarterFails
<1> QED
  BY <1>1, <1>2, <1>3, <1>4, <1>5, <1>6, <1>7, <1>8, <1>9 DEF Starting, StarterStep

(* A delete suspects only what is there. *)
LEMMA DeleteSuspicions ==
    ASSUME Types, Types', Fresh, Fresh', Reached, Settled, Watched, Reasons,
           NEW n \in Nodes, NEW d, Deletion(n, d)
    PROVE  TrueSuspicions'
<1> USE UpdateType, UpdateMerges
        DEF Types, TypeOK, Task, Statuses, Agents, StarterTo, AgentTo, Up,
            recVars, nodeVars, histVars, headVars, Fresh, Watched, TrueSuspicions, Absent
<1>1. CASE AskDelete(n)
  BY <1>1 DEF AskDelete
<1>2. CASE AskFail(n)
  BY <1>2 DEF AskFail
<1>3. CASE ReapStopped(n)
  BY <1>3 DEF ReapStopped, Gone
<1>4. CASE d \in dels /\ Mark(d)
  BY <1>4 DEF Mark
<1>5. CASE d \in dels /\ DeleteVm(d)
  BY <1>5 DEF DeleteVm, Gone
<1>6. CASE d \in dels /\ DeleteRaises(d)
  BY <1>6 DEF DeleteRaises, Spend, Costs, Reached, Kinds
<1> QED
  BY <1>1, <1>2, <1>3, <1>4, <1>5, <1>6 DEF Deletion

(* A restart or shutdown suspects only what is there. *)
LEMMA TaskSuspicions ==
    ASSUME Types, Types', Fresh, Fresh', Reached, Settled, Watched, Reasons,
           NEW t \in Tasks, Sweep(t)
    PROVE  TrueSuspicions'
<1> USE UpdateType, UpdateMerges
        DEF Types, TypeOK, Task, Statuses, Agents, StarterTo, AgentTo, Up,
            recVars, nodeVars, histVars, headVars, Fresh, Watched, TrueSuspicions, Absent
<1>1. CASE BeginTask(t)
  BY <1>1 DEF BeginTask
<1>2. CASE EndDeletes(t)
  BY <1>2 DEF EndDeletes, Deleted, New, Unused
<1>3. CASE TaskEnds(t)
  BY <1>3 DEF TaskEnds
<1> QED
  BY <1>1, <1>2, <1>3 DEF Sweep, TaskStep

(* A reaper or the head suspects only what is there. *)
LEMMA HeadSuspicions ==
    ASSUME Types, Types', Fresh, Fresh', Reached, Settled, Watched, Reasons, HeadStep
    PROVE  TrueSuspicions'
<1> USE UpdateType, UpdateMerges
        DEF Types, TypeOK, Task, Statuses, Agents, StarterTo, AgentTo, Up,
            recVars, nodeVars, histVars, headVars, Fresh, Watched, TrueSuspicions, Absent
<1>1. CASE ReaperStep
  <2>1. ASSUME NEW n \in Nodes, Suspect(n) PROVE TrueSuspicions'
    <3>1. /\ suspects' = suspects \cup {[node |-> n, existed |-> Lives(n)]}
          /\ UNCHANGED <<vm, starter, row>>
      BY <2>1 DEF Suspect
    <3>2. row[n] # "absent" /\ starter[n] # "create"
      BY <2>1, MixesAssumption DEF Suspect, Overdue, Spend, Costs, Kinds, Reasons
    <3>3. Lives(n) \/ Absent(n)
      BY <3>2 DEF Lives
    <3>4. ASSUME NEW s \in suspects' PROVE s.existed \/ Absent(s.node)'
      <4>1. CASE s \in suspects
        BY <3>1, <4>1
      <4>2. CASE s = [node |-> n, existed |-> Lives(n)]
        BY <3>1, <3>3, <4>2
      <4> QED
        BY <3>1, <3>4, <4>1, <4>2
    <3> QED
      BY <3>4
  <2>2. ASSUME NEW n \in Nodes, ReaperDies(n) PROVE TrueSuspicions'
    BY <2>2 DEF ReaperDies
  <2>3. ASSUME NEW s \in suspects, Reap(s) PROVE TrueSuspicions'
    BY <2>3 DEF Reap, Gone
  <2> QED
    BY <1>1, <2>1, <2>2, <2>3 DEF ReaperStep
<1>2. CASE Crash
  BY <1>2 DEF Crash, Spend, Costs, Reached, Kinds
<1>3. CASE Disappear
  BY <1>3 DEF Disappear, Spend, Costs, Reached, Kinds
<1>4. CASE Restart
  BY <1>4 DEF Restart
<1> QED
  BY <1>1, <1>2, <1>3, <1>4 DEF HeadStep

(* A node that boots suspects only what is there. *)
LEMMA BootSuspicions ==
    ASSUME Types, Types', Fresh, Fresh', Reached, Settled, Watched, Reasons,
           NEW n \in Nodes, Boot(n)
    PROVE  TrueSuspicions'
<1> USE UpdateType, UpdateMerges
        DEF Types, TypeOK, Task, Statuses, Agents, StarterTo, AgentTo, Up,
            recVars, nodeVars, histVars, headVars, Fresh, Watched, TrueSuspicions, Absent
<1>1. CASE ScriptDone(n)
  BY <1>1 DEF ScriptDone, Certifies
<1>2. CASE ScriptFails(n)
  <2> PICK landed \in SUBSET Requests :
         Report(n, landed) /\ \E kinds : Costs(LossOf(landed) \cup kinds)
    BY <1>2 DEF ScriptFails, Requests
  <2>1. /\ Pushed(n, "FAILED")
        /\ dels' = dels \cup {[node |-> n, by |-> "self", step |-> "vmThenMark"]}
    BY ReportArrives
  <2> QED
    BY <1>2, <2>1 DEF ScriptFails, Pushed
<1>3. CASE FirstPush(n)
  BY <1>3 DEF FirstPush, Pushed
<1>4. CASE BeginReboot(n)
  BY <1>4 DEF BeginReboot, Pushed
<1>5. CASE BootDone(n)
  BY <1>5 DEF BootDone, Pushed
<1>6. CASE BootFails(n)
  <2> PICK landed \in SUBSET Requests :
         Report(n, landed) /\ \E kinds : Costs(LossOf(landed) \cup kinds)
    BY <1>6 DEF BootFails, Requests
  <2>1. /\ Pushed(n, "FAILED")
        /\ dels' = dels \cup {[node |-> n, by |-> "self", step |-> "vmThenMark"]}
    BY ReportArrives
  <2> QED
    BY <1>6, <2>1 DEF BootFails, Pushed
<1> QED
  BY <1>1, <1>2, <1>3, <1>4, <1>5, <1>6 DEF Boot

(* A node that serves suspects only what is there. *)
LEMMA ServiceSuspicions ==
    ASSUME Types, Types', Fresh, Fresh', Reached, Settled, Watched, Reasons,
           NEW n \in Nodes, Serving(n)
    PROVE  TrueSuspicions'
<1> USE UpdateType, UpdateMerges
        DEF Types, TypeOK, Task, Statuses, Agents, StarterTo, AgentTo, Up,
            recVars, nodeVars, histVars, headVars, Fresh, Watched, TrueSuspicions, Absent
<1>1. CASE Push(n)
  BY <1>1 DEF Push, Reported, Pushing, Pushed
<1>2. CASE OrphanLeaves(n)
  BY <1>2 DEF OrphanLeaves, Pushing
<1>3. CASE IdleOut(n)
  <2>1. Pushed(n, "DELETED")
    BY <1>3, LastArrives DEF IdleOut
  <2> QED
    BY <1>3, <2>1 DEF IdleOut, Pushed
<1>4. CASE NeverReady(n)
  <2>1. Pushed(n, "DELETED")
    BY <1>4, LastArrives DEF NeverReady
  <2> QED
    BY <1>4, <2>1 DEF NeverReady, Pushed
<1>5. CASE Leave(n)
  BY <1>5 DEF Leave, PoweredOff
<1>6. CASE LeaseRunsOut(n)
  BY <1>6 DEF LeaseRunsOut, Gone
<1>7. CASE BeginJob(n)
  BY <1>7 DEF BeginJob
<1>8. CASE EndJob(n)
  BY <1>8 DEF EndJob
<1>9. CASE ServiceDies(n)
  BY <1>9 DEF ServiceDies, Pushing
<1>10. CASE Preempt(n)
  BY SMTT(30), <1>10 DEF Preempt, Hook, Gone, Pushed
<1>11. CASE PersonStops(n)
  BY SMTT(60), <1>11 DEF PersonStops, Hook, Marks, Pushed
<1> QED
  BY <1>1, <1>2, <1>3, <1>4, <1>5, <1>6, <1>7, <1>8, <1>9, <1>10, <1>11 DEF Serving

(* Every step suspects only what is there. *)
LEMMA SuspicionsStep ==
    ASSUME Types, Types', Fresh, Fresh', Reached, Settled, Watched, Reasons, [Next]_vars
    PROVE  TrueSuspicions'
<1>1. CASE UNCHANGED vars
  BY <1>1 DEF vars, headVars, recVars, nodeVars, histVars, Watched, TrueSuspicions, Absent
<1>2. CASE Next
  BY <1>2, NextGroups, StarterSuspicions, DeleteSuspicions, TaskSuspicions,
     HeadSuspicions, BootSuspicions, ServiceSuspicions
<1> QED
  BY <1>1, <1>2

(* Node.start loses no node's record. *)
LEMMA StarterOnRecord ==
    ASSUME Types, Types', Fresh, Fresh', Reached, Settled, Settled', WholeRecords',
           Watched, Reasons,
           NEW n \in Nodes, Starting(n)
    PROVE  AllOnRecord'
<1> USE UpdateType, UpdateMerges
        DEF Types, TypeOK, Task, Statuses, Agents, StarterTo, AgentTo, Up,
            recVars, nodeVars, histVars, headVars, LiveStatuses, Fresh,
            Watched, WholeRecords, TrueSuspicions,
            Absent, AllOnRecord, OnRecord, Deleting, Settled, Closed
<1>1. CASE GrowNode(n)
  BY <1>1 DEF GrowNode, Start, New, Unused
<1>2. CASE InsertVm(n)
  BY <1>2 DEF InsertVm
<1>3. CASE CreateReturns(n)
  BY <1>3 DEF CreateReturns
<1>4. CASE CreateRaises(n)
  BY <1>4 DEF CreateRaises
<1>5. CASE InsertConflicts(n)
  BY <1>5 DEF InsertConflicts
<1>6. CASE StarterSeesReady(n)
  BY <1>6 DEF StarterSeesReady
<1>7. CASE StarterSeesDeleted(n)
  BY <1>7 DEF StarterSeesDeleted
<1>8. CASE StarterSeesFailure(n)
  BY <1>8 DEF StarterSeesFailure
<1>9. CASE StarterFails(n)
  <2> DEFINE own == [node |-> n, by |-> "starter", step |-> "vm"]
  <2>1. own \in dels' /\ own.node = n /\ dels \subseteq dels'
    BY <1>9 DEF StarterFails
  <2>2. Deleting(n)' /\ \A m \in Nodes : Deleting(m) => Deleting(m)'
    <3> HIDE DEF own
    <3>1. \E e \in dels' : e.node = n
      BY <2>1
    <3>2. \A m \in Nodes : (\E e \in dels : e.node = m) => \E e \in dels' : e.node = m
      BY <2>1
    <3> QED
      BY <3>1, <3>2
  <2>3. /\ UNCHANGED <<vm, agent, hosted>> /\ Update({n}, "FAILED")
        /\ \A m \in Nodes \ {n} : starter'[m] = starter[m]
    BY <1>9 DEF StarterFails
  <2> HIDE DEF Deleting
  <2> QED
    BY <2>2, <2>3
<1> QED
  BY <1>1, <1>2, <1>3, <1>4, <1>5, <1>6, <1>7, <1>8, <1>9 DEF Starting, StarterStep

(* A delete loses no node's record. *)
LEMMA DeleteOnRecord ==
    ASSUME Types, Types', Fresh, Fresh', Reached, Settled, Settled', WholeRecords',
           Watched, Reasons,
           NEW n \in Nodes, NEW d, Deletion(n, d)
    PROVE  AllOnRecord'
<1> USE UpdateType, UpdateMerges
        DEF Types, TypeOK, Task, Statuses, Agents, StarterTo, AgentTo, Up,
            recVars, nodeVars, histVars, headVars, LiveStatuses, Fresh,
            Watched, WholeRecords, TrueSuspicions,
            Absent, AllOnRecord, OnRecord, Deleting, Settled, Closed
<1>1. CASE AskDelete(n)
  BY <1>1 DEF AskDelete
<1>2. CASE AskFail(n)
  <2> DEFINE own == [node |-> n, by |-> "ask", step |-> "vm"]
  <2>1. own \in dels' /\ own.node = n /\ dels \subseteq dels'
    BY <1>2 DEF AskFail
  <2>2. Deleting(n)' /\ \A m \in Nodes : Deleting(m) => Deleting(m)'
    <3> HIDE DEF own
    <3>1. \E e \in dels' : e.node = n
      BY <2>1
    <3>2. \A m \in Nodes : (\E e \in dels : e.node = m) => \E e \in dels' : e.node = m
      BY <2>1
    <3> QED
      BY <3>1, <3>2
  <2>3. /\ UNCHANGED <<vm, agent, hosted>> /\ Update({n}, "FAILED")
        /\ \A m \in Nodes \ {n} : starter'[m] = starter[m]
    BY <1>2 DEF AskFail
  <2> HIDE DEF Deleting
  <2> QED
    BY <2>2, <2>3
<1>3. CASE ReapStopped(n)
  BY <1>3 DEF ReapStopped, Gone
<1>4. CASE d \in dels /\ Mark(d)
  <2>1. /\ Update({d.node}, "DELETED")
        /\ UNCHANGED <<mix, may, bare, reaper, task, suspects, vm, agent, stopped, marked,
                       starter, hosted>>
    BY <1>4 DEF Mark
  <2>2. \A m \in Nodes : Deleting(m) => Deleting(m)'
    <3>1. /\ [d EXCEPT !.step = "vm"] \in dels' /\ d \in dels
          /\ [d EXCEPT !.step = "vm"].node = d.node
      BY <1>4 DEF Mark
    <3>2. \A e \in dels : e = d \/ e \in dels'
      BY <1>4 DEF Mark
    <3> QED
      BY <3>1, <3>2
  <2>3. Deleting(d.node)
    BY <1>4
  <2> HIDE DEF Deleting
  <2> QED
    BY <2>1, <2>2, <2>3
<1>5. CASE d \in dels /\ DeleteVm(d)
  BY <1>5 DEF DeleteVm, Gone
<1>6. CASE d \in dels /\ DeleteRaises(d)
  BY <1>6 DEF DeleteRaises, Spend, Costs, Reached, Kinds
<1> QED
  BY <1>1, <1>2, <1>3, <1>4, <1>5, <1>6 DEF Deletion

(* A restart or shutdown loses no node's record. *)
LEMMA TaskOnRecord ==
    ASSUME Types, Types', Fresh, Fresh', Reached, Settled, Settled', WholeRecords',
           Watched, Reasons,
           NEW t \in Tasks, Sweep(t)
    PROVE  AllOnRecord'
<1> USE UpdateType, UpdateMerges
        DEF Types, TypeOK, Task, Statuses, Agents, StarterTo, AgentTo, Up,
            recVars, nodeVars, histVars, headVars, LiveStatuses, Fresh,
            Watched, WholeRecords, TrueSuspicions,
            Absent, AllOnRecord, OnRecord, Deleting, Settled, Closed
<1>1. CASE BeginTask(t)
  <2>1. /\ UNCHANGED <<rec, row, hosted, starter, vm, agent, stopped, marked, mix, may>>
        /\ dels \subseteq dels'
    BY <1>1 DEF BeginTask
  <2> QED
    BY <2>1
<1>2. CASE EndDeletes(t)
  BY <1>2 DEF EndDeletes, Deleted, New, Unused
<1>3. CASE TaskEnds(t)
  BY <1>3 DEF TaskEnds
<1> QED
  BY <1>1, <1>2, <1>3 DEF Sweep, TaskStep

(* A reaper or the head loses no node's record. *)
LEMMA HeadOnRecord ==
    ASSUME Types, Types', Fresh, Fresh', Reached, Settled, Settled', WholeRecords',
           Watched, Reasons,
           HeadStep
    PROVE  AllOnRecord'
<1> USE UpdateType, UpdateMerges
        DEF Types, TypeOK, Task, Statuses, Agents, StarterTo, AgentTo, Up,
            recVars, nodeVars, histVars, headVars, LiveStatuses, Fresh,
            Watched, WholeRecords, TrueSuspicions,
            Absent, AllOnRecord, OnRecord, Deleting, Settled, Closed
<1>1. CASE ReaperStep
  <2>1. ASSUME NEW n \in Nodes, Suspect(n) PROVE AllOnRecord'
    BY <2>1 DEF Suspect
  <2>2. ASSUME NEW n \in Nodes, ReaperDies(n) PROVE AllOnRecord'
    BY <2>2 DEF ReaperDies
  <2>3. ASSUME NEW s \in suspects, Reap(s) PROVE AllOnRecord'
    BY <2>3 DEF Reap, Gone
  <2> QED
    BY <1>1, <2>1, <2>2, <2>3 DEF ReaperStep
<1>2. CASE Crash
  BY <1>2 DEF Crash, Spend, Costs, Reached, Kinds
<1>3. CASE Disappear
  BY <1>3 DEF Disappear, Spend, Costs, Reached, Kinds
<1>4. CASE Restart
  BY <1>4 DEF Restart
<1> QED
  BY <1>1, <1>2, <1>3, <1>4 DEF HeadStep

(* A node that boots loses no node's record. *)
LEMMA BootOnRecord ==
    ASSUME Types, Types', Fresh, Fresh', Reached, Settled, Settled', WholeRecords',
           Watched, Reasons,
           NEW n \in Nodes, Boot(n)
    PROVE  AllOnRecord'
<1> USE UpdateType, UpdateMerges
        DEF Types, TypeOK, Task, Statuses, Agents, StarterTo, AgentTo, Up,
            recVars, nodeVars, histVars, headVars, LiveStatuses, Fresh,
            Watched, WholeRecords, TrueSuspicions,
            Absent, AllOnRecord, OnRecord, Deleting, Settled, Closed
<1>1. CASE ScriptDone(n)
  BY <1>1 DEF ScriptDone, Certifies
<1>2. CASE ScriptFails(n)
  <2> PICK landed \in SUBSET Requests :
         Report(n, landed) /\ \E kinds : Costs(LossOf(landed) \cup kinds)
    BY <1>2 DEF ScriptFails, Requests
  <2>1. /\ Pushed(n, "FAILED")
        /\ dels' = dels \cup {[node |-> n, by |-> "self", step |-> "vmThenMark"]}
    BY ReportArrives
  <2>2. Deleting(n)' /\ \A m \in Nodes : Deleting(m) => Deleting(m)'
    <3> DEFINE own == [node |-> n, by |-> "self", step |-> "vmThenMark"]
    <3>1. \E d \in dels' : d.node = n
      <4>1. own \in dels' /\ own.node = n
        BY <2>1
      <4> HIDE DEF own
      <4> QED
        BY <4>1
    <3>2. \A m \in Nodes : (\E d \in dels : d.node = m) => \E d \in dels' : d.node = m
      BY <2>1
    <3> QED
      BY <3>1, <3>2
  <2>3. /\ UNCHANGED <<mix, starter, suspects, task, reaper, vm, marked, stopped>>
        /\ agent' = [agent EXCEPT ![n] = "dead"]
    BY <1>2 DEF ScriptFails
  <2> HIDE DEF Deleting
  <2> QED
    BY <2>1, <2>2, <2>3 DEF Pushed
<1>3. CASE FirstPush(n)
  BY <1>3 DEF FirstPush, Pushed
<1>4. CASE BeginReboot(n)
  BY <1>4 DEF BeginReboot, Pushed
<1>5. CASE BootDone(n)
  BY <1>5 DEF BootDone, Pushed
<1>6. CASE BootFails(n)
  <2> PICK landed \in SUBSET Requests :
         Report(n, landed) /\ \E kinds : Costs(LossOf(landed) \cup kinds)
    <3>1. PICK landed \in {{}, {"failed"}, Requests} :
            /\ Report(n, landed)
            /\ Costs(LossOf(landed) \cup IF Up /\ agent[n] # "reboot" THEN {"boot"} ELSE {})
      <4> HIDE DEF Up
      <4> QED
        BY <1>6, Zenon DEF BootFails
    <3>2. landed \in SUBSET Requests
      BY DEF Requests
    <3> QED
      BY <3>1, <3>2
  <2>1. /\ Pushed(n, "FAILED")
        /\ dels' = dels \cup {[node |-> n, by |-> "self", step |-> "vmThenMark"]}
    BY ReportArrives
  <2>2. Deleting(n)' /\ \A m \in Nodes : Deleting(m) => Deleting(m)'
    <3> DEFINE own == [node |-> n, by |-> "self", step |-> "vmThenMark"]
    <3>1. \E d \in dels' : d.node = n
      <4>1. own \in dels' /\ own.node = n
        BY <2>1
      <4> HIDE DEF own
      <4> QED
        BY <4>1
    <3>2. \A m \in Nodes : (\E d \in dels : d.node = m) => \E d \in dels' : d.node = m
      BY <2>1
    <3> QED
      BY <3>1, <3>2
  <2>3. /\ UNCHANGED <<mix, starter, suspects, task, reaper, vm, marked, stopped>>
        /\ agent' = [agent EXCEPT ![n] = IF agent[n] = "reboot" THEN "wedged" ELSE "dead"]
    BY <1>6 DEF BootFails
  <2> HIDE DEF Deleting
  <2> QED
    BY <2>1, <2>2, <2>3 DEF Pushed
<1> QED
  BY <1>1, <1>2, <1>3, <1>4, <1>5, <1>6 DEF Boot

(* A node that serves loses no node's record. *)
LEMMA ServiceOnRecord ==
    ASSUME Types, Types', Fresh, Fresh', Reached, Settled, Settled', WholeRecords',
           Watched, Reasons,
           NEW n \in Nodes, Serving(n)
    PROVE  AllOnRecord'
<1> USE UpdateType, UpdateMerges
        DEF Types, TypeOK, Task, Statuses, Agents, StarterTo, AgentTo, Up,
            recVars, nodeVars, histVars, headVars, LiveStatuses, Fresh,
            Watched, WholeRecords, TrueSuspicions,
            Absent, AllOnRecord, OnRecord, Deleting, Settled, Closed
<1>1. CASE Push(n)
  BY <1>1 DEF Push, Reported, Pushing, Pushed
<1>2. CASE OrphanLeaves(n)
  BY <1>2 DEF OrphanLeaves, Pushing
<1>3. CASE IdleOut(n)
  <2>1. Pushed(n, "DELETED")
    BY <1>3, LastArrives DEF IdleOut
  <2> QED
    BY <1>3, <2>1 DEF IdleOut, Pushed
<1>4. CASE NeverReady(n)
  <2>1. Pushed(n, "DELETED")
    BY <1>4, LastArrives DEF NeverReady
  <2> QED
    BY <1>4, <2>1 DEF NeverReady, Pushed
<1>5. CASE Leave(n)
  <2>1. dels' = dels \cup {[node |-> n, by |-> "self", step |-> "vmThenMark"]}
    BY <1>5 DEF Leave, Costs, Reached, Kinds
  <2>2. Deleting(n)' /\ \A m \in Nodes : Deleting(m) => Deleting(m)'
    <3> DEFINE own == [node |-> n, by |-> "self", step |-> "vmThenMark"]
    <3>1. \E d \in dels' : d.node = n
      <4>1. own \in dels' /\ own.node = n
        BY <2>1
      <4> HIDE DEF own
      <4> QED
        BY <4>1
    <3>2. \A m \in Nodes : (\E d \in dels : d.node = m) => \E d \in dels' : d.node = m
      BY <2>1
    <3> QED
      BY <3>1, <3>2
  <2>3. /\ UNCHANGED <<mix, rec, row, bare, hosted, starter, suspects, task, reaper, stopped>>
        /\ agent[n] = "leaving" /\ agent' = [agent EXCEPT ![n] = "none"]
        /\ marked' = Marks(n)
        /\ \A m \in Nodes \ {n} : vm'[m] = vm[m]
    BY <1>5 DEF Leave
  <2>4. vm'[n] = "off" => Reapable(n)' \/ n \in stopped
    BY <1>5 DEF Leave, Marks, PoweredOff
  <2> HIDE DEF Deleting
  <2> QED
    BY <2>2, <2>3, <2>4 DEF Marks
<1>6. CASE LeaseRunsOut(n)
  BY <1>6 DEF LeaseRunsOut, Gone
<1>7. CASE BeginJob(n)
  BY <1>7 DEF BeginJob
<1>8. CASE EndJob(n)
  BY <1>8 DEF EndJob
<1>9. CASE ServiceDies(n)
  BY <1>9 DEF ServiceDies, Pushing
<1>10. CASE Preempt(n)
  BY <1>10 DEF Preempt, Hook, Gone, Pushed
<1>11. CASE PersonStops(n)
  BY <1>11 DEF PersonStops, Hook, Marks, Pushed
<1> QED
  BY <1>1, <1>2, <1>3, <1>4, <1>5, <1>6, <1>7, <1>8, <1>9, <1>10, <1>11 DEF Serving

(* Every step loses no node's record. *)
LEMMA OnRecordStep ==
    ASSUME Types, Types', Fresh, Fresh', Reached, Settled, Settled',
           WholeRecords', Watched, Reasons, [Next]_vars
    PROVE  AllOnRecord'
<1>1. CASE UNCHANGED vars
  BY <1>1 DEF vars, headVars, recVars, nodeVars, histVars, Watched, AllOnRecord, OnRecord, Deleting
<1>2. CASE Next
  BY <1>2, NextGroups, StarterOnRecord, DeleteOnRecord, TaskOnRecord,
     HeadOnRecord, BootOnRecord, ServiceOnRecord
<1> QED
  BY <1>1, <1>2

(* An event that cannot happen any more does not. *)
LEMMA SpentStays ==
    ASSUME Types, [Next]_vars, NEW k \in Kinds, may[k] = 0
    PROVE  may'[k] = 0
BY PaidStep, CostType DEF Paid, Types, TypeOK

(* All of it. *)
LEMMA TendedStep ==
    ASSUME IInv, IInv', Tended, [Next]_vars
    PROVE  Tended'
<1>1. Types /\ Types' /\ Fresh /\ Fresh' /\ Reasons /\ Reached /\ Settled
  BY DEF IInv, Tended
<1>2. Reached' /\ Settled'
  BY <1>1, ReachedStep, SettledStep
<1>3. CASE DeadReported
  <2>1. may'["service"] = 0
    BY <1>1, <1>3, SpentStays DEF DeadReported, Kinds
  <2>2. AllDeadGo'
    BY <1>1, <1>3, DeadGoStep
  <2> QED
    BY <1>2, <2>1, <2>2 DEF Tended, DeadReported, AllDeadGo
<1>4. CASE Watched
  <2>1. may'["slow"] = 0
    BY <1>1, <1>4, SpentStays DEF Watched, Kinds
  <2>2. WholeRecords' /\ TrueSuspicions'
    BY <1>1, <1>4, WholeRecordsStep, SuspicionsStep
  <2>3. AllOnRecord'
    BY <1>1, <1>2, <1>4, <2>2, OnRecordStep
  <2> QED
    BY <1>2, <2>1, <2>2, <2>3 DEF Tended, Watched
<1> QED
  BY <1>3, <1>4 DEF Tended

(* In the beginning there is nothing to mind. *)
LEMMA InitTended ==
    ASSUME Steady, Init
    PROVE  Tended
<1>1. mix \in Mixes /\ may = mix.may
  BY DEF Init
<1>2. Reached
  BY <1>1 DEF Init, Reached, Up, Steady
<1>3. Settled
  BY DEF Init, Settled
<1>4. may["service"] = 0 \/ (may["slow"] = 0 /\ \A t \in Tasks : mix.plan[t] = "none")
  BY <1>1 DEF Steady
<1>5. CASE may["service"] = 0
  BY <1>2, <1>3, <1>5 DEF Init, Tended, DeadReported, DeadGoes
<1>6. CASE may["slow"] = 0 /\ \A t \in Tasks : mix.plan[t] = "none"
  BY <1>2, <1>3, <1>6
     DEF Init, Tended, Watched, WholeRecords, AllOnRecord, TrueSuspicions, NoTask
<1> QED
  BY <1>4, <1>5, <1>6

(* Then every VM is minded. *)
LEMMA TendedMinds ==
    ASSUME Types, Tended
    PROVE  EveryVmMinded
<1> SUFFICES ASSUME NEW n \in Nodes, Lives(n), n \notin stopped PROVE Minded(n)
  BY DEF EveryVmMinded
<1>1. Up /\ Settled
  BY DEF Tended, Reached
<1>2. CASE vm[n] = "off"
  BY <1>1, <1>2 DEF Settled, Minded
<1>3. CASE vm[n] = "on" /\ Deleting(n)
  BY <1>3 DEF Deleting, Minded
<1>4. CASE vm[n] = "on" /\ agent[n] \in {"none", "wedged"}
  BY <1>1, <1>3, <1>4 DEF Settled
<1>5. CASE vm[n] = "on" /\ agent[n] = "dead"
  <2>1. CASE DeadReported
    BY <1>3, <1>5, <2>1 DEF DeadReported, DeadGoes
  <2>2. CASE Watched
    <3>1. OnRecord(n) /\ reaper /\ bare = {}
      BY <1>5, <2>2 DEF Watched, AllOnRecord, WholeRecords
    <3>2. CASE rec[n] \in LiveStatuses
      BY <1>1, <3>1, <3>2 DEF Minded, Known, Up
    <3>3. CASE starter[n] \in {"wait", "failing"}
      BY <3>3 DEF Minded
    <3> QED
      BY <1>3, <1>5, <3>1, <3>2, <3>3 DEF OnRecord
  <2> QED
    BY <2>1, <2>2 DEF Tended
<1>6. CASE agent[n] \in Agents \ {"none", "wedged", "dead"}
  BY <1>6 DEF Minded, Pushing, Agents
<1> QED
  BY <1>2, <1>4, <1>5, <1>6 DEF Lives, Types, TypeOK

(* In such surroundings no VM is left to bill with nobody to end it, however many
   nodes and restarts there are and however often boots, creates and nodes fail:
   Node.start's except clause, self_delete, node_reaper_loop. *)
THEOREM NobodyUnminded ==
    ASSUME Steady
    PROVE  Spec => []NothingUnminded
<1>1. Init => IInv /\ Tended
  BY InitInv, InitTended
<1>2. IInv /\ Tended /\ [Next]_vars => IInv' /\ Tended'
  BY NextInv, TendedStep
<1>3. IInv /\ Tended => TypeOK /\ EveryVmMinded
  BY TendedMinds DEF IInv, Types
<1>4. Spec => [](TypeOK /\ EveryVmMinded)
  BY <1>1, <1>2, <1>3, PTL DEF Spec
<1>5. TypeOK /\ EveryVmMinded /\ CleanSweep => NothingUnminded
  BY DEF NothingUnminded
<1> QED
  BY <1>4, <1>5, SweepsStayClean, PTL
=============================================================================
