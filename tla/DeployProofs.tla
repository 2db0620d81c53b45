----------------------------- MODULE DeployProofs -----------------------------
(***************************************************************************)
(* Proofs about Deploy: for any machines, jobs, versions, plans and number *)
(* of failures and repetitions, on the three clouds, an account has one    *)
(* head, a local head ends only after its history was moved, no deploy     *)
(* leaves one paused, and the deployed history never loses a job.  The     *)
(* hypotheses of each theorem rule out the events in which the code does   *)
(* otherwise.                                                              *)
(***************************************************************************)
EXTENDS Deploy, SequenceTheorems, TLAPS

-----------------------------------------------------------------------------
(* Types.                                                                   *)

(* The parts of a cloud are a sequence of parts. *)
LEMMA PartsSeq ==
    ASSUME NEW c \in DOMAIN Parts
    PROVE  Parts[c] \in Seq(AllParts)
<1>1. \A a, b, d : <<a>> \in Seq({a}) /\ <<a, b>> \in Seq({a, b}) /\ <<a, b, d>> \in Seq({a, b, d})
  OBVIOUS
<1>2. ASSUME NEW s, NEW t, NEW S, NEW T, s \in Seq(S), t \in Seq(T)
      PROVE  s \o t \in Seq(S \cup T)
  <2>1. s \in Seq(S \cup T) /\ t \in Seq(S \cup T)
    BY <1>2, SeqDef
  <2> QED
    BY <2>1
<1>3. \A name : \E S : AwsRole(name) \in Seq(S)
  BY <1>1 DEF AwsRole
<1>4. \E S : Parts[c] \in Seq(S)
  <2>1. CASE c = "gcp"
    <3>1. \E S : GcpServices \in Seq(S)
      BY <1>1 DEF GcpServices
    <3>2. \E S : GcpBucket \in Seq(S)
      BY <1>1 DEF GcpBucket
    <3>3. \E S : GcpAccounts \in Seq(S)
      BY <1>1 DEF GcpAccounts
    <3>4. \E S : GcpServices \o GcpBucket \in Seq(S)
      BY <3>1, <3>2, <1>2
    <3>5. \E S : GcpServices \o GcpBucket \o GcpAccounts \in Seq(S)
      BY <3>3, <3>4, <1>2
    <3> QED
      BY <2>1, <3>5 DEF Parts
  <2>2. CASE c = "aws"
    <3>1. \E S : AwsBucket \in Seq(S)
      BY <1>1 DEF AwsBucket
    <3>2. \E S : AwsRole("node") \o AwsRole("head") \in Seq(S)
      BY <1>2, <1>3
    <3>3. \E S : <<"headSsm">> \in Seq(S)
      BY <1>1
    <3>4. \E S : AwsRoles \in Seq(S)
      BY <3>2, <3>3, <1>2 DEF AwsRoles
    <3>5. \E S : AwsBucket \o AwsRoles \in Seq(S)
      BY <3>1, <3>4, <1>2
    <3>6. \E S : AwsGroup \in Seq(S)
      BY <1>1 DEF AwsGroup
    <3>7. \E S : AwsBucket \o AwsRoles \o AwsGroup \in Seq(S)
      BY <3>5, <3>6, <1>2
    <3> QED
      BY <2>2, <3>7 DEF Parts
  <2>3. CASE c = "azure"
    <3>1. \E S : AzureGroup \in Seq(S)
      BY <1>1 DEF AzureGroup
    <3>2. \E S : AzureNetwork \in Seq(S)
      BY <1>1 DEF AzureNetwork
    <3>3. \E S : AzureStorage \in Seq(S)
      BY <1>1 DEF AzureStorage
    <3>4. \E S : AzureNodeIdentity \in Seq(S)
      BY <1>1 DEF AzureNodeIdentity
    <3>5. \E S : <<"headIdentity", "roles">> \in Seq(S)
      BY <1>1
    <3>6. \E S : AzureIdentities \in Seq(S)
      BY <3>4, <3>5, <1>2 DEF AzureIdentities
    <3>7. \E S : AzureGroup \o AzureNetwork \in Seq(S)
      BY <3>1, <3>2, <1>2
    <3>8. \E S : AzureGroup \o AzureNetwork \o AzureStorage \in Seq(S)
      BY <3>3, <3>7, <1>2
    <3>9. \E S : AzureGroup \o AzureNetwork \o AzureStorage \o AzureIdentities \in Seq(S)
      BY <3>6, <3>8, <1>2
    <3> QED
      BY <2>3, <3>9 DEF Parts
  <2> QED
    BY <2>1, <2>2, <2>3 DEF Parts
<1>5. ASSUME NEW k \in DOMAIN Parts[c]
      PROVE  Parts[c][k] \in AllParts
  <2> DEFINE Own(d) == {Parts[d][i] : i \in DOMAIN Parts[d]}
  <2>1. Parts[c][k] \in Own(c)
    OBVIOUS
  <2>2. Own(c) \in {Own(d) : d \in DOMAIN Parts}
    OBVIOUS
  <2>3. AllParts = (UNION {Own(d) : d \in DOMAIN Parts}) \cup {"address"}
    BY DEF AllParts
  <2> HIDE DEF Own
  <2> QED
    BY <2>1, <2>2, <2>3
<1> QED
  BY <1>4, <1>5

(* The address is one more part. *)
LEMMA AddressPart == "address" \in AllParts
<1> DEFINE Own(d) == {Parts[d][i] : i \in DOMAIN Parts[d]}
<1>1. AllParts = (UNION {Own(d) : d \in DOMAIN Parts}) \cup {"address"}
  BY DEF AllParts
<1> HIDE DEF Own
<1> QED
  BY <1>1

(* What is left of the parts after a VNet was found. *)
LEMMA SkipTyped ==
    ASSUME NEW todo \in Seq(AllParts)
    PROVE  SkipNetwork(todo) \in Seq(AllParts)
<1>1. SubSeq(todo, 4, Len(todo)) \in Seq(AllParts)
  OBVIOUS
<1> QED
  BY <1>1 DEF SkipNetwork

LocalStates == [up : BOOLEAN, paused : BOOLEAN, running : SUBSET Jobs, db : BOOLEAN,
                history : SUBSET Jobs]

(* TypeOK, a variable at a time. *)
FleetTyped == vm \in VmStates
HistTyped == hist \subseteq Jobs /\ imported \subseteq SUBSET Jobs
LocalTyped == local \in [Machines -> LocalStates]
AtTyped == at \in [Machines -> Steps \cup {None}]
RunTyped == run \in [Machines -> RunStates]
RestTyped ==
    /\ plan \in Plans /\ made \subseteq AllParts
    /\ backend \in [token : BOOLEAN, url : BOOLEAN]
    /\ saved \in [Machines -> [token : BOOLEAN, config : BOOLEAN]]
    /\ done \subseteq Machines /\ called \subseteq Jobs
    /\ faults \in 0..plan.faults /\ again \in 0..plan.again

(* They are TypeOK together. *)
LEMMA TypeParts ==
    TypeOK <=> FleetTyped /\ HistTyped /\ LocalTyped /\ AtTyped /\ RunTyped /\ RestTyped
BY DEF TypeOK, FleetTyped, HistTyped, LocalTyped, AtTyped, RunTyped, RestTyped, LocalStates

(* What a plan is. *)
LEMMA PlanTyped ==
    ASSUME plan \in Plans
    PROVE  /\ plan.by \subseteq Machines /\ plan.versions \subseteq Versions /\ plan.faults \in Nat
           /\ plan.cloud \in DOMAIN Parts /\ plan.again \in Nat
BY DeployAssumption

(* The initial states are well typed. *)
LEMMA TypeInit == ASSUME Init PROVE TypeOK
<1>1. vm \in VmStates /\ Idle \in RunStates
  BY DEF Init, VmStates, Idle, RunStates
<1>2. plan.faults \in Nat /\ plan.again \in Nat
  BY DeployAssumption DEF Init
<1> QED
  BY <1>1, <1>2, DeployAssumption DEF Init, TypeOK

-----------------------------------------------------------------------------
(* Which actions change what. *)

HistSteps ==
    \E m \in Machines : Upload(m) \/ Create(m) \/ \E j \in Jobs : CallsDeployed(m, j)
VmSteps(m) ==
    StartVm(m) \/ Create(m) \/ StopVm(m) \/ Metadata(m) \/ UpdateAws(m) \/ UpdateAzure(m) \/ UpdateFails(m)
EndSteps(m) == Refused(m) \/ Breaks(m) \/ UpdateFails(m)
LocalSteps(m) ==
    Pause(m) \/ Finish(m) \/ EndSteps(m) \/ LocalStops(m)
      \/ \E j \in Jobs : CallsLocal(m, j) \/ JobEnds(m, j)
DeploySteps(m) == Start(m) \/ Deploys(m) \/ Breaks(m) \/ UpdateFails(m) \/ Killed(m)

(* A step of a deploy is no step of another one. *)
Elsewhere(m) == \A k \in Machines : k # m => at'[k] = at[k] /\ run'[k] = run[k]

(* A variable changes only in these. *)
LEMMA Changes ==
    ASSUME TypeOK, [Next]_vars
    PROVE  /\ plan' = plan
           /\ (hist' = hist /\ imported' = imported) \/ HistSteps
           /\ vm' = vm \/ SetupEnds \/ VmStops \/ \E m \in Machines : VmSteps(m)
           /\ local' = local \/ \E m \in Machines : LocalSteps(m)
           /\ (at' = at /\ run' = run) \/ \E m \in Machines : DeploySteps(m)
<1> USE DEF account, machine, progress, Go, Note
<1> DEFINE Fact ==
           /\ plan' = plan
           /\ (hist' = hist /\ imported' = imported) \/ HistSteps
           /\ vm' = vm \/ SetupEnds \/ VmStops \/ \E m \in Machines : VmSteps(m)
           /\ local' = local \/ \E m \in Machines : LocalSteps(m)
           /\ (at' = at /\ run' = run) \/ \E m \in Machines : DeploySteps(m)
<1>1. ASSUME NEW m \in Machines, Start(m) \/ Prepare(m) \/ Token(m) \/ Save(m) \/ Look(m) \/ Snapshot(m)
                                 \/ Describe(m) \/ Shutdown(m) \/ Register(m) \/ Wait(m) \/ Version(m)
      PROVE  Fact
  <2>1. DeploySteps(m)
    BY <1>1 DEF DeploySteps, Deploys
  <2>2. UNCHANGED <<plan, vm, hist, imported, local>>
    BY <1>1 DEF Start, Prepare, Token, Save, Look, Snapshot, Describe, Shutdown, Register, Wait, Version
  <2> QED
    BY <2>1, <2>2
<1>2. ASSUME NEW m \in Machines, Config(m) \/ Killed(m)
      PROVE  Fact
  <2>1. DeploySteps(m)
    BY <1>2 DEF DeploySteps, Deploys
  <2>2. UNCHANGED <<plan, vm, hist, imported, local>>
    BY <1>2 DEF Config, Killed
  <2> QED
    BY <2>1, <2>2
<1>3. ASSUME NEW m \in Machines, Pause(m) \/ Finish(m) \/ Refused(m) \/ Breaks(m)
      PROVE  Fact
  <2>1. DeploySteps(m) /\ LocalSteps(m)
    BY <1>3 DEF DeploySteps, Deploys, LocalSteps, EndSteps
  <2>2. UNCHANGED <<plan, vm, hist, imported>>
    BY <1>3 DEF Pause, Finish, Refused, Breaks, Unwound
  <2> QED
    BY <2>1, <2>2
<1>4. ASSUME NEW m \in Machines, StartVm(m) \/ Create(m) \/ StopVm(m) \/ Metadata(m) \/ UpdateAws(m) \/ UpdateAzure(m)
      PROVE  Fact
  <2>1. DeploySteps(m) /\ VmSteps(m)
    BY <1>4 DEF DeploySteps, Deploys, VmSteps
  <2>2. /\ UNCHANGED <<plan, local>>
        /\ UNCHANGED <<hist, imported>> \/ HistSteps
    BY <1>4 DEF StartVm, Create, StopVm, Metadata, UpdateAws, UpdateAzure, HistSteps
  <2> QED
    BY <2>1, <2>2
<1>5. ASSUME NEW m \in Machines, UpdateFails(m)
      PROVE  Fact
  <2>1. DeploySteps(m) /\ VmSteps(m) /\ LocalSteps(m)
    BY <1>5 DEF DeploySteps, VmSteps, LocalSteps, EndSteps
  <2>2. UNCHANGED <<plan, hist, imported>>
    BY <1>5 DEF UpdateFails, Unwound
  <2> QED
    BY <2>1, <2>2
<1>6. ASSUME NEW m \in Machines, Upload(m)
      PROVE  Fact
  <2>1. DeploySteps(m) /\ HistSteps
    BY <1>6 DEF DeploySteps, Deploys, HistSteps
  <2>2. UNCHANGED <<plan, vm, local>>
    BY <1>6 DEF Upload
  <2> QED
    BY <2>1, <2>2
<1>7. ASSUME NEW m \in Machines, LocalStops(m) \/ \E j \in Jobs : CallsLocal(m, j) \/ JobEnds(m, j)
      PROVE  Fact
  <2>1. LocalSteps(m)
    BY <1>7 DEF LocalSteps
  <2>2. UNCHANGED <<plan, vm, hist, imported, at, run>>
    BY <1>7 DEF LocalStops, CallsLocal, JobEnds
  <2> QED
    BY <2>1, <2>2
<1>8. ASSUME NEW m \in Machines, NEW j \in Jobs, CallsDeployed(m, j)
      PROVE  Fact
  <2>1. HistSteps
    BY <1>8 DEF HistSteps
  <2>2. UNCHANGED <<plan, vm, local, at, run>>
    BY <1>8 DEF CallsDeployed
  <2> QED
    BY <2>1, <2>2
<1>9. ASSUME SetupEnds \/ VmStops
      PROVE  Fact
  <2>1. UNCHANGED <<plan, hist, imported, local, at, run>>
    BY <1>9 DEF SetupEnds, VmStops
  <2> QED
    BY <1>9, <2>1
<1>10. ASSUME UNCHANGED vars
       PROVE  Fact
  BY <1>10 DEF vars
<1> HIDE DEF Fact
<1>11. Fact
  BY <1>1, <1>2, <1>3, <1>4, <1>5, <1>6, <1>7, <1>8, <1>9, <1>10 DEF Next, Deploys
<1> QED
  BY <1>11 DEF Fact

(* What a step makes of the local head of its machine. *)
LEMMA LocalAfter ==
    ASSUME LocalTyped, NEW m \in Machines, LocalSteps(m)
    PROVE  \E r \in LocalStates :
              /\ local' = [local EXCEPT ![m] = r]
              /\ \/ r = local[m]
                 \/ Pause(m) /\ r = [local[m] EXCEPT !.paused = TRUE]
                 \/ Finish(m) /\ r = [local[m] EXCEPT !.up = FALSE, !.paused = FALSE, !.running = {}]
                 \/ EndSteps(m) /\ r = [local[m] EXCEPT !.paused = FALSE]
                 \/ LocalStops(m) /\ r = [local[m] EXCEPT !.up = FALSE, !.paused = FALSE]
                 \/ \E j \in Jobs :
                       /\ CallsLocal(m, j)
                       /\ r = [local[m] EXCEPT !.up = TRUE, !.db = TRUE, !.running = @ \cup {j}]
                 \/ \E j \in Jobs :
                       /\ JobEnds(m, j)
                       /\ r = [local[m] EXCEPT !.running = @ \ {j}, !.history = @ \cup {j}]
<1> USE DEF LocalTyped, LocalStates
<1>1. CASE local' = local
  BY <1>1
<1>2. CASE Pause(m) /\ local' # local
  <2>1. local' = [local EXCEPT ![m] = [local[m] EXCEPT !.paused = TRUE]]
    BY <1>2 DEF Pause
  <2>2. [local[m] EXCEPT !.paused = TRUE] \in LocalStates
    OBVIOUS
  <2> HIDE DEF LocalTyped, LocalStates
  <2> QED
    BY <1>2, <2>1, <2>2
<1>3. CASE Finish(m)
  <2>1. local' = [local EXCEPT ![m] = [local[m] EXCEPT !.up = FALSE, !.paused = FALSE, !.running = {}]]
    BY <1>3 DEF Finish
  <2> QED
    BY <1>3, <2>1
<1>4. CASE EndSteps(m) /\ local' # local
  <2>1. local' = [local EXCEPT ![m] = [local[m] EXCEPT !.paused = FALSE]]
    <3>1. Unwound(m)
      BY <1>4 DEF EndSteps, Refused, Breaks, UpdateFails, machine
    <3> QED
      BY <1>4, <3>1 DEF Unwound
  <2>2. [local[m] EXCEPT !.paused = FALSE] \in LocalStates
    OBVIOUS
  <2> HIDE DEF LocalTyped, LocalStates
  <2> QED
    BY <1>4, <2>1, <2>2
<1>5. CASE LocalStops(m)
  <2>1. local' = [local EXCEPT ![m] = [local[m] EXCEPT !.up = FALSE, !.paused = FALSE]]
    BY <1>5 DEF LocalStops
  <2> QED
    BY <1>5, <2>1
<1>6. ASSUME NEW j \in Jobs, CallsLocal(m, j)
      PROVE  local' = [local EXCEPT ![m] = [local[m] EXCEPT !.up = TRUE, !.db = TRUE, !.running = @ \cup {j}]]
  BY <1>6 DEF CallsLocal
<1>7. ASSUME NEW j \in Jobs, JobEnds(m, j)
      PROVE  local' = [local EXCEPT ![m] = [local[m] EXCEPT !.running = @ \ {j}, !.history = @ \cup {j}]]
  BY <1>7 DEF JobEnds
<1>8. CASE \E j \in Jobs : CallsLocal(m, j)
  <2>1. PICK j \in Jobs : CallsLocal(m, j)
    BY <1>8
  <2>2. [local[m] EXCEPT !.up = TRUE, !.db = TRUE, !.running = @ \cup {j}] \in LocalStates
    OBVIOUS
  <2> QED
    BY <1>6, <2>1, <2>2
<1>9. CASE \E j \in Jobs : JobEnds(m, j)
  <2>1. PICK j \in Jobs : JobEnds(m, j)
    BY <1>9
  <2>2. [local[m] EXCEPT !.running = @ \ {j}, !.history = @ \cup {j}] \in LocalStates
    OBVIOUS
  <2> QED
    BY <1>7, <2>1, <2>2
<1> QED
  BY <1>1, <1>2, <1>3, <1>4, <1>5, <1>8, <1>9 DEF LocalSteps

(* The types of the local heads. *)
LEMMA LocalTypeStep ==
    ASSUME TypeOK, [Next]_vars
    PROVE  LocalTyped'
<1>1. LocalTyped
  BY TypeParts
<1>2. CASE local' = local
  BY <1>1, <1>2 DEF LocalTyped
<1>3. ASSUME NEW m \in Machines, LocalSteps(m)
      PROVE  LocalTyped'
  BY <1>1, <1>3, LocalAfter DEF LocalTyped
<1> QED
  BY <1>2, <1>3, Changes

(* The types of the two histories. *)
LEMMA HistTypeStep ==
    ASSUME TypeOK, [Next]_vars
    PROVE  HistTyped'
<1>1. HistTyped /\ RunTyped
  BY TypeParts
<1>2. ASSUME NEW m \in Machines, Upload(m)
      PROVE  HistTyped'
  <2>1. run[m].snap \subseteq SUBSET Jobs
    BY <1>1 DEF RunTyped, RunStates
  <2> QED
    BY <1>1, <1>2, <2>1 DEF HistTyped, Upload, Imports
<1>3. ASSUME NEW m \in Machines, NEW j \in Jobs, CallsDeployed(m, j)
      PROVE  HistTyped'
  BY <1>1, <1>3 DEF HistTyped, CallsDeployed
<1>5. ASSUME NEW m \in Machines, Create(m)
      PROVE  HistTyped'
  BY <1>5 DEF HistTyped, Create
<1>4. CASE hist' = hist /\ imported' = imported
  BY <1>1, <1>4 DEF HistTyped
<1> QED
  BY <1>2, <1>3, <1>4, <1>5, Changes DEF HistSteps

(* The head VM after a step. *)
LEMMA VmTypeStep ==
    ASSUME TypeOK, [Next]_vars
    PROVE  FleetTyped'
<1>1. FleetTyped /\ RunTyped
  BY TypeParts
<1> USE DEF FleetTyped, VmStates
<1>2. Booted \in VmStates /\ Torn \in VmStates /\ SetUp \in VmStates /\ [vm EXCEPT !.on = FALSE] \in VmStates
  BY <1>1 DEF Booted, Torn, SetUp
<1>3. ASSUME NEW m \in Machines, VmSteps(m)
      PROVE  FleetTyped'
  <2>1. run[m].ver \in Versions \cup {0}
    BY <1>1 DEF RunTyped, RunStates
  <2>2. CASE Create(m)
    BY <1>1, <2>1, <2>2 DEF Create
  <2>3. CASE StartVm(m) \/ StopVm(m) \/ Metadata(m) \/ UpdateAws(m)
    BY <1>1, <1>2, <2>1, <2>3 DEF StartVm, StopVm, Metadata, UpdateAws, AwsCommands
  <2>4. CASE UpdateAzure(m)
    BY <1>2, <2>1, <2>4 DEF UpdateAzure, AzureCommands
  <2>5. CASE UpdateFails(m)
    BY <1>2, <2>5 DEF UpdateFails
  <2> QED
    BY <1>3, <2>2, <2>3, <2>4, <2>5 DEF VmSteps
<1>4. CASE SetupEnds
  <2>1. [Torn EXCEPT !.script = 0] \in VmStates
    BY <1>2
  <2> QED
    BY <1>2, <1>4, <2>1 DEF SetupEnds
<1>5. CASE VmStops
  BY <1>2, <1>5 DEF VmStops
<1>6. CASE vm' = vm
  BY <1>1, <1>6
<1> QED
  BY <1>3, <1>4, <1>5, <1>6, Changes

(* The step of each deploy. *)
LEMMA AtTypeStep ==
    ASSUME TypeOK, [Next]_vars
    PROVE  AtTyped' /\ \A m \in Machines : DeploySteps(m) => Elsewhere(m)
<1>1. AtTyped /\ RunTyped
  BY TypeParts
<1> USE DEF AtTyped, RunTyped, Go, Note, Elsewhere, progress, account, machine
<1>2. ASSUME NEW m \in Machines, DeploySteps(m)
      PROVE  AtTyped' /\ Elsewhere(m)
  <2>1. CASE Start(m) \/ Prepare(m)
    BY <1>1, <2>1 DEF Start, Prepare, Steps
  <2>2. CASE Token(m) \/ Save(m) \/ Look(m) \/ Pause(m) \/ Snapshot(m)
    BY <1>1, <2>2 DEF Token, Save, Look, Pause, Snapshot, Steps
  <2>3. CASE Describe(m)
    BY <1>1, <2>3 DEF Describe, Described, Steps
  <2>4. CASE StartVm(m) \/ Shutdown(m) \/ Register(m) \/ Create(m) \/ StopVm(m) \/ Metadata(m)
    BY <1>1, <2>4 DEF StartVm, Shutdown, Register, Create, StopVm, Metadata, Steps
  <2>5. CASE UpdateAws(m) \/ UpdateAzure(m) \/ Wait(m)
    BY <1>1, <2>5 DEF UpdateAws, UpdateAzure, Wait, AfterWait, Steps
  <2>6. CASE Upload(m) \/ Finish(m) \/ Version(m)
    BY <1>1, <2>6 DEF Upload, Finish, Version, Steps
  <2>7. CASE Config(m) \/ Killed(m)
    BY <1>1, <2>7 DEF Config, Killed
  <2>8. CASE Refused(m) \/ Breaks(m) \/ UpdateFails(m)
    BY <1>1, <2>8 DEF Refused, Breaks, UpdateFails, Unwound, Steps
  <2> QED
    BY <1>2, <2>1, <2>2, <2>3, <2>4, <2>5, <2>6, <2>7, <2>8 DEF DeploySteps, Deploys
<1>3. CASE at' = at /\ run' = run
  BY <1>1, <1>3
<1> QED
  BY <1>2, <1>3, Changes

(* A part is made, or all of them are there. *)
LEMMA PrepareAfter ==
    ASSUME NEW m \in Machines, Prepare(m), RunTyped
    PROVE  \E todo \in Seq(AllParts) :
              /\ \/ UNCHANGED <<made, run>>
                 \/ /\ todo # <<>> /\ made' = made \cup {Head(todo)}
                    /\ run' = [run EXCEPT ![m] = [run[m] EXCEPT !.todo = Tail(todo)]]
              /\ UNCHANGED <<plan, backend, saved, done, called, faults, again>>
<1> DEFINE todo == SkipNetwork(run[m].todo)
<1>0. todo \in Seq(AllParts)
  BY SkipTyped DEF RunTyped, RunStates
<1>1. UNCHANGED <<plan, backend, saved, done, called, faults, again>>
  BY DEF Prepare, machine
<1>2. ASSUME todo = <<>> PROVE UNCHANGED <<made, run>>
  BY <1>2 DEF Prepare
<1>3. ASSUME todo # <<>>
      PROVE  /\ made' = made \cup {Head(todo)}
             /\ run' = [run EXCEPT ![m] = [run[m] EXCEPT !.todo = Tail(todo)]]
  BY <1>3, Zenon DEF Prepare, Note
<1> HIDE DEF todo
<1> QED
  BY <1>0, <1>1, <1>2, <1>3

(* A snapshot to remember. *)
LEMMA SnapTyped ==
    ASSUME NEW r \in RunStates, NEW S \in SUBSET SUBSET Jobs
    PROVE  [r EXCEPT !.snap = S] \in RunStates
BY DEF RunStates

(* What each deploy remembers. *)
LEMMA RunTypeStep ==
    ASSUME TypeOK, [Next]_vars
    PROVE  RunTyped'
<1>1. RunTyped /\ LocalTyped /\ RestTyped
  BY TypeParts
<1> USE DEF RunTyped, Note, progress, account, machine
<1>2. Idle \in RunStates
  BY DEF Idle, RunStates
<1>3. ASSUME NEW m \in Machines, DeploySteps(m)
      PROVE  RunTyped'
  <2>1. CASE Start(m)
    <3>1. \A v \in plan.versions : [Idle EXCEPT !.todo = Parts[cloud], !.ver = v] \in RunStates
      BY <1>1, PlanTyped, PartsSeq DEF Idle, RunStates, cloud, RestTyped
    <3> QED
      BY <1>1, <2>1, <3>1 DEF Start
  <2>2. CASE Prepare(m)
    <3>1. PICK todo \in Seq(AllParts) :
             run' = run \/ (todo # <<>> /\ run' = [run EXCEPT ![m] = [run[m] EXCEPT !.todo = Tail(todo)]])
      BY <1>1, <2>2, PrepareAfter
    <3>3. todo # <<>> => Tail(todo) \in Seq(AllParts)
      BY <3>1
    <3>4. \A t \in Seq(AllParts) : [run[m] EXCEPT !.todo = t] \in RunStates
      BY <1>1 DEF RunStates
    <3> QED
      BY <1>1, <3>1, <3>3, <3>4
  <2>3. CASE Look(m)
    <3>1. \A b \in BOOLEAN : [run[m] EXCEPT !.first = b] \in RunStates
      BY <1>1 DEF RunStates
    <3>2. \A seen : (Migrates /\ seen = None) \in BOOLEAN
      OBVIOUS
    <3> QED
      BY <1>1, <2>3, <3>1, <3>2 DEF Look
  <2>4. CASE Pause(m)
    <3>1. [run[m] EXCEPT !.held = TRUE] \in RunStates
      BY <1>1 DEF RunStates
    <3> QED
      BY <1>1, <2>4, <3>1 DEF Pause
  <2>5. CASE Snapshot(m)
    <3>1. \A S \in SUBSET SUBSET Jobs : [run[m] EXCEPT !.snap = S] \in RunStates
      BY <1>1, SnapTyped
    <3>2. (IF local[m].db THEN {local[m].history} ELSE {}) \in SUBSET SUBSET Jobs
      BY <1>1 DEF LocalTyped, LocalStates
    <3> QED
      BY <1>1, <2>5, <3>1, <3>2 DEF Snapshot
  <2>6. CASE Describe(m)
    <3>1. \A x \in {None, "running", "stopped"} : [run[m] EXCEPT !.seen = x] \in RunStates
      BY <1>1 DEF RunStates
    <3> QED
      BY <1>1, <2>6, <3>1 DEF Describe, Seen
  <2>7. CASE Token(m) \/ Save(m) \/ StartVm(m) \/ Shutdown(m) \/ Register(m) \/ Create(m) \/ StopVm(m)
             \/ Metadata(m) \/ UpdateAws(m) \/ UpdateAzure(m)
    BY <1>1, <2>7 DEF Token, Save, StartVm, Shutdown, Register, Create, StopVm, Metadata, UpdateAws, UpdateAzure
  <2>8. CASE Wait(m) \/ Upload(m) \/ Finish(m) \/ Version(m)
    BY <1>1, <2>8 DEF Wait, Upload, Finish, Version
  <2>9. CASE Config(m) \/ Killed(m) \/ Refused(m) \/ Breaks(m) \/ UpdateFails(m)
    BY <1>1, <1>2, <2>9 DEF Config, Killed, Refused, Breaks, UpdateFails, Unwound
  <2> QED
    BY <1>3, <2>1, <2>2, <2>3, <2>4, <2>5, <2>6, <2>7, <2>8, <2>9 DEF DeploySteps, Deploys
<1>4. CASE at' = at /\ run' = run
  BY <1>1, <1>4
<1> QED
  BY <1>3, <1>4, Changes

(* The parts, the registration and the counts. *)
LEMMA RestTypeStep ==
    ASSUME TypeOK, [Next]_vars
    PROVE  RestTyped'
<1>1. RestTyped /\ RunTyped /\ plan.faults \in Nat /\ plan.again \in Nat
  BY TypeParts, PlanTyped DEF RestTyped
<1> USE DEF RestTyped, account, machine, progress
<1>2. ASSUME NEW m \in Machines, Start(m) \/ Token(m) \/ Save(m) \/ Look(m) \/ Pause(m) \/ Snapshot(m)
      PROVE  RestTyped'
  <2>1. CASE Start(m)
    BY <1>1, <2>1 DEF Start
  <2>2. CASE Token(m)
    BY <1>1, <2>2 DEF Token, MayHaveToken
  <2>3. CASE Save(m)
    BY <1>1, <2>3 DEF Save
  <2>4. CASE Look(m) \/ Pause(m) \/ Snapshot(m)
    BY <1>1, <2>4 DEF Look, Looks, Pause, Snapshot
  <2> QED
    BY <1>2, <2>1, <2>2, <2>3, <2>4
<1>3. ASSUME NEW m \in Machines, Prepare(m)
      PROVE  RestTyped'
  <2>1. PICK todo \in Seq(AllParts) :
           /\ made' = made \/ (todo # <<>> /\ made' = made \cup {Head(todo)})
           /\ UNCHANGED <<plan, backend, saved, done, called, faults, again>>
    BY <1>1, <1>3, PrepareAfter
  <2>2. todo # <<>> => Head(todo) \in AllParts
    BY <2>1
  <2> QED
    BY <1>1, <2>1, <2>2
<1>4. ASSUME NEW m \in Machines, Describe(m)
      PROVE  RestTyped'
  <2>1. "address" \in AllParts
    BY AddressPart
  <2> QED
    BY <1>1, <1>4, <2>1 DEF Describe, Looks
<1>5. ASSUME NEW m \in Machines, StartVm(m) \/ Shutdown(m) \/ Register(m) \/ Create(m) \/ StopVm(m) \/ Metadata(m)
      PROVE  RestTyped'
  BY <1>1, <1>5 DEF StartVm, Shutdown, Register, Create, StopVm, Metadata
<1>6. ASSUME NEW m \in Machines, UpdateAws(m) \/ UpdateAzure(m) \/ Wait(m) \/ Upload(m) \/ Finish(m) \/ Version(m)
      PROVE  RestTyped'
  BY <1>1, <1>6 DEF UpdateAws, UpdateAzure, Wait, Upload, Finish, Version
<1>7. ASSUME NEW m \in Machines, Config(m) \/ Killed(m) \/ LocalStops(m)
      PROVE  RestTyped'
  <2>1. CASE Config(m)
    <3>1. saved' \in [Machines -> [token : BOOLEAN, config : BOOLEAN]]
      <4>1. CASE saved' = saved
        BY <1>1, <4>1
      <4>2. CASE saved' = [saved EXCEPT ![m].config = TRUE]
        BY <1>1, <4>2
      <4> QED
        BY <2>1, <4>1, <4>2 DEF Config
    <3>2. UNCHANGED <<plan, made, backend, called, faults, again>> /\ done' = done \cup {m}
      BY <2>1 DEF Config
    <3> QED
      BY <1>1, <3>1, <3>2
  <2>2. CASE Killed(m)
    BY <1>1, <2>2 DEF Killed
  <2>3. CASE LocalStops(m)
    BY <1>1, <2>3 DEF LocalStops
  <2> QED
    BY <1>7, <2>1, <2>2, <2>3
<1>8. ASSUME NEW m \in Machines, Refused(m) \/ Breaks(m) \/ UpdateFails(m)
      PROVE  RestTyped'
  BY <1>1, <1>8 DEF Refused, Breaks, UpdateFails, Unwound
<1>9. ASSUME NEW m \in Machines, NEW j \in Jobs, CallsLocal(m, j) \/ JobEnds(m, j)
      PROVE  RestTyped'
  <2>1. CASE CallsLocal(m, j)
    <3>1. /\ backend' = [backend EXCEPT !.token = TRUE] /\ saved' = [saved EXCEPT ![m].token = TRUE]
          /\ called' = called \cup {j} /\ UNCHANGED <<plan, made, done, faults, again>>
      BY <2>1 DEF CallsLocal
    <3>2. backend' \in [token : BOOLEAN, url : BOOLEAN]
      BY <1>1, <3>1
    <3>3. saved' \in [Machines -> [token : BOOLEAN, config : BOOLEAN]]
      BY <1>1, <3>1
    <3> QED
      BY <1>1, <3>1, <3>2, <3>3
  <2>2. CASE JobEnds(m, j)
    BY <1>1, <2>2 DEF JobEnds
  <2> QED
    BY <1>9, <2>1, <2>2
<1>10. ASSUME NEW m \in Machines, NEW j \in Jobs, CallsDeployed(m, j)
       PROVE  RestTyped'
  BY <1>1, <1>10 DEF CallsDeployed
<1>11. ASSUME SetupEnds \/ VmStops \/ UNCHANGED vars
       PROVE  RestTyped'
  BY <1>1, <1>11 DEF SetupEnds, VmStops, vars
<1> HIDE DEF RestTyped
<1> QED
  BY <1>2, <1>3, <1>4, <1>5, <1>6, <1>7, <1>8, <1>9, <1>10, <1>11 DEF Next, Deploys

(* Every step keeps the types. *)
LEMMA TypeStep ==
    ASSUME TypeOK, [Next]_vars
    PROVE  TypeOK'
BY TypeParts, LocalTypeStep, HistTypeStep, VmTypeStep, AtTypeStep, RunTypeStep, RestTypeStep
   DEF TypeOK, FleetTyped, HistTyped, LocalTyped, AtTyped, RunTyped, RestTyped, LocalStates

(* TypeOK: the account, the machines and what their deploys remember are well typed
   on every cloud, whatever fails and is repeated. *)
THEOREM TypeCorrect == Spec => []TypeOK
<1>1. Init => TypeOK
  BY TypeInit
<1>2. TypeOK /\ [Next]_vars => TypeOK'
  BY TypeStep
<1> QED
  BY <1>1, <1>2, PTL DEF Spec

-----------------------------------------------------------------------------
(* Whose step it is.                                                        *)

(* Only the machines of the plan deploy. *)
InPlan == \A m \in Machines : at[m] # None => m \in plan.by

(* What a step leaves alone of a machine that does not take it. *)
LEMMA Frame ==
    ASSUME TypeOK, [Next]_vars, NEW m \in Machines
    PROVE  /\ (at'[m] = at[m] /\ run'[m] = run[m]) \/ DeploySteps(m)
           /\ local'[m] = local[m] \/ LocalSteps(m)
<1>1. ASSUME NEW k \in Machines, DeploySteps(k), k # m
      PROVE  at'[m] = at[m] /\ run'[m] = run[m]
  BY <1>1, AtTypeStep DEF Elsewhere
<1>2. ASSUME NEW k \in Machines, LocalSteps(k), k # m
      PROVE  local'[m] = local[m]
  BY <1>2, TypeParts, LocalAfter DEF LocalTyped
<1> QED
  BY <1>1, <1>2, Changes

(* The steps of the machines of a plan. *)
LEMMA InPlanStep ==
    ASSUME TypeOK, InPlan, [Next]_vars
    PROVE  InPlan'
<1>1. plan' = plan
  BY Changes
<1>2. ASSUME NEW m \in Machines, DeploySteps(m)
      PROVE  m \in plan.by
  <2>1. CASE Start(m)
    BY <2>1 DEF Start
  <2>2. CASE at[m] # None
    BY <2>2 DEF InPlan
  <2>3. Start(m) \/ at[m] # None
    <3>1. CASE Breaks(m) \/ Killed(m)
      <4>1. plan.raise \subseteq Steps /\ plan.kill \subseteq Steps
        BY DeployAssumption DEF TypeOK
      <4> QED
        BY <3>1, <4>1 DEF Breaks, Killed, Steps, None
    <3>2. CASE Deploys(m) \/ UpdateFails(m)
      BY <3>2 DEF Deploys, UpdateFails, Prepare, Token, Save, Look, Pause, Snapshot, Describe, StartVm, Shutdown,
            Register, Create, StopVm, Metadata, UpdateAws, UpdateAzure, Wait, Upload, Finish, Version, Config,
            Refused, Hopeless, None
    <3> QED
      BY <1>2, <3>1, <3>2 DEF DeploySteps
  <2> QED
    BY <2>1, <2>2, <2>3
<1> QED
  BY <1>1, <1>2, Frame DEF InPlan

-----------------------------------------------------------------------------
(* One head.                                                                *)

(* AWS knows instances by their ids and creates as many as it is asked for; there
   is one head on it only when machines do not deploy at the same time and a deploy
   that asks for the head is not told, by a lookup that failed, that there is none. *)
AwsAlone == \A p \in Plans : p.cloud = "aws" => \A m, k \in p.by : m = k
AwsSees == \A p \in Plans : p.cloud = "aws" => "describe" \notin p.blind

(* A deploy that found no VM and is about to make one. *)
Founding(m) == at[m] \in {"register", "create"} /\ run[m].seen = None
Found(m) ==
    /\ at[m] \in {"start", "shutdown", "stopVm", "metadata", "startVm", "update"} => run[m].seen # None
    /\ at[m] = "create" => run[m].seen = None
    /\ run[m].seen # None => vm.n > 0

(* Without a VM nothing serves, nor has anything been recorded. *)
Empty == vm.n = 0 => ~vm.on /\ hist = {} /\ imported = {}
FoundsFirst ==
    /\ OneHead /\ Empty
    /\ \A m \in Machines : Found(m)
    /\ cloud = "aws" => \A m \in Machines : Founding(m) => vm.n = 0

(* Only Create makes a VM. *)
LEMMA OneMore ==
    ASSUME TypeOK, [Next]_vars, vm'.n # vm.n
    PROVE  \E m \in Machines : Create(m)
<1>1. FleetTyped
  BY TypeParts
<1> USE DEF FleetTyped, VmStates
<1>2. Booted.n = vm.n /\ Torn.n = vm.n /\ SetUp.n = vm.n
  BY <1>1 DEF Booted, Torn, SetUp
<1>3. ASSUME NEW m \in Machines, VmSteps(m), ~Create(m)
      PROVE  FALSE
  <2>1. CASE StartVm(m) \/ StopVm(m) \/ Metadata(m) \/ UpdateAws(m)
    BY <1>1, <1>2, <2>1 DEF StartVm, StopVm, Metadata, UpdateAws, AwsCommands
  <2>2. CASE UpdateAzure(m)
    BY <1>1, <1>2, <2>2 DEF UpdateAzure, AzureCommands, Booted
  <2>3. CASE UpdateFails(m)
    BY <1>1, <1>2, <2>3 DEF UpdateFails
  <2> QED
    BY <1>3, <2>1, <2>2, <2>3 DEF VmSteps
<1>4. ~SetupEnds
  <2>1. [Torn EXCEPT !.script = 0].n = vm.n
    BY <1>1 DEF Torn
  <2> QED
    BY <1>2, <2>1 DEF SetupEnds
<1>5. ~VmStops
  BY <1>1 DEF VmStops
<1> QED
  BY <1>3, <1>4, <1>5, Changes

(* A step takes no VM away. *)
LEMMA NeverFewer ==
    ASSUME TypeOK, [Next]_vars
    PROVE  vm.n \in Nat /\ vm'.n >= vm.n
<1>1. vm.n \in Nat
  BY DEF TypeOK, VmStates
<1>2. ASSUME NEW m \in Machines, Create(m)
      PROVE  vm'.n = vm.n + 1
  BY <1>2 DEF Create
<1> QED
  BY <1>1, <1>2, OneMore

(* A deploy founds a head when it has just seen that there is none, or goes on to. *)
LEMMA FoundingStep ==
    ASSUME TypeOK, AwsSees, [Next]_vars, NEW m \in Machines, DeploySteps(m),
           Found(m)
    PROVE  /\ Found(m)'
           /\ cloud = "aws" /\ Founding(m)' =>
                (Founding(m) /\ at[m] = "register") \/ (vm.n = 0 /\ vm' = vm)
<1>1. AtTyped /\ RunTyped /\ FleetTyped /\ plan \in Plans
  BY TypeParts DEF RestTyped
<1>0. vm.n \in Nat /\ vm'.n \in Nat /\ vm'.n >= vm.n
  BY NeverFewer, VmTypeStep DEF FleetTyped, VmStates
<1> DEFINE Special == {"register", "create", "start", "shutdown", "stopVm", "metadata", "startVm", "update"}
<1> USE DEF AtTyped, RunTyped, Go, Note, account, machine, progress, Founding, Found
<1>2. CASE Describe(m)
  <2>1. PICK seen \in {Seen, None} :
           Looks("describe", seen) /\ Note(m, [run[m] EXCEPT !.seen = seen]) /\ Go(m, Described(seen))
    BY <1>2 DEF Describe
  <2>2. run'[m].seen = seen /\ at'[m] = Described(seen) /\ vm' = vm
    BY <1>1, <1>2, <2>1 DEF Describe, RunStates
  <2>3. (Seen = None => vm.n = 0) /\ (Seen # None => vm.n > 0)
    BY <1>0 DEF Seen, None
  <2>4. cloud = "aws" => seen = Seen
    BY <1>1, <2>1 DEF Looks, AwsSees, cloud
  <2>5. at'[m] \in {"register", "start", "shutdown"} /\ (at'[m] # "register" => seen # None)
    BY <2>2 DEF Described, None
  <2>6. seen # None => vm.n > 0
    BY <2>1, <2>3
  <2> QED
    BY <2>2, <2>3, <2>4, <2>5, <2>6
<1>3. CASE Register(m)
  <2>1. at[m] = "register" /\ run'[m] = run[m] /\ (at'[m] = "create" => run[m].seen = None)
        /\ (at'[m] # "create" => at'[m] \in {"stopVm", "update"} /\ run[m].seen # None)
    BY <1>1, <1>3 DEF Register
  <2> QED
    BY <1>0, <2>1
<1>4. CASE Shutdown(m)
  <2>1. at[m] = "shutdown" /\ at'[m] = "register" /\ run'[m] = run[m]
    BY <1>1, <1>4 DEF Shutdown
  <2> QED
    BY <1>0, <2>1
<1>5. CASE Start(m) \/ Prepare(m) \/ Token(m) \/ Save(m) \/ Look(m) \/ Pause(m) \/ Snapshot(m)
  <2>1. at'[m] \notin Special
    BY <1>1, <1>5 DEF Start, Prepare, Token, Save, Look, Pause, Snapshot
  <2>2. run'[m].seen \in {None, run[m].seen}
    <3>1. CASE Start(m)
      BY <1>1, <3>1 DEF Start, Idle, RunStates
    <3>2. CASE Prepare(m)
      <4>1. PICK todo : run' = run \/ run' = [run EXCEPT ![m] = [run[m] EXCEPT !.todo = Tail(todo)]]
        BY <1>1, <3>2, PrepareAfter
      <4> QED
        BY <1>1, <4>1 DEF RunStates
    <3>3. CASE Token(m) \/ Save(m) \/ Look(m) \/ Pause(m) \/ Snapshot(m)
      BY <1>1, <3>3 DEF Token, Save, Look, Pause, Snapshot, RunStates
    <3> QED
      BY <1>5, <3>1, <3>2, <3>3
  <2> QED
    BY <1>0, <2>1, <2>2
<1>6. CASE StartVm(m) \/ Create(m) \/ StopVm(m) \/ Metadata(m) \/ UpdateAws(m) \/ UpdateAzure(m)
  <2>1. /\ run'[m] = run[m] /\ at'[m] \in {"shutdown", "wait", "metadata", "startVm"}
        /\ at'[m] # "wait" => at[m] \in {"start", "stopVm", "metadata"}
    BY <1>1, <1>6 DEF StartVm, Create, StopVm, Metadata, UpdateAws, UpdateAzure
  <2> QED
    BY <1>0, <2>1
<1>7. CASE Wait(m) \/ Upload(m) \/ Finish(m) \/ Version(m) \/ Config(m) \/ Killed(m)
  <2>1. at'[m] \notin Special /\ run'[m].seen \in {None, run[m].seen}
    BY <1>1, <1>7 DEF Wait, AfterWait, Upload, Finish, Version, Config, Killed, Idle, None
  <2> QED
    BY <1>0, <2>1
<1>8. CASE Refused(m) \/ Breaks(m) \/ UpdateFails(m)
  <2>1. at'[m] \notin Special /\ run'[m].seen \in {None, run[m].seen}
    BY <1>1, <1>8 DEF Refused, Breaks, UpdateFails, Unwound, Idle, None
  <2> QED
    BY <1>0, <2>1
<1> QED
  BY <1>2, <1>3, <1>4, <1>5, <1>6, <1>7, <1>8 DEF DeploySteps, Deploys

(* The VM is made when there is none. *)
LEMMA MadeFirst ==
    ASSUME TypeOK, FoundsFirst, NEW m \in Machines, Create(m)
    PROVE  vm.n = 0 /\ vm'.n = 1
<1>1. at[m] = "create" /\ Creatable /\ vm'.n = vm.n + 1 /\ plan \in Plans
  BY DEF Create, TypeOK
<1>2. CASE cloud = "aws"
  BY <1>1, <1>2 DEF FoundsFirst, Founding, Found
<1>3. CASE cloud # "aws"
  <2>1. cloud \in {"gcp", "azure"}
    BY <1>1, <1>3, PlanTyped DEF cloud, Parts
  <2>2. vm.n = 0
    <3>1. CASE cloud = "gcp"
      BY <1>1, <3>1 DEF Creatable, GcpCreates
    <3>2. CASE cloud = "azure"
      BY <1>1, <3>2 DEF Creatable, AzureCreates
    <3> QED
      BY <2>1, <3>1, <3>2
  <2> QED
    BY <1>1, <2>2
<1> QED
  BY <1>2, <1>3

(* As long as there is no VM nothing is recorded. *)
LEMMA EmptyStep ==
    ASSUME TypeOK, FoundsFirst, [Next]_vars
    PROVE  Empty'
<1> SUFFICES ASSUME vm'.n = 0
             PROVE  ~vm'.on /\ hist' = {} /\ imported' = {}
  BY DEF Empty
<1>1. vm.n = 0
  BY NeverFewer, VmTypeStep DEF FleetTyped, VmStates
<1>2. ~vm.on /\ hist = {} /\ imported = {}
  BY <1>1 DEF FoundsFirst, Empty
<1>3. \A m \in Machines : ~Create(m)
  BY MadeFirst
<1>4. \A m \in Machines : ~Upload(m) /\ \A j \in Jobs : CallsDeployed(m, j) => hist' = hist /\ imported' = imported
  BY <1>2 DEF Upload, CallsDeployed, Serves
<1>5. hist' = {} /\ imported' = {}
  BY <1>2, <1>3, <1>4, Changes DEF HistSteps
<1>6. ~vm'.on
  <2>1. ~SetupEnds /\ ~VmStops
    BY <1>2 DEF SetupEnds, VmStops
  <2>2. ASSUME NEW m \in Machines, VmSteps(m)
        PROVE  ~vm'.on
    <3>1. at[m] \in {"start", "startVm", "stopVm", "metadata", "update"}
      BY <1>3, <2>2 DEF VmSteps, StartVm, StopVm, Metadata, UpdateAws, UpdateAzure, UpdateFails
    <3> QED
      BY <1>1, <3>1 DEF FoundsFirst, Found
  <2> QED
    BY <1>2, <2>1, <2>2, Changes
<1> QED
  BY <1>5, <1>6

(* The one head there is, or the first that will be. *)
LEMMA OneHeadStep ==
    ASSUME TypeOK, InPlan, AwsAlone, AwsSees, FoundsFirst, [Next]_vars
    PROVE  FoundsFirst'
<1>1. vm.n \in Nat /\ plan' = plan /\ plan \in Plans
  BY Changes DEF TypeOK, VmStates
<1>2. ASSUME NEW m \in Machines
      PROVE  Found(m)'
  <2>1. CASE DeploySteps(m)
    BY <2>1, FoundingStep DEF FoundsFirst
  <2>2. CASE at'[m] = at[m] /\ run'[m] = run[m]
    <3>1. vm.n > 0 => vm'.n > 0
      BY NeverFewer, VmTypeStep DEF FleetTyped, VmStates
    <3> QED
      BY <2>2, <3>1 DEF FoundsFirst, Found
  <2> QED
    BY <2>1, <2>2, Frame
<1>3. OneHead'
  <2>1. CASE vm'.n = vm.n
    BY <2>1 DEF FoundsFirst, OneHead
  <2>2. CASE vm'.n # vm.n
    BY <2>2, MadeFirst, OneMore DEF OneHead
  <2> QED
    BY <2>1, <2>2
<1>4. ASSUME cloud = "aws", NEW m \in Machines, Founding(m)'
      PROVE  vm'.n = 0
  <2>1. Founding(m) \/ (vm.n = 0 /\ vm' = vm)
    <3>1. CASE DeploySteps(m)
      BY <1>4, <3>1, FoundingStep DEF FoundsFirst
    <3>2. CASE at'[m] = at[m] /\ run'[m] = run[m]
      BY <1>4, <3>2 DEF Founding
    <3> QED
      BY <3>1, <3>2, Frame
  <2>2. vm.n = 0
    BY <1>4, <2>1 DEF FoundsFirst
  <2>3. vm'.n = vm.n
    <3> SUFFICES ASSUME NEW k \in Machines, Create(k)
                 PROVE  FALSE
      BY OneMore
    <3>1. at[k] = "create" /\ Go(k, "wait")
      BY DEF Create
    <3>2. CASE k = m
      BY <1>4, <3>1, <3>2, TypeParts DEF Go, AtTyped, Founding
    <3>3. CASE k # m
      <4>1. at'[m] = at[m]
        BY <3>1, <3>3, TypeParts DEF Go, AtTyped
      <4>2. at[m] # None /\ at[k] # None
        BY <1>4, <3>1, <4>1 DEF Founding, None
      <4> QED
        BY <1>1, <1>4, <3>3, <4>2 DEF AwsAlone, InPlan, cloud
    <3> QED
      BY <3>2, <3>3
  <2> QED
    BY <2>2, <2>3
<1> QED
  BY <1>1, <1>2, <1>3, <1>4, EmptyStep DEF FoundsFirst, cloud

(* At first there is nothing. *)
LEMMA FoundsInit == ASSUME Init PROVE InPlan /\ FoundsFirst
BY DEF Init, InPlan, FoundsFirst, OneHead, Empty, Found, Founding, Idle, None

(* OneHead: however many machines deploy, fail and deploy again, the account has one
   head VM at most: deploy_gcp and deploy_azure give it a name that can be taken once,
   deploy_aws looks for one first. *)
THEOREM OneHeadOnly ==
    ASSUME AwsAlone, AwsSees
    PROVE  Spec => []OneHead
<1>1. Init => InPlan /\ FoundsFirst
  BY FoundsInit
<1>2. TypeOK /\ InPlan /\ FoundsFirst /\ [Next]_vars => InPlan' /\ FoundsFirst'
  BY InPlanStep, OneHeadStep
<1>3. FoundsFirst => OneHead
  BY DEF FoundsFirst
<1> QED
  BY <1>1, <1>2, <1>3, TypeCorrect, PTL DEF Spec

-----------------------------------------------------------------------------
(* What the deployed head records stays.                                    *)

(* A step takes nothing out of either set. *)
LEMMA HistoryGrows ==
    ASSUME TypeOK, FoundsFirst, [Next]_vars
    PROVE  hist \subseteq hist' /\ imported \subseteq imported'
<1>1. ASSUME NEW m \in Machines, Upload(m)
      PROVE  hist \subseteq hist' /\ imported \subseteq imported'
  BY <1>1 DEF Upload, Imports
<1>2. ASSUME NEW m \in Machines, NEW j \in Jobs, CallsDeployed(m, j)
      PROVE  hist \subseteq hist' /\ imported \subseteq imported'
  BY <1>2 DEF CallsDeployed
<1>3. ASSUME NEW m \in Machines, Create(m)
      PROVE  hist = {} /\ imported = {}
  BY <1>3, MadeFirst DEF FoundsFirst, Empty
<1> QED
  BY <1>1, <1>2, <1>3, Changes DEF HistSteps

(* DeployedHistoryKept: whoever deploys over it, uploads a snapshot or repeats an
   upload, the deployed head's database loses no job (import_history). *)
THEOREM DeployedHistoryStays ==
    ASSUME AwsAlone, AwsSees
    PROVE  Spec => DeployedHistoryKept
<1>1. Init => InPlan /\ FoundsFirst
  BY FoundsInit
<1>2. TypeOK /\ InPlan /\ FoundsFirst /\ [Next]_vars => InPlan' /\ FoundsFirst'
  BY InPlanStep, OneHeadStep
<1>3. TypeOK /\ FoundsFirst /\ [Next]_vars => [hist \subseteq hist']_vars
  BY HistoryGrows
<1> QED
  BY <1>1, <1>2, <1>3, TypeCorrect, PTL DEF Spec, DeployedHistoryKept

-----------------------------------------------------------------------------
(* The inductive invariant.                                                 *)

(* What the deployed head imported it has recorded. *)
CopiesKept == \A snap \in imported : snap \subseteq hist

(* A local head that is down or paused runs no job; without a database it has
   had none. *)
LocalInStep(m) ==
    /\ ~local[m].up => local[m].running = {} /\ ~local[m].paused
    /\ local[m].paused => local[m].running = {}
    /\ ~local[m].db => local[m].running = {} /\ local[m].history = {}

(* The snapshot of the local head as it is. *)
Now(m) == IF local[m].db THEN {local[m].history} ELSE {}

(* From the pause to its end, a deploy that moves the history finds the local head
   still, and its snapshot true. *)
Still(m) == local[m].running = {} /\ (local[m].up => local[m].paused)
Migration(m) ==
    /\ at[m] \in {"pause", "snapshot", "upload", "finish"} => run[m].first
    /\ run[m].first /\ at[m] \in {"snapshot"} \cup Guarded => Still(m)
    /\ run[m].first /\ at[m] \in Guarded => run[m].snap = Now(m)
    /\ at[m] = "finish" => run[m].snap \subseteq imported

IInv ==
    /\ TypeOK /\ InPlan /\ FoundsFirst /\ CopiesKept
    /\ \A m \in Machines : LocalInStep(m) /\ Migration(m)

(* Nothing has happened at first. *)
LEMMA InvInit == ASSUME Init PROVE IInv
BY TypeInit, FoundsInit DEF Init, IInv, CopiesKept, LocalInStep, Migration, Guarded, None

(* An upload records what it imports. *)
LEMMA CopiesStep ==
    ASSUME TypeOK, FoundsFirst, CopiesKept, [Next]_vars
    PROVE  CopiesKept'
<1>1. ASSUME NEW m \in Machines, Upload(m)
      PROVE  CopiesKept'
  BY <1>1 DEF CopiesKept, Upload, Imports
<1>2. ASSUME NEW m \in Machines, NEW j \in Jobs, CallsDeployed(m, j)
      PROVE  CopiesKept'
  BY <1>2 DEF CopiesKept, CallsDeployed
<1>3. ASSUME NEW m \in Machines, Create(m)
      PROVE  CopiesKept'
  BY <1>3 DEF CopiesKept, Create
<1> QED
  BY <1>1, <1>2, <1>3, Changes DEF HistSteps, CopiesKept

(* The local head is asked to pause only when it runs nothing, and takes no job
   while it is paused. *)
LEMMA LocalStep ==
    ASSUME TypeOK, [Next]_vars, NEW m \in Machines, LocalInStep(m)
    PROVE  LocalInStep(m)'
<1>1. LocalTyped
  BY TypeParts
<1>2. CASE local'[m] = local[m]
  BY <1>2 DEF LocalInStep
<1>3. CASE LocalSteps(m)
  <2>1. PICK r \in LocalStates :
              /\ local' = [local EXCEPT ![m] = r]
              /\ \/ r = local[m]
                 \/ Pause(m) /\ r = [local[m] EXCEPT !.paused = TRUE]
                 \/ Finish(m) /\ r = [local[m] EXCEPT !.up = FALSE, !.paused = FALSE, !.running = {}]
                 \/ EndSteps(m) /\ r = [local[m] EXCEPT !.paused = FALSE]
                 \/ LocalStops(m) /\ r = [local[m] EXCEPT !.up = FALSE, !.paused = FALSE]
                 \/ \E j \in Jobs :
                       /\ CallsLocal(m, j)
                       /\ r = [local[m] EXCEPT !.up = TRUE, !.db = TRUE, !.running = @ \cup {j}]
                 \/ \E j \in Jobs :
                       /\ JobEnds(m, j)
                       /\ r = [local[m] EXCEPT !.running = @ \ {j}, !.history = @ \cup {j}]
    BY <1>1, <1>3, LocalAfter
  <2>2. local[m] \in LocalStates /\ local'[m] = r
    BY <1>1, <2>1 DEF LocalTyped
  <2> USE DEF LocalInStep, LocalStates
  <2>3. CASE r = local[m]
    BY <2>2, <2>3
  <2>4. CASE Pause(m) /\ r = [local[m] EXCEPT !.paused = TRUE]
    <3>1. (local[m].up /\ MayPause(m)) \/ local' = local
      BY <2>4 DEF Pause
    <3> QED
      BY <2>2, <2>4, <3>1 DEF MayPause
  <2>5. CASE Finish(m) /\ r = [local[m] EXCEPT !.up = FALSE, !.paused = FALSE, !.running = {}]
    BY <2>2, <2>5
  <2>6. CASE EndSteps(m) /\ r = [local[m] EXCEPT !.paused = FALSE]
    BY <2>2, <2>6
  <2>7. CASE LocalStops(m) /\ r = [local[m] EXCEPT !.up = FALSE, !.paused = FALSE]
    BY <2>2, <2>7 DEF LocalStops
  <2>8. ASSUME NEW j \in Jobs, CallsLocal(m, j),
               r = [local[m] EXCEPT !.up = TRUE, !.db = TRUE, !.running = @ \cup {j}]
        PROVE  LocalInStep(m)'
    <3>1. ~local[m].paused
      BY <2>8 DEF CallsLocal
    <3> QED
      BY <2>2, <2>8, <3>1
  <2>9. ASSUME NEW j \in Jobs, JobEnds(m, j),
               r = [local[m] EXCEPT !.running = @ \ {j}, !.history = @ \cup {j}]
        PROVE  LocalInStep(m)'
    <3>1. j \in local[m].running
      BY <2>9 DEF JobEnds
    <3> QED
      BY <2>2, <2>9, <3>1
  <2> QED
    BY <2>1, <2>3, <2>4, <2>5, <2>6, <2>7, <2>8, <2>9
<1> QED
  BY <1>2, <1>3, Frame

(* A deploy that breaks off forgets everything. *)
LEMMA Forgotten ==
    ASSUME TypeOK, NEW m \in Machines, at'[m] = None, run'[m] = Idle
    PROVE  Migration(m)'
BY DEF Migration, Idle, Guarded, None

(* A step within the guarded part of a deploy that leaves the local head alone and
   remembers what it did. *)
LEMMA Onward ==
    ASSUME NEW m \in Machines, Migration(m), at[m] \in Guarded,
           at'[m] \in Guarded, run'[m] = run[m], local'[m] = local[m], imported \subseteq imported',
           at'[m] = "upload" => run[m].first,
           at'[m] = "finish" => run[m].first /\ run[m].snap \subseteq imported'
    PROVE  Migration(m)'
BY DEF Migration, Still, Now, Guarded

(* While a deploy moves a history, only its own steps change the local head: it
   is paused, or down and stays so as no call may start it. *)
LEMMA MigrationLocal ==
    ASSUME TypeOK, FoundsFirst, [Next]_vars, ~CallsMeet, NEW m \in Machines, LocalInStep(m), Migration(m),
           at'[m] = at[m], run'[m] = run[m]
    PROVE  Migration(m)'
<1>1. LocalTyped /\ imported \subseteq imported'
  BY TypeParts, HistoryGrows
<1>2. CASE local'[m] = local[m]
  BY <1>1, <1>2 DEF Migration, Still, Now, Guarded
<1>3. CASE ~(run[m].first /\ at[m] \in {"snapshot"} \cup Guarded)
  BY <1>1, <1>3 DEF Migration, Guarded
<1>4. CASE /\ run[m].first /\ at[m] \in {"snapshot"} \cup Guarded
           /\ local'[m] # local[m]
  <2>1. Still(m) /\ at[m] # None
    BY <1>4 DEF Migration, Guarded, None
  <2>2. LocalSteps(m)
    BY <1>4, Frame
  <2>3. CASE LocalStops(m)
    <3>1. /\ local'[m].up = FALSE /\ local'[m].running = local[m].running
          /\ local'[m].db = local[m].db /\ local'[m].history = local[m].history
      BY <1>1, <2>3 DEF LocalStops, LocalTyped, LocalStates
    <3> QED
      BY <1>1, <2>1, <3>1 DEF Migration, Still, Now
  <2>4. ASSUME NEW j \in Jobs, CallsLocal(m, j)
        PROVE  FALSE
    BY <2>1, <2>4 DEF CallsLocal, Still
  <2>5. ASSUME NEW j \in Jobs, JobEnds(m, j)
        PROVE  FALSE
    BY <2>1, <2>5 DEF JobEnds, Still
  <2>6. CASE Pause(m) \/ Finish(m)
    BY <2>1, <2>6, TypeParts DEF Pause, Finish, Go, AtTyped
  <2>7. CASE EndSteps(m)
    <3>1. ~Unwound(m)
      BY <2>1, TypeParts DEF Unwound, Go, AtTyped
    <3> QED
      BY <2>7, <3>1, <1>4 DEF EndSteps, Refused, Breaks, UpdateFails, machine
  <2> QED
    BY <2>2, <2>3, <2>4, <2>5, <2>6, <2>7 DEF LocalSteps
<1> QED
  BY <1>2, <1>3, <1>4

(* The steps of the deploy itself. *)
LEMMA MigrationDeploys ==
    ASSUME TypeOK, FoundsFirst, [Next]_vars, NEW m \in Machines, LocalInStep(m), Migration(m), CopiesKept,
           DeploySteps(m)
    PROVE  Migration(m)'
<1>1. AtTyped /\ RunTyped /\ LocalTyped /\ imported \subseteq imported'
  BY TypeParts, HistoryGrows
<1> USE DEF AtTyped, RunTyped, Go, Note, account, machine, progress
<1>2. CASE Start(m) \/ Prepare(m) \/ Token(m) \/ Save(m)
  <2>1. at'[m] \in {"prepare", "token", "save", "look"}
    BY <1>1, <1>2 DEF Start, Prepare, Token, Save
  <2> QED
    BY <2>1 DEF Migration, Guarded
<1>3. CASE Look(m)
  <2>1. at'[m] = IF run'[m].first THEN "pause" ELSE "describe"
    BY <1>1, <1>3 DEF Look, RunStates
  <2> QED
    BY <2>1 DEF Migration, Guarded
<1>4. CASE Pause(m)
  <2>1. at[m] = "pause" /\ at'[m] = "snapshot" /\ run'[m].first = run[m].first
    BY <1>1, <1>4 DEF Pause, RunStates
  <2>2. local'[m].running = {} /\ (local'[m].up => local'[m].paused)
    <3>1. CASE local[m].up
      BY <1>1, <1>4, <3>1 DEF Pause, MayPause, LocalTyped, LocalStates
    <3>2. CASE ~local[m].up
      BY <1>4, <3>2 DEF Pause, LocalInStep
    <3> QED
      BY <3>1, <3>2
  <2> QED
    BY <2>1, <2>2 DEF Migration, Still, Guarded
<1>5. CASE Snapshot(m)
  <2>1. /\ at[m] = "snapshot" /\ at'[m] = "describe" /\ local' = local
        /\ run'[m].first = run[m].first /\ run'[m].snap = Now(m)
    BY <1>1, <1>5 DEF Snapshot, Now, RunStates
  <2> QED
    BY <2>1 DEF Migration, Still, Now, Guarded
<1>6. CASE Describe(m)
  <2>1. /\ at[m] = "describe" /\ at'[m] \in {"register", "start", "shutdown"} /\ local' = local
        /\ run'[m].first = run[m].first /\ run'[m].snap = run[m].snap
    BY <1>1, <1>6 DEF Describe, Described, RunStates
  <2> QED
    BY <2>1 DEF Migration, Still, Now, Guarded
<1>7. CASE StartVm(m) \/ Shutdown(m) \/ Register(m) \/ Create(m) \/ StopVm(m) \/ Metadata(m)
  <2>1. /\ at[m] \in Guarded /\ run'[m] = run[m] /\ local' = local
        /\ at'[m] \in {"shutdown", "wait", "register", "create", "stopVm", "update", "metadata", "startVm"}
    BY <1>1, <1>7 DEF StartVm, Shutdown, Register, Create, StopVm, Metadata, Guarded
  <2>2. at'[m] \in Guarded /\ at'[m] # "upload" /\ at'[m] # "finish"
    BY <2>1 DEF Guarded
  <2> QED
    BY <1>1, <2>1, <2>2, Onward
<1>8. CASE UpdateAws(m) \/ UpdateAzure(m)
  <2>1. at[m] \in Guarded /\ run'[m] = run[m] /\ local' = local /\ at'[m] = "wait"
    BY <1>1, <1>8 DEF UpdateAws, UpdateAzure, Guarded
  <2>2. at'[m] \in Guarded /\ at'[m] # "upload" /\ at'[m] # "finish"
    BY <2>1 DEF Guarded
  <2> QED
    BY <1>1, <2>1, <2>2, Onward
<1>9. CASE Wait(m)
  <2>1. at[m] = "wait" /\ run'[m] = run[m] /\ local' = local /\ at'[m] = AfterWait(m)
    BY <1>1, <1>9 DEF Wait
  <2>2. CASE at'[m] = "version"
    BY <2>1, <2>2 DEF Migration, Guarded
  <2>3. CASE at'[m] # "version"
    <3>1. /\ run[m].first /\ at'[m] \in {"upload", "finish"}
          /\ at'[m] = "finish" => run[m].snap = {}
      BY <2>1, <2>3 DEF AfterWait
    <3>2. at[m] \in Guarded /\ at'[m] \in Guarded
      BY <2>1, <3>1 DEF Guarded
    <3> QED
      BY <1>1, <2>1, <3>1, <3>2, Onward
  <2> QED
    BY <2>2, <2>3
<1>10. CASE Upload(m)
  <2>1. at[m] = "upload" /\ at'[m] = "finish" /\ run'[m] = run[m] /\ local' = local
    BY <1>1, <1>10 DEF Upload
  <2>2. run[m].first /\ run[m].snap = Now(m)
    BY <2>1 DEF Migration, Guarded
  <2>3. PICK snap \in run[m].snap : snap \in imported'
    BY <1>10 DEF Upload, Imports
  <2>4. run[m].snap \subseteq imported'
    BY <2>2, <2>3 DEF Now
  <2>5. at[m] \in Guarded /\ at'[m] \in Guarded
    BY <2>1 DEF Guarded
  <2> QED
    BY <1>1, <2>1, <2>2, <2>4, <2>5, Onward
<1>11. CASE Finish(m) \/ Version(m)
  <2>1. at'[m] \in {"version", "config"}
    BY <1>1, <1>11 DEF Finish, Version
  <2> QED
    BY <2>1 DEF Migration, Guarded
<1>12. CASE Config(m) \/ Refused(m) \/ Breaks(m) \/ Killed(m)
  <2>1. at'[m] = None /\ run'[m] = Idle
    BY <1>1, <1>12 DEF Config, Refused, Breaks, Killed, Unwound
  <2> QED
    BY <2>1, Forgotten
<1>13. CASE UpdateFails(m)
  <2>1. CASE Unwound(m)
    <3>1. at'[m] = None /\ run'[m] = Idle
      BY <1>1, <2>1 DEF Unwound
    <3> QED
      BY <3>1, Forgotten
  <2>2. CASE ~Unwound(m)
    <3>1. at[m] = "update" /\ at'[m] = "wait" /\ run'[m] = run[m] /\ local' = local
      BY <1>1, <1>13, <2>2 DEF UpdateFails
    <3>2. at[m] \in Guarded /\ at'[m] \in Guarded /\ at'[m] # "upload" /\ at'[m] # "finish"
      BY <3>1 DEF Guarded
    <3> QED
      BY <1>1, <3>1, <3>2, Onward
  <2> QED
    BY <2>1, <2>2
<1> QED
  BY <1>2, <1>3, <1>4, <1>5, <1>6, <1>7, <1>8, <1>9, <1>10, <1>11, <1>12, <1>13 DEF DeploySteps, Deploys

(* The inductive step. *)
LEMMA InvStep ==
    ASSUME IInv, ~CallsMeet, AwsAlone, AwsSees, [Next]_vars
    PROVE  IInv'
<1>1. TypeOK' /\ InPlan' /\ FoundsFirst' /\ CopiesKept'
  BY TypeStep, InPlanStep, OneHeadStep, CopiesStep DEF IInv
<1>2. ASSUME NEW m \in Machines
      PROVE  LocalInStep(m)' /\ Migration(m)'
  <2>1. LocalInStep(m)'
    BY LocalStep DEF IInv
  <2>2. Migration(m)'
    BY Frame, MigrationLocal, MigrationDeploys DEF IInv
  <2> QED
    BY <2>1, <2>2
<1> QED
  BY <1>1, <1>2 DEF IInv

(* Invariance: the local heads and the histories of an account whose machines
   start no head by a call while they deploy. *)
THEOREM Invariance ==
    ASSUME ~CallsMeet, AwsAlone, AwsSees
    PROVE  Spec => []IInv
<1>1. Init => IInv
  BY InvInit
<1>2. IInv /\ [Next]_vars => IInv'
  BY InvStep
<1> QED
  BY <1>1, <1>2, PTL DEF Spec

(* HistoryMoved: a local head is ended by a deploy only when it runs nothing and
   the deployed head has all its jobs. *)
THEOREM HistoryIsMoved ==
    ASSUME ~CallsMeet, AwsAlone, AwsSees
    PROVE  Spec => []HistoryMoved
<1>1. IInv => HistoryMoved
  <2> SUFFICES ASSUME IInv, NEW m \in Machines, at[m] = "finish"
               PROVE  local[m].running = {} /\ local[m].history \subseteq hist
    BY DEF HistoryMoved, Moved
  <2>1. /\ run[m].first /\ Still(m) /\ run[m].snap = Now(m) /\ run[m].snap \subseteq imported
        /\ LocalInStep(m) /\ CopiesKept
    BY DEF IInv, Migration, Guarded
  <2>2. local[m].db => local[m].history \in imported
    BY <2>1 DEF Now
  <2> QED
    BY <2>1, <2>2 DEF Still, LocalInStep, CopiesKept
<1> QED
  BY <1>1, Invariance, PTL

-----------------------------------------------------------------------------
(* No local head is left paused.                                            *)

(* Between the pause and the part of the deploy that resumes the local head when it
   breaks off there is a snapshot, and nothing resumes it when the process is killed. *)
Unhurt ==
    \A p \in Plans : p.cloud # "azure" =>
        "snapshot" \notin p.raise /\ p.kill \cap ({"snapshot"} \cup Guarded) = {}

(* A paused head is that of a deploy which knows of it and moves its history. *)
Pausing(m) ==
    /\ at[m] \in {"pause", "snapshot"} => run[m].first /\ Migrates
    /\ local[m].paused =>
         at[m] \in {"snapshot"} \cup Guarded /\ run[m].held /\ run[m].first /\ Migrates

(* Only a deploy's pause pauses a local head. *)
LEMMA PausedBy ==
    ASSUME TypeOK, [Next]_vars, NEW m \in Machines, local'[m].paused, ~local[m].paused
    PROVE  Pause(m)
<1>1. LocalTyped
  BY TypeParts
<1>2. LocalSteps(m)
  BY Frame
<1>3. PICK r \in LocalStates :
              /\ local' = [local EXCEPT ![m] = r]
              /\ \/ r = local[m]
                 \/ Pause(m) /\ r = [local[m] EXCEPT !.paused = TRUE]
                 \/ Finish(m) /\ r = [local[m] EXCEPT !.up = FALSE, !.paused = FALSE, !.running = {}]
                 \/ EndSteps(m) /\ r = [local[m] EXCEPT !.paused = FALSE]
                 \/ LocalStops(m) /\ r = [local[m] EXCEPT !.up = FALSE, !.paused = FALSE]
                 \/ \E j \in Jobs :
                       /\ CallsLocal(m, j)
                       /\ r = [local[m] EXCEPT !.up = TRUE, !.db = TRUE, !.running = @ \cup {j}]
                 \/ \E j \in Jobs :
                       /\ JobEnds(m, j)
                       /\ r = [local[m] EXCEPT !.running = @ \ {j}, !.history = @ \cup {j}]
  BY <1>1, <1>2, LocalAfter
<1>4. local'[m] = r
  BY <1>1, <1>3 DEF LocalTyped
<1> QED
  BY <1>1, <1>3, <1>4 DEF LocalTyped, LocalStates

(* Steps of the guarded part keep what the deploy knows of its local head. *)
LEMMA PausedOnward ==
    ASSUME TypeOK, [Next]_vars, NEW m \in Machines, Pausing(m), ~Pause(m),
           at[m] \in {"snapshot"} \cup Guarded, at'[m] \in Guarded,
           run'[m].held = run[m].held, run'[m].first = run[m].first
    PROVE  Pausing(m)'
<1>1. plan' = plan /\ (local'[m].paused => local[m].paused)
  BY Changes, PausedBy
<1> QED
  BY <1>1 DEF Pausing, Guarded, Migrates, cloud

(* A deploy that breaks off resumes the local head it paused. *)
LEMMA PausedUnwound ==
    ASSUME TypeOK, Unhurt, [Next]_vars, NEW m \in Machines, Pausing(m),
           Unwound(m), (at[m] = "snapshot") => Breaks(m)
    PROVE  Pausing(m)'
<1>1. AtTyped /\ LocalTyped /\ plan \in Plans
  BY TypeParts DEF TypeOK
<1>2. at'[m] = None
  BY <1>1 DEF Unwound, Go, AtTyped
<1>3. ~local'[m].paused
  <2>1. CASE Resumes(m)
    BY <1>1, <2>1 DEF Unwound, LocalTyped, LocalStates
  <2>2. CASE ~Resumes(m)
    <3>1. local' = local
      BY <2>2 DEF Unwound
    <3> SUFFICES ASSUME local[m].paused PROVE FALSE
      BY <3>1
    <3>2. at[m] = "snapshot" /\ cloud # "azure"
      BY <2>2 DEF Resumes, Pausing, Migrates
    <3> QED
      BY <1>1, <3>2 DEF Breaks, Unhurt, cloud
  <2> QED
    BY <2>1, <2>2
<1> QED
  BY <1>2, <1>3 DEF Pausing, None

(* A pause is remembered until the local head is resumed or ended. *)
LEMMA PausingStep ==
    ASSUME TypeOK, Unhurt, [Next]_vars, NEW m \in Machines, LocalInStep(m), Pausing(m)
    PROVE  Pausing(m)'
<1>1. AtTyped /\ RunTyped /\ LocalTyped /\ plan \in Plans
  BY TypeParts DEF TypeOK
<1>2. plan' = plan /\ (Migrates' <=> Migrates)
  BY Changes DEF Migrates, cloud
<1>3. CASE at'[m] = at[m] /\ run'[m] = run[m]
  <2>1. ~Pause(m)
    BY <1>1, <1>3 DEF Pause, Go, AtTyped
  <2>2. local'[m].paused => local[m].paused
    BY <2>1, PausedBy
  <2> QED
    BY <1>2, <1>3, <2>2 DEF Pausing
<1>4. CASE DeploySteps(m)
  <2> USE DEF AtTyped, RunTyped, Go, Note, account, machine, progress
  <2>1. CASE Start(m) \/ Prepare(m) \/ Token(m) \/ Save(m)
    <3>1. /\ at[m] \in {None, "prepare", "token", "save"} /\ local' = local
          /\ at'[m] \in {"prepare", "token", "save", "look"}
      BY <1>1, <2>1 DEF Start, Prepare, Token, Save
    <3> QED
      BY <3>1 DEF Pausing, Guarded, None
  <2>2. CASE Look(m)
    <3>1. /\ at[m] = "look" /\ local' = local
          /\ at'[m] = "describe" \/ (at'[m] = "pause" /\ run'[m].first /\ Migrates)
      BY <1>1, <2>2 DEF Look, RunStates
    <3> QED
      BY <1>2, <3>1 DEF Pausing, Guarded
  <2>3. CASE Pause(m)
    <3>1. /\ at[m] = "pause" /\ at'[m] = "snapshot" /\ run'[m].first = run[m].first
          /\ local[m].up => run'[m].held
      BY <1>1, <2>3 DEF Pause, RunStates
    <3>2. local'[m].paused => local[m].up
      BY <2>3 DEF Pause, LocalInStep
    <3> QED
      BY <1>2, <3>1, <3>2 DEF Pausing, Guarded
  <2>4. CASE Snapshot(m)
    <3>1. /\ at[m] = "snapshot" /\ at'[m] = "describe"
          /\ run'[m].first = run[m].first /\ run'[m].held = run[m].held
      BY <1>1, <2>4 DEF Snapshot, RunStates
    <3> QED
      BY <3>1, PausedOnward DEF Guarded, Pause
  <2>5. CASE Describe(m)
    <3>1. /\ at[m] = "describe" /\ at'[m] \in {"register", "start", "shutdown"}
          /\ run'[m].first = run[m].first /\ run'[m].held = run[m].held
      BY <1>1, <2>5 DEF Describe, Described, RunStates
    <3> QED
      BY <3>1, PausedOnward DEF Guarded, Pause
  <2>6. CASE StartVm(m) \/ Shutdown(m) \/ Register(m) \/ Create(m) \/ StopVm(m) \/ Metadata(m)
             \/ UpdateAws(m) \/ UpdateAzure(m)
    <3>1. /\ at[m] \in Guarded /\ run'[m] = run[m] /\ at[m] # "pause"
          /\ at'[m] \in {"shutdown", "wait", "register", "create", "stopVm", "update", "metadata", "startVm"}
      BY <1>1, <2>6 DEF StartVm, Shutdown, Register, Create, StopVm, Metadata, UpdateAws, UpdateAzure, Guarded
    <3>2. at'[m] \in Guarded
      BY <3>1 DEF Guarded
    <3> QED
      BY <3>1, <3>2, PausedOnward DEF Pause
  <2>7. CASE Wait(m) \/ Upload(m)
    <3>1. /\ at[m] \in Guarded /\ run'[m] = run[m] /\ local' = local
          /\ at'[m] \in {"upload", "finish"} \/ (at'[m] = "version" /\ ~run[m].first)
      BY <1>1, <2>7 DEF Wait, AfterWait, Upload, Guarded
    <3> QED
      BY <1>2, <3>1 DEF Pausing, Guarded
  <2>8. CASE Finish(m)
    <3>1. at'[m] = "version" /\ ~local'[m].paused
      BY <1>1, <2>8 DEF Finish, LocalTyped, LocalStates
    <3> QED
      BY <3>1 DEF Pausing
  <2>9. CASE Version(m) \/ Config(m)
    <3>1. at[m] \in {"version", "config"} /\ at'[m] \in {"config", None} /\ local' = local
      BY <1>1, <2>9 DEF Version, Config
    <3> QED
      BY <3>1 DEF Pausing, Guarded, None
  <2>10. CASE Killed(m)
    <3>1. at[m] \in plan.kill /\ at'[m] = None /\ local' = local
      BY <1>1, <2>10 DEF Killed
    <3> QED
      BY <1>1, <3>1 DEF Pausing, Unhurt, Migrates, cloud, None
  <2>11. CASE Refused(m)
    BY <2>11, PausedUnwound DEF Refused, Hopeless
  <2>12. CASE Breaks(m)
    BY <2>12, PausedUnwound DEF Breaks
  <2>13. CASE UpdateFails(m)
    <3>1. CASE Unwound(m)
      BY <2>13, <3>1, PausedUnwound DEF UpdateFails
    <3>2. CASE ~Unwound(m)
      <4>1. at[m] = "update" /\ at'[m] = "wait" /\ run'[m] = run[m]
        BY <1>1, <2>13, <3>2 DEF UpdateFails
      <4> QED
        BY <4>1, PausedOnward DEF Guarded, Pause
    <3> QED
      BY <3>1, <3>2
  <2> QED
    BY <1>4, <2>1, <2>2, <2>3, <2>4, <2>5, <2>6, <2>7, <2>8, <2>9, <2>10, <2>11, <2>12, <2>13
       DEF DeploySteps, Deploys
<1> QED
  BY <1>3, <1>4, Frame

(* LocalAdmitsAgain: a deploy that ends, however it breaks off, leaves a local head that
   admits jobs (resume_history_migration), unless it is killed while it holds it. *)
THEOREM NobodyLeftPaused ==
    ASSUME Unhurt
    PROVE  Spec => []LocalAdmitsAgain
<1> DEFINE PInv == \A m \in Machines : LocalInStep(m) /\ Pausing(m)
<1>1. Init => PInv
  BY DEF Init, LocalInStep, Pausing, None
<1>2. TypeOK /\ PInv /\ [Next]_vars => PInv'
  BY LocalStep, PausingStep
<1>3. PInv => LocalAdmitsAgain
  BY DEF Pausing, LocalAdmitsAgain, Guarded, None
<1> HIDE DEF PInv
<1> QED
  BY <1>1, <1>2, <1>3, TypeCorrect, PTL DEF Spec

(* AccountInOrder: the account and the local heads are in order at every moment of
   deploys that fail anywhere and are repeated, for any number of machines. *)
THEOREM AccountStaysInOrder ==
    ASSUME ~CallsMeet, AwsAlone, AwsSees, Unhurt
    PROVE  Spec => []AccountInOrder
<1>1. TypeOK /\ OneHead /\ HistoryMoved /\ LocalAdmitsAgain => AccountInOrder
  BY DEF AccountInOrder
<1> QED
  BY <1>1, TypeCorrect, OneHeadOnly, HistoryIsMoved, NobodyLeftPaused, PTL
=============================================================================
