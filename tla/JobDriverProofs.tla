--------------------------- MODULE JobDriverProofs ---------------------------
(***************************************************************************)
(* Proofs about JobDriver: for any nodes, plans, inputs, slots and number  *)
(* of faults, no input of a call is stranded, a dropped node holds nothing *)
(* and the errors the call raises are the right ones.  The hypotheses are  *)
(* the three events in which the code does otherwise: an assignment that   *)
(* outlasts the idle time of the other nodes, an answer that is lost after *)
(* the node has taken the job, and a node that falls silent before it has. *)
(***************************************************************************)
EXTENDS JobDriver, FiniteSetTheorems, SequenceTheorems, TLAPS

-----------------------------------------------------------------------------
(* The inductive invariant.                                                 *)

USE DEF pass

(* Before the head has answered, nothing has begun. *)
Quiet ==
    driver \in {"starting", "waiting"} =>
        /\ nodes = <<>> /\ first = {} /\ through = {} /\ ~done /\ ~told /\ got = {}
        /\ \A k \in Nodes \cup {Shared} : lists[k] = {}
        /\ \A n \in Nodes :
             /\ state[n] = "none" /\ task[n] = "none" /\ post[n] = "none" /\ vm[n] = "none"
             /\ chunk[n] = {} /\ held[n] = {} /\ results[n] = {}

(* Where the task of a node is, and what the assignment of the node is then. *)
TaskInStep(n) ==
    /\ task[n] # "none" <=> n \in ToSet(nodes)
    /\ task[n] \in {"none", "boot"} => post[n] = "none"
    /\ post[n] \in {"sent", "accepted"} => task[n] = "assign"
    /\ task[n] \in {"chunk", "upload", "barrier", "poll"} => post[n] = "200"
    /\ task[n] = "failing" => post[n] = "cut" /\ vm[n] = "gone"
    /\ task[n] = "barrier" => n \in first
    /\ chunk[n] # {} => task[n] \in {"upload", "raised"}
    /\ task[n] = "upload" => chunk[n] # {}
    /\ task[n] = "raised" /\ post[n] = "200" => vm[n] \in {"left", "gone"}

(* How a task ends, and what the node is to the driver then. *)
StateInStep(n) ==
    /\ task[n] = "boot" => state[n] = "BOOTING"
    /\ task[n] = "returned" => state[n] \in {"REMOVED", "FAILED", "DONE"}
    /\ state[n] \in {"REMOVED", "DONE"} => task[n] = "returned"
    /\ state[n] = "FAILED" => task[n] \in {"returned", "failing", "raised"}
    /\ post[n] = "200" /\ task[n] = "returned" => state[n] = "DONE"
    /\ state[n] = "DONE" => post[n] = "200" /\ vm[n] \in {"left", "gone"} /\ results[n] = {}

(* What a node does is what its assignment came to. *)
ServerInStep(n) ==
    /\ linked[n] => post[n] = "accepted"
    /\ vm[n] = "loading" => linked[n]
    /\ vm[n] \in {"working", "left"} => post[n] = "200"
    /\ post[n] = "200" => vm[n] \in {"working", "left", "gone"}
    /\ held[n] \cup results[n] # {} => post[n] = "200"
    /\ vm[n] = "left" => results[n] = {}
    /\ "lostEarly" \notin Faults /\ vm[n] = "gone" /\ ~ended => post[n] = "200"

(* A node that has left the job left when nothing was to be run any more. *)
Drained ==
    /\ \A k \in Nodes \cup {Shared} : lists[k] = {}
    /\ \A n \in Nodes : chunk[n] = {} /\ held[n] = {}

LeftDrained == (\E n \in Nodes : vm[n] = "left" \/ state[n] = "DONE") => Drained

(* Every list has a node whose task pops from it. *)
ListsOwned ==
    \A k \in Nodes \cup {Shared} :
        lists[k] # {} => \E n \in ToSet(nodes) : KeyOf(n) = k

(* Every input is somewhere. *)
Somewhere(i) ==
    \/ i \in got
    \/ \E k \in Nodes \cup {Shared} : i \in lists[k]
    \/ \E n \in Nodes : i \in chunk[n] \cup held[n] \cup results[n]

Holding == driver \in {"driving", "passing", "closing", "detached"}
Conserved == Holding => \A i \in Inputs : Somewhere(i)

(* What the client and the head know of the lists, and when. *)
UploadInStep ==
    /\ done => \A k \in Nodes \cup {Shared} : lists[k] = {}
    /\ told => done
    /\ driver \in {"driving", "closing", "detached"} /\ done => told
    /\ driver \in {"passing", "detached"} => done

(* A node that failed alone. *)
Excused(n) ==
    \/ vm[n] \in {"failed", "hung"}
    \/ vm[n] \in {"stopping", "gone"} /\ post[n] = "none"
    \/ vm[n] = "gone" /\ post[n] = "200"

(* Why a task raised, or a node counts as failed, where no node falls silent *)
(* before it has the job.                                                    *)
FailureInStep(n) ==
  "lostEarly" \notin Faults =>
    /\ task[n] = "raised" =>
         \/ ended \/ state[n] = "BOOTING" \/ post[n] = "401"
         \/ vm[n] = "gone" /\ post[n] = "200"
    /\ state[n] = "FAILED" =>
         /\ Excused(n) \/ ended
         /\ vm[n] \in {"failed", "hung", "stopping"} \/ post[n] # "none"
         /\ n \in Late => post[n] = "200" \/ ended

(* What the call raised, and that it stays true. *)
ErrorInStep ==
    /\ driver # "raised" => error.kind = "none"
    /\ error.kind = "JobStalled" =>
         \A n \in Nodes : vm[n] # "working" /\ post[n] \notin {"sent", "accepted"}
    /\ "lostEarly" \notin Faults =>
         /\ error.kind = "NodeDisconnected" =>
              /\ error.node \in Nodes /\ Excused(error.node)
              /\ error.node \in Late => post[error.node] = "200"
         /\ RestartNotMisreported

InStep(n) == TaskInStep(n) /\ StateInStep(n) /\ ServerInStep(n) /\ FailureInStep(n)

IInv ==
    /\ TypeOK /\ Quiet /\ \A n \in Nodes : InStep(n)
    /\ LeftDrained /\ ListsOwned /\ UploadInStep /\ Conserved /\ ErrorInStep

-----------------------------------------------------------------------------
(* What an invariant needs that the actions do not touch.                   *)

LEMMA KeyTyped ==
    ASSUME NEW n \in Nodes PROVE KeyOf(n) \in Nodes \cup {Shared}
BY DEF KeyOf

LEMMA KeyKept ==
    ASSUME first' = first PROVE \A n : KeyOf(n)' = KeyOf(n)
BY DEF KeyOf

LEMMA InitInv == Init => IInv
<1> SUFFICES ASSUME Init PROVE IInv
    OBVIOUS
<1>1. TypeOK
  <2>1. ToSet(nodes) = {}
    BY DEF Init, ToSet
  <2>2. IsInjective(nodes) /\ nodes \in Seq(Nodes)
    BY DEF Init, IsInjective
  <2>3. error.node \in Nodes \cup {Shared} /\ {broken, done, told, ended} \subseteq BOOLEAN
    BY DEF Init, NoError
  <2>4. faults \in 0..MaxFaults /\ tries \in 0..1
    BY DriverAssumption DEF Init
  <2> QED  BY <2>1, <2>2, <2>3, <2>4 DEF Init, TypeOK
<1>2. \A n \in Nodes : InStep(n)
  <2>1. ToSet(nodes) = {}
    BY DEF Init, ToSet
  <2> QED  BY <2>1 DEF Init, InStep, TaskInStep, StateInStep, ServerInStep, FailureInStep
<1>3. Quiet /\ LeftDrained /\ ListsOwned
  BY DEF Init, Quiet, LeftDrained, ListsOwned
<1>4. UploadInStep /\ Conserved /\ ErrorInStep
  BY DEF Init, UploadInStep, Conserved, Holding, ErrorInStep, NoError,
     RestartNotMisreported
<1> QED  BY <1>1, <1>2, <1>3, <1>4 DEF IInv

(* The part of the invariant that is about one node is kept by what leaves *)
(* that node alone.                                                        *)
LEMMA OtherInStep ==
    ASSUME NEW n \in Nodes, InStep(n), first' = first, ended' = ended,
           n \in ToSet(nodes)' <=> n \in ToSet(nodes),
           task'[n] = task[n], state'[n] = state[n], post'[n] = post[n],
           vm'[n] = vm[n], linked'[n] = linked[n], chunk'[n] = chunk[n],
           held'[n] = held[n], results'[n] = results[n]
    PROVE  InStep(n)'
BY DEF InStep, TaskInStep, StateInStep, ServerInStep, FailureInStep, Excused

LEMMA QuietUnbegun ==
    ASSUME IInv, NEW n \in Nodes,
           vm[n] # "none" \/ post[n] # "none" \/ task[n] # "none"
    PROVE  driver \notin {"starting", "waiting"}
BY DEF IInv, Quiet

(* Inputs stay somewhere while they do not move. *)
LEMMA PlacesKept ==
    ASSUME IInv, UNCHANGED <<nodes, first, lists, chunk, held, results, got>>,
           UNCHANGED <<driver, pass>>
    PROVE  ListsOwned' /\ UploadInStep' /\ Conserved'
<1>1. ListsOwned'
  BY KeyKept DEF IInv, ListsOwned
<1>2. UploadInStep'
  BY DEF IInv, UploadInStep
<1>3. Conserved'
  BY DEF IInv, Conserved, Somewhere, Holding
<1> QED  BY <1>1, <1>2, <1>3

-----------------------------------------------------------------------------
(* The nodes.                                                               *)

(* What a step of a node may not undo once the call has raised. *)
StaysExcused(n) ==
    /\ Excused(n) => Excused(n)'
    /\ vm[n] \in {"failed", "hung", "stopping"} => vm'[n] \in {"failed", "hung", "stopping"}
    /\ post[n] # "none" => post'[n] # "none"
    /\ post[n] = "200" => post'[n] = "200"
    /\ vm[n] # "working" /\ post[n] \notin {"sent", "accepted"} =>
         vm'[n] # "working" /\ post'[n] \notin {"sent", "accepted"}

LEMMA ErrorStays ==
    ASSUME IInv, UNCHANGED <<driver, error, nodes, first>>,
           driver = "raised" => \A n \in Nodes : StaysExcused(n)
    PROVE  ErrorInStep'
<1>1. CASE driver # "raised"
  BY <1>1 DEF IInv, ErrorInStep, RestartNotMisreported
<1>2. CASE driver = "raised"
  <2>1. \A n \in Nodes : StaysExcused(n)
    BY <1>2
  <2>2. error.kind = "JobStalled" =>
           \A n \in Nodes : vm'[n] # "working" /\ post'[n] \notin {"sent", "accepted"}
    BY <2>1 DEF IInv, ErrorInStep, StaysExcused
  <2>3. "lostEarly" \notin Faults /\ error.kind = "NodeDisconnected" =>
           /\ error.node \in Nodes /\ Excused(error.node)'
           /\ error.node \in Late => post'[error.node] = "200"
    BY <2>1 DEF IInv, ErrorInStep, StaysExcused
  <2>4. BootingNodes' = BootingNodes /\ BootingNodes \subseteq Nodes
    <3>1. ToSet(nodes) \subseteq Nodes
      BY DEF IInv, TypeOK, ToSet
    <3> QED  BY <3>1 DEF BootingNodes
  <2>5. "lostEarly" \notin Faults => RestartNotMisreported'
    BY <2>1, <2>4 DEF IInv, ErrorInStep, RestartNotMisreported, StaysExcused
  <2> QED  BY <1>2, <2>2, <2>3, <2>5 DEF ErrorInStep, Excused
<1> QED  BY <1>1, <1>2

LEMMA ServerFrame ==
    ASSUME IInv, NEW n \in Nodes, TypeOK', driver \notin {"starting", "waiting"},
           UNCHANGED <<driver, error, start, fleet, client, state, task, held, results, got, ended>>,
           \A m \in Nodes \ {n} : vm'[m] = vm[m] /\ post'[m] = post[m] /\ linked'[m] = linked[m],
           InStep(n)', vm'[n] = "left" => vm[n] = "left" \/ Drained,
           driver = "raised" => StaysExcused(n)
    PROVE  IInv'
<1> USE DEF fleet, client
<1>1. Quiet'
  BY DEF Quiet
<1>2. \A m \in Nodes : InStep(m)'
  <2> SUFFICES ASSUME NEW m \in Nodes \ {n} PROVE InStep(m)'
    OBVIOUS
  <2>1. m \in ToSet(nodes)' <=> m \in ToSet(nodes)
    BY DEF ToSet
  <2> QED  BY <2>1, OtherInStep DEF IInv
<1>3. LeftDrained'
  <2>1. Drained' = Drained
    BY DEF Drained
  <2> QED  BY <2>1 DEF IInv, LeftDrained
<1>4. ListsOwned' /\ UploadInStep' /\ Conserved'
  BY PlacesKept
<1>5. ErrorInStep'
  <2>1. \A m \in Nodes \ {n} : StaysExcused(m)
    BY DEF StaysExcused, Excused
  <2> QED  BY <2>1, ErrorStays
<1> QED  BY <1>1, <1>2, <1>3, <1>4, <1>5 DEF IInv

Vms == {"none", "booting", "failed", "hung", "ready", "arriving", "loading", "working",
        "left", "rebooting", "stopping", "gone"}
Posts == {"none", "sent", "accepted", "200", "401", "409", "500", "502", "503", "cut"}

(* A step that concerns the machine and the assignment of one node. *)
ServerOnly(n) ==
    /\ UNCHANGED <<driver, error, start, fleet, client, state, task, held, results, got, ended>>
    /\ \A m \in Nodes \ {n} : vm'[m] = vm[m] /\ post'[m] = post[m] /\ linked'[m] = linked[m]
    /\ vm' \in [Nodes -> Vms] /\ post' \in [Nodes -> Posts] /\ linked' \in [Nodes -> BOOLEAN]
    /\ faults' \in 0..MaxFaults

LEMMA FaultTyped ==
    ASSUME TypeOK, NEW kind, Fault(kind) PROVE faults' \in 0..MaxFaults
BY DriverAssumption DEF TypeOK, Fault

LEMMA ServerKeeps ==
    ASSUME IInv, NEW n \in Nodes, ServerOnly(n), driver \notin {"starting", "waiting"},
           InStep(n)', vm'[n] = "left" => vm[n] = "left" \/ Drained,
           driver = "raised" => StaysExcused(n)
    PROVE  IInv'
<1>1. TypeOK'
  BY DEF IInv, TypeOK, ServerOnly, Vms, Posts, start, fleet, client
<1> QED  BY <1>1, ServerFrame DEF ServerOnly

LEMMA VmBootsKeeps ==
    ASSUME IInv, NEW n \in Nodes, VmBoots(n) PROVE IInv'
<1>1. ServerOnly(n)
  BY DEF VmBoots, IInv, TypeOK, ServerOnly, Vms, Posts, link
<1>2. InStep(n)'
  <2>1. /\ vm[n] = "booting" /\ vm'[n] = "ready"
        /\ post'[n] = post[n] /\ linked'[n] = linked[n]
    BY DEF VmBoots, IInv, TypeOK, link
  <2>2. UNCHANGED <<state, task, chunk, held, results, nodes, first, ended>>
    BY <1>1 DEF ServerOnly, link, fleet, client
  <2> QED  BY <2>1, <2>2 DEF IInv, InStep, TaskInStep, StateInStep, ServerInStep,
              FailureInStep, Excused, ToSet
<1>3. StaysExcused(n)
  BY <1>1 DEF VmBoots, IInv, TypeOK, InStep, TaskInStep, ServerInStep, StaysExcused, Excused, link
<1>4. vm'[n] = "left" => vm[n] = "left"
  BY DEF VmBoots, IInv, TypeOK
<1>5. driver \notin {"starting", "waiting"}
  BY QuietUnbegun DEF VmBoots, IInv, InStep, ServerInStep
<1> QED  BY <1>1, <1>2, <1>3, <1>4, <1>5, ServerKeeps

LEMMA VmFailsToBootKeeps ==
    ASSUME IInv, NEW n \in Nodes, VmFailsToBoot(n) PROVE IInv'
<1>1. ServerOnly(n)
  BY FaultTyped DEF VmFailsToBoot, IInv, TypeOK, ServerOnly, Vms, Posts, link
<1>2. InStep(n)'
  <2>1. /\ vm[n] = "booting" /\ vm'[n] \in {"failed", "hung"}
        /\ post'[n] = post[n] /\ linked'[n] = linked[n]
    BY DEF VmFailsToBoot, IInv, TypeOK, link
  <2>2. UNCHANGED <<state, task, chunk, held, results, nodes, first, ended>>
    BY <1>1 DEF ServerOnly, link, fleet, client
  <2> QED  BY <2>1, <2>2 DEF IInv, InStep, TaskInStep, StateInStep, ServerInStep,
              FailureInStep, Excused, ToSet
<1>3. StaysExcused(n)
  BY <1>1 DEF VmFailsToBoot, Fault, IInv, TypeOK, InStep, TaskInStep, ServerInStep,
     StaysExcused, Excused, link
<1>4. vm'[n] = "left" => vm[n] = "left"
  BY DEF VmFailsToBoot, IInv, TypeOK
<1>5. driver \notin {"starting", "waiting"}
  BY QuietUnbegun DEF VmFailsToBoot, IInv, InStep, ServerInStep
<1> QED  BY <1>1, <1>2, <1>3, <1>4, <1>5, ServerKeeps

LEMMA AcceptKeeps ==
    ASSUME IInv, NEW n \in Nodes, Accept(n) PROVE IInv'
<1>1. ServerOnly(n)
  BY DEF Accept, Post, IInv, TypeOK, ServerOnly, Vms, Posts, link
<1>2. InStep(n)'
  <2>1. /\ post[n] = "sent" /\ vm[n] = "ready"
        /\ vm'[n] = "arriving" /\ linked'[n] /\ post'[n] = "accepted"
    BY DEF Accept, Post, IInv, TypeOK, link
  <2>2. UNCHANGED <<state, task, chunk, held, results, nodes, first, ended>>
    BY <1>1 DEF ServerOnly, link, fleet, client
  <2> QED  BY <2>1, <2>2 DEF IInv, InStep, TaskInStep, StateInStep, ServerInStep,
              FailureInStep, Excused, ToSet
<1>3. StaysExcused(n)
  BY <1>1 DEF Accept, Post, IInv, TypeOK, InStep, TaskInStep, ServerInStep, StaysExcused,
     Excused, link
<1>4. vm'[n] = "left" => vm[n] = "left"
  BY DEF Accept, Post, IInv, TypeOK
<1>5. driver \notin {"starting", "waiting"}
  BY QuietUnbegun DEF Accept, IInv, InStep, ServerInStep
<1> QED  BY <1>1, <1>2, <1>3, <1>4, <1>5, ServerKeeps

LEMMA RefuseKeeps ==
    ASSUME IInv, NEW n \in Nodes, Refuse(n) PROVE IInv'
<1>1. ServerOnly(n)
  BY DEF Refuse, Post, server, IInv, TypeOK, ServerOnly, Vms, Posts, link
<1>2. InStep(n)'
  <2>1. /\ post[n] = "sent" /\ post'[n] \in {"409", "503", "cut"}
        /\ vm'[n] = vm[n] /\ linked'[n] = linked[n]
    BY DEF Refuse, Post, server, IInv, TypeOK, link
  <2>2. UNCHANGED <<state, task, chunk, held, results, nodes, first, ended>>
    BY <1>1 DEF ServerOnly, link, fleet, client
  <2> QED  BY <2>1, <2>2 DEF IInv, InStep, TaskInStep, StateInStep, ServerInStep,
              FailureInStep, Excused, ToSet
<1>3. StaysExcused(n)
  BY <1>1 DEF Refuse, Post, server, IInv, TypeOK, InStep, TaskInStep, ServerInStep,
     StaysExcused, Excused, link
<1>4. vm'[n] = "left" => vm[n] = "left"
  BY DEF Refuse, Post, server, IInv, TypeOK
<1>5. driver \notin {"starting", "waiting"}
  BY QuietUnbegun DEF Refuse, IInv, InStep, ServerInStep
<1> QED  BY <1>1, <1>2, <1>3, <1>4, <1>5, ServerKeeps

LEMMA NotAdmittedKeeps ==
    ASSUME IInv, NEW n \in Nodes, NotAdmitted(n) PROVE IInv'
<1>1. ServerOnly(n)
  BY FaultTyped DEF NotAdmitted, Post, server, IInv, TypeOK, ServerOnly, Vms, Posts, link
<1>2. InStep(n)'
  <2>1. /\ post[n] = "sent" /\ post'[n] \in {"401", "503"}
        /\ vm'[n] = vm[n] /\ linked'[n] = linked[n]
    BY DEF NotAdmitted, Post, server, IInv, TypeOK, link
  <2>2. UNCHANGED <<state, task, chunk, held, results, nodes, first, ended>>
    BY <1>1 DEF ServerOnly, link, fleet, client
  <2> QED  BY <2>1, <2>2 DEF IInv, InStep, TaskInStep, StateInStep, ServerInStep,
              FailureInStep, Excused, ToSet
<1>3. StaysExcused(n)
  BY <1>1 DEF NotAdmitted, Post, server, Fault, IInv, TypeOK, InStep, TaskInStep,
     ServerInStep, StaysExcused, Excused, link
<1>4. vm'[n] = "left" => vm[n] = "left"
  BY DEF NotAdmitted, Post, server, IInv, TypeOK
<1>5. driver \notin {"starting", "waiting"}
  BY QuietUnbegun DEF NotAdmitted, IInv, InStep, ServerInStep
<1> QED  BY <1>1, <1>2, <1>3, <1>4, <1>5, ServerKeeps

LEMMA GatewayErrorKeeps ==
    ASSUME IInv, NEW n \in Nodes, GatewayError(n) PROVE IInv'
<1>1. ServerOnly(n)
  BY FaultTyped DEF GatewayError, Post, server, IInv, TypeOK, ServerOnly, Vms, Posts, link
<1>2. InStep(n)'
  <2>1. /\ post[n] = "sent" /\ post'[n] = "502"
        /\ vm'[n] = vm[n] /\ linked'[n] = linked[n]
    BY DEF GatewayError, Post, server, IInv, TypeOK, link
  <2>2. UNCHANGED <<state, task, chunk, held, results, nodes, first, ended>>
    BY <1>1 DEF ServerOnly, link, fleet, client
  <2> QED  BY <2>1, <2>2 DEF IInv, InStep, TaskInStep, StateInStep, ServerInStep,
              FailureInStep, Excused, ToSet
<1>3. StaysExcused(n)
  BY <1>1 DEF GatewayError, Post, server, Fault, IInv, TypeOK, InStep, TaskInStep,
     ServerInStep, StaysExcused, Excused, link
<1>4. vm'[n] = "left" => vm[n] = "left"
  BY DEF GatewayError, Post, server, IInv, TypeOK
<1>5. driver \notin {"starting", "waiting"}
  BY QuietUnbegun DEF GatewayError, IInv, InStep, ServerInStep
<1> QED  BY <1>1, <1>2, <1>3, <1>4, <1>5, ServerKeeps

LEMMA BodyArrivedKeeps ==
    ASSUME IInv, NEW n \in Nodes, BodyArrived(n) PROVE IInv'
<1>1. ServerOnly(n)
  BY DEF BodyArrived, IInv, TypeOK, ServerOnly, Vms, Posts, link
<1>2. InStep(n)'
  <2>1. /\ vm[n] = "arriving" /\ linked[n] /\ vm'[n] = "loading"
        /\ post'[n] = post[n] /\ linked'[n] = linked[n]
    BY DEF BodyArrived, IInv, TypeOK, link
  <2>2. UNCHANGED <<state, task, chunk, held, results, nodes, first, ended>>
    BY <1>1 DEF ServerOnly, link, fleet, client
  <2> QED  BY <2>1, <2>2 DEF IInv, InStep, TaskInStep, StateInStep, ServerInStep,
              FailureInStep, Excused, ToSet
<1>3. StaysExcused(n)
  BY <1>1 DEF BodyArrived, IInv, TypeOK, InStep, TaskInStep, ServerInStep, StaysExcused,
     Excused, link
<1>4. vm'[n] = "left" => vm[n] = "left"
  BY DEF BodyArrived, IInv, TypeOK
<1>5. driver \notin {"starting", "waiting"}
  BY QuietUnbegun DEF BodyArrived, IInv, InStep, ServerInStep
<1> QED  BY <1>1, <1>2, <1>3, <1>4, <1>5, ServerKeeps

LEMMA NoWorkersKeeps ==
    ASSUME IInv, NEW n \in Nodes, NoWorkers(n) PROVE IInv'
<1>1. ServerOnly(n)
  BY FaultTyped DEF NoWorkers, IInv, TypeOK, ServerOnly, Vms, Posts, link
<1>2. InStep(n)'
  <2>1. /\ vm[n] = "loading" /\ vm'[n] = "ready"
        /\ post'[n] = (IF linked[n] THEN "409" ELSE post[n]) /\ ~linked'[n]
    BY DEF NoWorkers, IInv, TypeOK, link
  <2>2. UNCHANGED <<state, task, chunk, held, results, nodes, first, ended>>
    BY <1>1 DEF ServerOnly, link, fleet, client
  <2> QED  BY <2>1, <2>2 DEF IInv, InStep, TaskInStep, StateInStep, ServerInStep,
              FailureInStep, Excused, ToSet
<1>3. StaysExcused(n)
  BY <1>1 DEF NoWorkers, Fault, IInv, TypeOK, InStep, TaskInStep, ServerInStep, StaysExcused,
     Excused, link
<1>4. vm'[n] = "left" => vm[n] = "left"
  BY DEF NoWorkers, IInv, TypeOK
<1>5. driver \notin {"starting", "waiting"}
  BY QuietUnbegun DEF NoWorkers, IInv, InStep, ServerInStep
<1> QED  BY <1>1, <1>2, <1>3, <1>4, <1>5, ServerKeeps

LEMMA LoadFailsKeeps ==
    ASSUME IInv, NEW n \in Nodes, LoadFails(n) PROVE IInv'
<1>1. ServerOnly(n)
  BY FaultTyped DEF LoadFails, AfterError, IInv, TypeOK, ServerOnly, Vms, Posts, link
<1>2. InStep(n)'
  <2>1. /\ vm[n] = "loading" /\ vm'[n] = "rebooting"
        /\ post'[n] = (IF linked[n] THEN "500" ELSE post[n]) /\ ~linked'[n]
    BY DEF LoadFails, AfterError, IInv, TypeOK, link
  <2>2. UNCHANGED <<state, task, chunk, held, results, nodes, first, ended>>
    BY <1>1 DEF ServerOnly, link, fleet, client
  <2> QED  BY <2>1, <2>2 DEF IInv, InStep, TaskInStep, StateInStep, ServerInStep,
              FailureInStep, Excused, ToSet
<1>3. StaysExcused(n)
  BY <1>1 DEF LoadFails, AfterError, Fault, IInv, TypeOK, InStep, TaskInStep, ServerInStep,
     StaysExcused, Excused, link
<1>4. vm'[n] = "left" => vm[n] = "left"
  BY DEF LoadFails, AfterError, IInv, TypeOK
<1>5. driver \notin {"starting", "waiting"}
  BY QuietUnbegun DEF LoadFails, IInv, InStep, ServerInStep
<1> QED  BY <1>1, <1>2, <1>3, <1>4, <1>5, ServerKeeps

LEMMA RebootedKeeps ==
    ASSUME IInv, NEW n \in Nodes, Rebooted(n) PROVE IInv'
<1>1. ServerOnly(n)
  BY DEF Rebooted, IInv, TypeOK, ServerOnly, Vms, Posts, link
<1>2. InStep(n)'
  <2>1. /\ vm[n] = "rebooting" /\ vm'[n] = "ready"
        /\ post'[n] = post[n] /\ linked'[n] = linked[n]
    BY DEF Rebooted, IInv, TypeOK, link
  <2>2. UNCHANGED <<state, task, chunk, held, results, nodes, first, ended>>
    BY <1>1 DEF ServerOnly, link, fleet, client
  <2> QED  BY <2>1, <2>2 DEF IInv, InStep, TaskInStep, StateInStep, ServerInStep,
              FailureInStep, Excused, ToSet
<1>3. StaysExcused(n)
  BY <1>1 DEF Rebooted, IInv, TypeOK, InStep, TaskInStep, ServerInStep, StaysExcused,
     Excused, link
<1>4. vm'[n] = "left" => vm[n] = "left"
  BY DEF Rebooted, IInv, TypeOK
<1>5. driver \notin {"starting", "waiting"}
  BY QuietUnbegun DEF Rebooted, IInv, InStep, ServerInStep
<1> QED  BY <1>1, <1>2, <1>3, <1>4, <1>5, ServerKeeps

LEMMA AssignedKeeps ==
    ASSUME IInv, NEW n \in Nodes, Assigned(n) PROVE IInv'
<1>1. ServerOnly(n)
  BY DEF Assigned, IInv, TypeOK, ServerOnly, Vms, Posts, link
<1>2. InStep(n)'
  <2>1. /\ vm[n] = "loading" /\ vm'[n] = "working"
        /\ post'[n] = (IF linked[n] THEN "200" ELSE post[n]) /\ ~linked'[n]
    BY DEF Assigned, IInv, TypeOK, link
  <2>2. UNCHANGED <<state, task, chunk, held, results, nodes, first, ended>>
    BY <1>1 DEF ServerOnly, link, fleet, client
  <2> QED  BY <2>1, <2>2 DEF IInv, InStep, TaskInStep, StateInStep, ServerInStep,
              FailureInStep, Excused, ToSet
<1>3. StaysExcused(n)
  BY <1>1 DEF Assigned, IInv, TypeOK, InStep, TaskInStep, ServerInStep, StaysExcused,
     Excused, link
<1>4. vm'[n] = "left" => vm[n] = "left"
  BY DEF Assigned, IInv, TypeOK
<1>5. driver \notin {"starting", "waiting"}
  BY QuietUnbegun DEF Assigned, IInv, InStep, ServerInStep
<1> QED  BY <1>1, <1>2, <1>3, <1>4, <1>5, ServerKeeps

LEMMA CutKeeps ==
    ASSUME IInv, NEW n \in Nodes, Cut(n), "answer" \notin Faults PROVE IInv'
<1>1. ServerOnly(n)
  BY FaultTyped DEF Cut, Post, IInv, TypeOK, ServerOnly, Vms, Posts, link
<1>2. InStep(n)'
  <2>1. /\ linked[n] /\ vm[n] = "arriving" /\ vm'[n] = vm[n]
        /\ post'[n] = "cut" /\ ~linked'[n]
    BY DEF Cut, Post, Fault, IInv, TypeOK, link
  <2>2. UNCHANGED <<state, task, chunk, held, results, nodes, first, ended>>
    BY <1>1 DEF ServerOnly, link, fleet, client
  <2> QED  BY <2>1, <2>2 DEF IInv, InStep, TaskInStep, StateInStep, ServerInStep,
              FailureInStep, Excused, ToSet
<1>3. StaysExcused(n)
  BY <1>1 DEF Cut, Post, Fault, IInv, TypeOK, InStep, TaskInStep, ServerInStep, StaysExcused,
     Excused, link
<1>4. vm'[n] = "left" => vm[n] = "left"
  BY DEF Cut, Post, IInv, TypeOK
<1>5. driver \notin {"starting", "waiting"}
  BY QuietUnbegun DEF Cut, IInv, InStep, ServerInStep
<1> QED  BY <1>1, <1>2, <1>3, <1>4, <1>5, ServerKeeps

LEMMA TakeBackKeeps ==
    ASSUME IInv, NEW n \in Nodes, TakeBack(n) PROVE IInv'
<1>1. ServerOnly(n)
  BY DEF TakeBack, IInv, TypeOK, ServerOnly, Vms, Posts, link
<1>2. InStep(n)'
  <2>1. vm[n] = "arriving" /\ ~linked[n] /\ vm'[n] = "ready" /\ post'[n] = post[n]
        /\ linked'[n] = linked[n]
    BY DEF TakeBack, IInv, TypeOK, link
  <2>2. UNCHANGED <<state, task, chunk, held, results, nodes, first, ended>>
    BY DEF TakeBack, link, fleet, client
  <2> QED  BY <2>1, <2>2 DEF IInv, InStep, TaskInStep, StateInStep, ServerInStep,
              FailureInStep, Excused, ToSet
<1>3. StaysExcused(n)
  BY <1>1 DEF TakeBack, IInv, TypeOK, InStep, TaskInStep, ServerInStep, StaysExcused,
     Excused, link
<1>4. vm'[n] = "left" => vm[n] = "left"
  BY DEF TakeBack, IInv, TypeOK
<1>5. driver \notin {"starting", "waiting"}
  BY QuietUnbegun DEF TakeBack, IInv, InStep, ServerInStep
<1> QED  BY <1>1, <1>2, <1>3, <1>4, <1>5, ServerKeeps

LEMMA StopsKeeps ==
    ASSUME IInv, NEW n \in Nodes, Stops(n) PROVE IInv'
<1>1. ServerOnly(n)
  BY FaultTyped DEF Stops, IInv, TypeOK, ServerOnly, Vms, Posts, link
<1>2. InStep(n)'
  <2>1. /\ vm[n] = "ready" /\ vm'[n] = "stopping"
        /\ post'[n] = post[n] /\ linked'[n] = linked[n]
    BY DEF Stops, IInv, TypeOK, link
  <2>2. UNCHANGED <<state, task, chunk, held, results, nodes, first, ended>>
    BY <1>1 DEF ServerOnly, link, fleet, client
  <2> QED  BY <2>1, <2>2 DEF IInv, InStep, TaskInStep, StateInStep, ServerInStep,
              FailureInStep, Excused, ToSet
<1>3. StaysExcused(n)
  BY <1>1 DEF Stops, Fault, IInv, TypeOK, InStep, TaskInStep, ServerInStep, StaysExcused,
     Excused, link
<1>4. vm'[n] = "left" => vm[n] = "left"
  BY DEF Stops, IInv, TypeOK
<1>5. driver \notin {"starting", "waiting"}
  BY QuietUnbegun DEF Stops, IInv, InStep, ServerInStep
<1> QED  BY <1>1, <1>2, <1>3, <1>4, <1>5, ServerKeeps

LEMMA HeadBootsReplacementKeeps ==
    ASSUME IInv, NEW n \in Nodes, HeadBootsReplacement(n) PROVE IInv'
<1>1. ServerOnly(n)
  BY DEF HeadBootsReplacement, IInv, TypeOK, ServerOnly, Vms, Posts, link
<1>2. InStep(n)'
  <2>1. /\ vm[n] = "none" /\ vm'[n] = "booting"
        /\ post'[n] = post[n] /\ linked'[n] = linked[n]
    BY DEF HeadBootsReplacement, IInv, TypeOK, link
  <2>2. UNCHANGED <<state, task, chunk, held, results, nodes, first, ended>>
    BY <1>1 DEF ServerOnly, link, fleet, client
  <2> QED  BY <2>1, <2>2 DEF IInv, InStep, TaskInStep, StateInStep, ServerInStep,
              FailureInStep, Excused, ToSet
<1>3. driver \in {"driving", "passing"}
  BY DEF HeadBootsReplacement, Driving
<1>4. vm'[n] = "left" => vm[n] = "left"
  BY DEF HeadBootsReplacement, IInv, TypeOK
<1> QED  BY <1>1, <1>2, <1>3, <1>4, ServerKeeps

LEMMA LeavesDrainedKeeps ==
    ASSUME IInv, NEW n \in Nodes, LeavesDrained(n), ~SlowAssign PROVE IInv'
<1>1. ServerOnly(n)
  BY DEF LeavesDrained, IInv, TypeOK, ServerOnly, Vms, Posts, link
<1>2. InStep(n)'
  <2>1. /\ vm[n] = "working" /\ vm'[n] = "left" /\ results[n] = {}
        /\ post'[n] = post[n] /\ linked'[n] = linked[n]
    BY DEF LeavesDrained, IInv, TypeOK, link
  <2>2. UNCHANGED <<state, task, chunk, held, results, nodes, first, ended>>
    BY <1>1 DEF ServerOnly, link, fleet, client
  <2> QED  BY <2>1, <2>2 DEF IInv, InStep, TaskInStep, StateInStep, ServerInStep,
              FailureInStep, Excused, ToSet
<1>3. StaysExcused(n)
  BY <1>1 DEF LeavesDrained, IInv, TypeOK, InStep, TaskInStep, ServerInStep, StaysExcused,
     Excused, link
<1>4. Drained
  BY DEF LeavesDrained, IInv, TypeOK, Drained
<1>5. driver \notin {"starting", "waiting"}
  BY QuietUnbegun DEF LeavesDrained
<1> QED  BY <1>1, <1>2, <1>3, <1>4, <1>5, ServerKeeps

LEMMA VmLostKeeps ==
    ASSUME IInv, NEW n \in Nodes, VmLost(n) PROVE IInv'
<1>1. ServerOnly(n)
  BY FaultTyped DEF VmLost, IInv, TypeOK, ServerOnly, Vms, Posts, link
<1>2. InStep(n)'
  <2>1. /\ vm[n] = "working" \/ (vm[n] \in {"ready", "arriving", "loading"} /\ "lostEarly" \in Faults)
        /\ vm'[n] = "gone"
        /\ post'[n] = (IF linked[n] THEN "cut" ELSE post[n]) /\ ~linked'[n]
    BY DEF VmLost, Fault, IInv, TypeOK, link
  <2>2. UNCHANGED <<state, task, chunk, held, results, nodes, first, ended>>
    BY <1>1 DEF ServerOnly, link, fleet, client
  <2> QED  BY <2>1, <2>2 DEF IInv, InStep, TaskInStep, StateInStep, ServerInStep,
              FailureInStep, Excused, ToSet
<1>3. StaysExcused(n)
  BY <1>1 DEF VmLost, Fault, IInv, TypeOK, InStep, TaskInStep, ServerInStep, StaysExcused,
     Excused, link
<1>4. vm'[n] = "left" => vm[n] = "left"
  BY DEF VmLost, IInv, TypeOK
<1>5. driver \notin {"starting", "waiting"}
  BY QuietUnbegun DEF VmLost, IInv, InStep, ServerInStep
<1> QED  BY <1>1, <1>2, <1>3, <1>4, <1>5, ServerKeeps

LEMMA SendAssignKeeps ==
    ASSUME IInv, NEW n \in Nodes, SendAssign(n) PROVE IInv'
<1>1. ServerOnly(n)
  BY DEF SendAssign, Post, server, IInv, TypeOK, ServerOnly, Vms, Posts, link
<1>2. InStep(n)'
  <2>1. /\ task[n] = "assign" /\ post[n] \in {"none", "cut"} /\ post'[n] = "sent"
        /\ vm'[n] = vm[n] /\ linked'[n] = linked[n]
    BY DEF SendAssign, Post, server, IInv, TypeOK, link
  <2>2. UNCHANGED <<state, task, chunk, held, results, nodes, first, ended>>
    BY <1>1 DEF ServerOnly, link, fleet, client
  <2> QED  BY <2>1, <2>2 DEF IInv, InStep, TaskInStep, StateInStep, ServerInStep,
              FailureInStep, Excused, ToSet
<1>3. driver \in {"driving", "passing"}
  BY DEF SendAssign, Driving
<1>4. vm'[n] = "left" => vm[n] = "left"
  BY DEF SendAssign, Post, server, IInv, TypeOK
<1> QED  BY <1>1, <1>2, <1>3, <1>4, ServerKeeps

LEMMA GatewayRetryKeeps ==
    ASSUME IInv, NEW n \in Nodes, GatewayRetry(n) PROVE IInv'
<1>1. ServerOnly(n)
  BY DEF GatewayRetry, Post, server, IInv, TypeOK, ServerOnly, Vms, Posts, link
<1>2. InStep(n)'
  <2>1. /\ task[n] = "assign" /\ post[n] = "502" /\ post'[n] = "sent"
        /\ vm'[n] = vm[n] /\ linked'[n] = linked[n]
    BY DEF GatewayRetry, Post, server, IInv, TypeOK, link
  <2>2. UNCHANGED <<state, task, chunk, held, results, nodes, first, ended>>
    BY <1>1 DEF ServerOnly, link, fleet, client
  <2> QED  BY <2>1, <2>2 DEF IInv, InStep, TaskInStep, StateInStep, ServerInStep,
              FailureInStep, Excused, ToSet
<1>3. driver \in {"driving", "passing"}
  BY DEF GatewayRetry, Driving
<1>4. vm'[n] = "left" => vm[n] = "left"
  BY DEF GatewayRetry, Post, server, IInv, TypeOK
<1> QED  BY <1>1, <1>2, <1>3, <1>4, ServerKeeps

-----------------------------------------------------------------------------
(* The tasks of the client.                                                 *)

States == {"none", "BOOTING", "READY", "RUNNING", "REMOVED", "FAILED", "DONE"}
Places == {"none", "boot", "assign", "failing", "chunk", "upload", "barrier", "poll",
           "returned", "raised"}

(* A step that concerns the task of one node and moves no input. *)
TaskOnly(n) ==
    /\ Driving
    /\ UNCHANGED <<driver, error, start, nodes, first, client, post, vm, linked, held,
                   results, got, ended>>
    /\ \A m \in Nodes \ {n} : state'[m] = state[m] /\ task'[m] = task[m]
    /\ state' \in [Nodes -> States] /\ task' \in [Nodes -> Places]
    /\ broken' \in BOOLEAN /\ through' \subseteq first /\ faults' \in 0..MaxFaults

LEMMA TaskKeeps ==
    ASSUME IInv, NEW n \in Nodes, TaskOnly(n), InStep(n)',
           state'[n] = "DONE" => vm[n] = "left" \/ state[n] = "DONE"
    PROVE  IInv'
<1> USE DEF client
<1>1. TypeOK'
  BY DEF IInv, TypeOK, TaskOnly, States, Places, start
<1>2. \A m \in Nodes : InStep(m)'
  <2> SUFFICES ASSUME NEW m \in Nodes \ {n} PROVE InStep(m)'
    OBVIOUS
  <2>1. m \in ToSet(nodes)' <=> m \in ToSet(nodes)
    BY DEF ToSet, TaskOnly
  <2> QED  BY <2>1, OtherInStep DEF IInv, TaskOnly
<1>3. Quiet' /\ LeftDrained'
  <2>1. Drained' = Drained
    BY DEF Drained, TaskOnly
  <2> QED  BY <2>1 DEF IInv, LeftDrained, TaskOnly, Quiet, Driving
<1>4. ListsOwned' /\ UploadInStep' /\ Conserved'
  BY PlacesKept DEF TaskOnly
<1>5. ErrorInStep'
  BY ErrorStays DEF TaskOnly, Driving
<1> QED  BY <1>1, <1>2, <1>3, <1>4, <1>5 DEF IInv

LEMMA SeesReadyKeeps ==
    ASSUME IInv, NEW n \in Nodes, SeesReady(n) PROVE IInv'
<1>1. TaskOnly(n)
  BY DEF SeesReady, IInv, TypeOK, InStep, TaskInStep, TaskOnly, States, Places, link, fleet,
     client, server
<1>3. InStep(n)'
  <2>1. task[n] = "boot" /\ vm[n] = "ready" /\ task'[n] = "assign" /\ state'[n] = "READY"
    BY DEF SeesReady, IInv, TypeOK
  <2>2. UNCHANGED <<post, vm, linked, chunk, held, results, nodes, first, ended>>
    BY <1>1 DEF TaskOnly, client
  <2> QED  BY <2>1, <2>2 DEF IInv, InStep, TaskInStep, StateInStep, ServerInStep,
              FailureInStep, Excused, ToSet
<1>4. state'[n] = "DONE" => vm[n] = "left" \/ state[n] = "DONE"
  BY DEF SeesReady, IInv, TypeOK, link
<1> QED  BY <1>1, <1>3, <1>4, TaskKeeps

LEMMA SeesFailedKeeps ==
    ASSUME IInv, NEW n \in Nodes, SeesFailed(n) PROVE IInv'
<1>1. TaskOnly(n)
  BY DEF SeesFailed, BadBoot, StateAfterBadBoot, IInv, TypeOK, InStep, TaskInStep, TaskOnly,
     States, Places, link, fleet, client, server
<1>3. InStep(n)'
  <2>1. /\ task[n] = "boot" /\ vm[n] = "failed" /\ task'[n] = "returned"
        /\ state'[n] = IF n \in Late THEN "REMOVED" ELSE "FAILED"
    BY DEF SeesFailed, BadBoot, StateAfterBadBoot, IInv, TypeOK, link
  <2>2. UNCHANGED <<post, vm, linked, chunk, held, results, nodes, first, ended>>
    BY <1>1 DEF TaskOnly, client
  <2> QED  BY <2>1, <2>2 DEF IInv, InStep, TaskInStep, StateInStep, ServerInStep,
              FailureInStep, Excused, ToSet
<1>4. state'[n] = "DONE" => vm[n] = "left" \/ state[n] = "DONE"
  BY DEF SeesFailed, BadBoot, StateAfterBadBoot, IInv, TypeOK, link
<1> QED  BY <1>1, <1>3, <1>4, TaskKeeps

LEMMA SeesGoneKeeps ==
    ASSUME IInv, NEW n \in Nodes, SeesGone(n) PROVE IInv'
<1>1. TaskOnly(n)
  BY DEF SeesGone, TaskRaises, GoneForGood, IInv, TypeOK, InStep, TaskInStep, TaskOnly,
     States, Places, link, fleet, client, server
<1>3. InStep(n)'
  <2>1. /\ task[n] = "boot" /\ ended /\ task'[n] = "raised"
        /\ state'[n] = state[n]
    BY DEF SeesGone, GoneForGood, TaskRaises, IInv, TypeOK, link
  <2>2. UNCHANGED <<post, vm, linked, chunk, held, results, nodes, first, ended>>
    BY <1>1 DEF TaskOnly, client
  <2> QED  BY <2>1, <2>2 DEF IInv, InStep, TaskInStep, StateInStep, ServerInStep,
              FailureInStep, Excused, ToSet
<1>4. state'[n] = "DONE" => vm[n] = "left" \/ state[n] = "DONE"
  BY DEF SeesGone, TaskRaises, GoneForGood, IInv, TypeOK, link
<1> QED  BY <1>1, <1>3, <1>4, TaskKeeps

LEMMA BootDeadlineKeeps ==
    ASSUME IInv, NEW n \in Nodes, BootDeadline(n) PROVE IInv'
<1>1. TaskOnly(n)
  BY DEF BootDeadline, BadBoot, StateAfterBadBoot, GoneForGood, IInv, TypeOK, InStep,
     TaskInStep, TaskOnly, States, Places, link, fleet, client, server
<1>3. InStep(n)'
  <2>1. /\ task[n] = "boot" /\ vm[n] \in {"gone", "hung", "stopping"} /\ task'[n] = "returned"
        /\ state'[n] = IF n \in Late THEN "REMOVED" ELSE "FAILED"
        /\ vm[n] = "gone" => ~ended
    BY DEF BootDeadline, BadBoot, StateAfterBadBoot, GoneForGood, IInv, TypeOK
  <2>2. UNCHANGED <<post, vm, linked, chunk, held, results, nodes, first, ended>>
    BY <1>1 DEF TaskOnly, client
  <2> QED  BY <2>1, <2>2 DEF IInv, InStep, TaskInStep, StateInStep, ServerInStep,
              FailureInStep, Excused, ToSet
<1>4. state'[n] = "DONE" => vm[n] = "left" \/ state[n] = "DONE"
  BY DEF BootDeadline, BadBoot, StateAfterBadBoot, GoneForGood, IInv, TypeOK, link
<1> QED  BY <1>1, <1>3, <1>4, TaskKeeps

LEMMA StatusLostKeeps ==
    ASSUME IInv, NEW n \in Nodes, StatusLost(n) PROVE IInv'
<1>1. TaskOnly(n)
  BY FaultTyped DEF StatusLost, TaskRaises, IInv, TypeOK, InStep, TaskInStep, TaskOnly,
     States, Places, link, fleet, client, server
<1>3. InStep(n)'
  <2>1. /\ task[n] = "boot" /\ task'[n] = "raised"
        /\ state'[n] = state[n]
    BY DEF StatusLost, TaskRaises, IInv, TypeOK, link
  <2>2. UNCHANGED <<post, vm, linked, chunk, held, results, nodes, first, ended>>
    BY <1>1 DEF TaskOnly, client
  <2> QED  BY <2>1, <2>2 DEF IInv, InStep, TaskInStep, StateInStep, ServerInStep,
              FailureInStep, Excused, ToSet
<1>4. state'[n] = "DONE" => vm[n] = "left" \/ state[n] = "DONE"
  BY DEF StatusLost, TaskRaises, IInv, TypeOK, link
<1> QED  BY <1>1, <1>3, <1>4, TaskKeeps

LEMMA AssignOKKeeps ==
    ASSUME IInv, NEW n \in Nodes, AssignOK(n) PROVE IInv'
<1>1. TaskOnly(n)
  BY DEF AssignOK, IInv, TypeOK, InStep, TaskInStep, TaskOnly, States, Places, link, fleet,
     client, server
<1>3. InStep(n)'
  <2>1. /\ task[n] = "assign" /\ post[n] = "200"
        /\ task'[n] = "chunk" /\ state'[n] = "RUNNING"
    BY DEF AssignOK, IInv, TypeOK, link
  <2>2. UNCHANGED <<post, vm, linked, chunk, held, results, nodes, first, ended>>
    BY <1>1 DEF TaskOnly, client
  <2> QED  BY <2>1, <2>2 DEF IInv, InStep, TaskInStep, StateInStep, ServerInStep,
              FailureInStep, Excused, ToSet
<1>4. state'[n] = "DONE" => vm[n] = "left" \/ state[n] = "DONE"
  BY DEF AssignOK, IInv, TypeOK, link
<1> QED  BY <1>1, <1>3, <1>4, TaskKeeps

LEMMA AssignRefusedKeeps ==
    ASSUME IInv, NEW n \in Nodes, AssignRefused(n) PROVE IInv'
<1>1. TaskOnly(n)
  BY DEF AssignRefused, Drop, DroppedByRefusal, AbortBarrier, IInv, TypeOK, InStep,
     TaskInStep, TaskOnly, States, Places, link, fleet, client, server
<1>3. InStep(n)'
  <2>1. /\ task[n] = "assign" /\ post[n] \in {"409", "500", "502", "503"}
        /\ task'[n] = "returned" /\ state'[n] = "REMOVED"
    BY DEF AssignRefused, Drop, DroppedByRefusal, IInv, TypeOK, link
  <2>2. UNCHANGED <<post, vm, linked, chunk, held, results, nodes, first, ended>>
    BY <1>1 DEF TaskOnly, client
  <2> QED  BY <2>1, <2>2 DEF IInv, InStep, TaskInStep, StateInStep, ServerInStep,
              FailureInStep, Excused, ToSet
<1>4. state'[n] = "DONE" => vm[n] = "left" \/ state[n] = "DONE"
  BY DEF AssignRefused, Drop, DroppedByRefusal, AbortBarrier, IInv, TypeOK, link
<1> QED  BY <1>1, <1>3, <1>4, TaskKeeps

LEMMA AssignUnauthorizedKeeps ==
    ASSUME IInv, NEW n \in Nodes, AssignUnauthorized(n) PROVE IInv'
<1>1. TaskOnly(n)
  BY DEF AssignUnauthorized, TaskRaises, IInv, TypeOK, InStep, TaskInStep, TaskOnly, States,
     Places, link, fleet, client, server
<1>3. InStep(n)'
  <2>1. /\ task[n] = "assign" /\ post[n] = "401" /\ task'[n] = "raised"
        /\ state'[n] = state[n]
    BY DEF AssignUnauthorized, TaskRaises, IInv, TypeOK, link
  <2>2. UNCHANGED <<post, vm, linked, chunk, held, results, nodes, first, ended>>
    BY <1>1 DEF TaskOnly, client
  <2> QED  BY <2>1, <2>2 DEF IInv, InStep, TaskInStep, StateInStep, ServerInStep,
              FailureInStep, Excused, ToSet
<1>4. state'[n] = "DONE" => vm[n] = "left" \/ state[n] = "DONE"
  BY DEF AssignUnauthorized, TaskRaises, IInv, TypeOK, link
<1> QED  BY <1>1, <1>3, <1>4, TaskKeeps

LEMMA GiveUpKeeps ==
    ASSUME IInv, NEW n \in Nodes, GiveUp(n) PROVE IInv'
<1>1. TaskOnly(n)
  BY DEF GiveUp, IInv, TypeOK, InStep, TaskInStep, TaskOnly, States, Places, link, fleet,
     client, server
<1>3. InStep(n)'
  <2>1. /\ task[n] = "assign" /\ post[n] = "cut" /\ vm[n] = "gone"
        /\ task'[n] = "failing" /\ state'[n] = "FAILED"
    BY DEF GiveUp, IInv, TypeOK, link
  <2>2. UNCHANGED <<post, vm, linked, chunk, held, results, nodes, first, ended>>
    BY <1>1 DEF TaskOnly, client
  <2> QED  BY <2>1, <2>2 DEF IInv, InStep, TaskInStep, StateInStep, ServerInStep,
              FailureInStep, Excused, ToSet
<1>4. state'[n] = "DONE" => vm[n] = "left" \/ state[n] = "DONE"
  BY DEF GiveUp, IInv, TypeOK, link
<1> QED  BY <1>1, <1>3, <1>4, TaskKeeps

LEMMA GivenUpKeeps ==
    ASSUME IInv, NEW n \in Nodes, GivenUp(n) PROVE IInv'
<1>1. TaskOnly(n)
  BY DEF GivenUp, Drop, DroppedByRefusal, AbortBarrier, IInv, TypeOK, InStep, TaskInStep,
     TaskOnly, States, Places, link, fleet, client, server
<1>3. InStep(n)'
  <2>1. task[n] = "failing" /\ task'[n] = "returned" /\ state'[n] = "REMOVED"
    BY DEF GivenUp, Drop, DroppedByRefusal, IInv, TypeOK, link
  <2>2. UNCHANGED <<post, vm, linked, chunk, held, results, nodes, first, ended>>
    BY <1>1 DEF TaskOnly, client
  <2> QED  BY <2>1, <2>2 DEF IInv, InStep, TaskInStep, StateInStep, ServerInStep,
              FailureInStep, Excused, ToSet
<1>4. state'[n] = "DONE" => vm[n] = "left" \/ state[n] = "DONE"
  BY DEF GivenUp, Drop, DroppedByRefusal, AbortBarrier, IInv, TypeOK, link
<1> QED  BY <1>1, <1>3, <1>4, TaskKeeps

LEMMA NothingToUploadKeeps ==
    ASSUME IInv, NEW n \in Nodes, NothingToUpload(n) PROVE IInv'
<1>1. TaskOnly(n)
  BY DEF NothingToUpload, AfterUpload, IInv, TypeOK, InStep, TaskInStep, TaskOnly, States,
     Places, link, fleet, client, server
<1>3. InStep(n)'
  <2>1. /\ task[n] = "chunk" /\ task'[n] \in {"barrier", "poll"}
        /\ task'[n] = "barrier" => n \in first
        /\ state'[n] = state[n]
    BY DEF NothingToUpload, AfterUpload, IInv, TypeOK, link
  <2>2. UNCHANGED <<post, vm, linked, chunk, held, results, nodes, first, ended>>
    BY <1>1 DEF TaskOnly, client
  <2> QED  BY <2>1, <2>2 DEF IInv, InStep, TaskInStep, StateInStep, ServerInStep,
              FailureInStep, Excused, ToSet
<1>4. state'[n] = "DONE" => vm[n] = "left" \/ state[n] = "DONE"
  BY DEF NothingToUpload, AfterUpload, IInv, TypeOK, link
<1> QED  BY <1>1, <1>3, <1>4, TaskKeeps

LEMMA UploadFailsKeeps ==
    ASSUME IInv, NEW n \in Nodes, UploadFails(n) PROVE IInv'
<1>1. TaskOnly(n)
  BY DEF UploadFails, TaskRaises, IInv, TypeOK, InStep, TaskInStep, TaskOnly, States, Places,
     link, fleet, client, server
<1>2. vm[n] # "left"
  BY DEF UploadFails, TaskRaises, IInv, InStep, TaskInStep, LeftDrained, Drained
<1>3. InStep(n)'
  <2>1. /\ task[n] = "upload" /\ vm[n] = "gone" /\ task'[n] = "raised"
        /\ state'[n] = state[n]
    BY <1>2 DEF UploadFails, TaskRaises, IInv, TypeOK, link
  <2>2. UNCHANGED <<post, vm, linked, chunk, held, results, nodes, first, ended>>
    BY <1>1 DEF TaskOnly, client
  <2> QED  BY <2>1, <2>2 DEF IInv, InStep, TaskInStep, StateInStep, ServerInStep,
              FailureInStep, Excused, ToSet
<1>4. state'[n] = "DONE" => vm[n] = "left" \/ state[n] = "DONE"
  BY DEF UploadFails, TaskRaises, IInv, TypeOK, link
<1> QED  BY <1>1, <1>3, <1>4, TaskKeeps

LEMMA PollDoneKeeps ==
    ASSUME IInv, NEW n \in Nodes, PollDone(n) PROVE IInv'
<1>1. TaskOnly(n)
  BY DEF PollDone, IInv, TypeOK, InStep, TaskInStep, TaskOnly, States, Places, link, fleet,
     client, server
<1>3. InStep(n)'
  <2>1. task[n] = "poll" /\ vm[n] = "left" /\ task'[n] = "returned" /\ state'[n] = "DONE"
    BY DEF PollDone, IInv, TypeOK, link
  <2>2. UNCHANGED <<post, vm, linked, chunk, held, results, nodes, first, ended>>
    BY <1>1 DEF TaskOnly, client
  <2> QED  BY <2>1, <2>2 DEF IInv, InStep, TaskInStep, StateInStep, ServerInStep,
              FailureInStep, Excused, ToSet
<1>4. state'[n] = "DONE" => vm[n] = "left" \/ state[n] = "DONE"
  BY DEF PollDone, IInv, TypeOK, link
<1> QED  BY <1>1, <1>3, <1>4, TaskKeeps

LEMMA PollFailsKeeps ==
    ASSUME IInv, NEW n \in Nodes, PollFails(n) PROVE IInv'
<1>1. TaskOnly(n)
  BY DEF PollFails, TaskRaises, IInv, TypeOK, InStep, TaskInStep, TaskOnly, States, Places,
     link, fleet, client, server
<1>3. InStep(n)'
  <2>1. /\ task[n] = "poll" /\ vm[n] = "gone" /\ task'[n] = "raised"
        /\ state'[n] = IF ended THEN state[n] ELSE "FAILED"
    BY DEF PollFails, TaskRaises, IInv, TypeOK, link
  <2>2. UNCHANGED <<post, vm, linked, chunk, held, results, nodes, first, ended>>
    BY <1>1 DEF TaskOnly, client
  <2> QED  BY <2>1, <2>2 DEF IInv, InStep, TaskInStep, StateInStep, ServerInStep,
              FailureInStep, Excused, ToSet
<1>4. state'[n] = "DONE" => vm[n] = "left" \/ state[n] = "DONE"
  BY DEF PollFails, TaskRaises, IInv, TypeOK, link
<1> QED  BY <1>1, <1>3, <1>4, TaskKeeps

LEMMA BarrierBrokenKeeps ==
    ASSUME IInv, NEW n \in Nodes, BarrierBroken(n) PROVE IInv'
<1>1. TaskOnly(n)
  BY DEF BarrierBroken, IInv, TypeOK, InStep, TaskInStep, TaskOnly, States, Places, link,
     fleet, client, server
<1>3. InStep(n)'
  <2>1. /\ task[n] = "barrier" /\ task'[n] = "poll"
        /\ state'[n] = state[n]
    BY DEF BarrierBroken, IInv, TypeOK, link
  <2>2. UNCHANGED <<post, vm, linked, chunk, held, results, nodes, first, ended>>
    BY <1>1 DEF TaskOnly, client
  <2> QED  BY <2>1, <2>2 DEF IInv, InStep, TaskInStep, StateInStep, ServerInStep,
              FailureInStep, Excused, ToSet
<1>4. state'[n] = "DONE" => vm[n] = "left" \/ state[n] = "DONE"
  BY DEF BarrierBroken, IInv, TypeOK, link
<1> QED  BY <1>1, <1>3, <1>4, TaskKeeps

-----------------------------------------------------------------------------
(* What moves inputs.                                                       *)

LEMMA PopChunkKeeps ==
    ASSUME IInv, NEW n \in Nodes, PopChunk(n) PROVE IInv'
<1>1. PICK c \in (SUBSET lists[KeyOf(n)]) \ {{}} :
        /\ chunk' = [chunk EXCEPT ![n] = c]
        /\ lists' = [lists EXCEPT ![KeyOf(n)] = @ \ c]
  BY DEF PopChunk
<1>2. /\ Driving /\ task[n] = "chunk" /\ task' = [task EXCEPT ![n] = "upload"]
      /\ UNCHANGED <<driver, error, start, fleet, pass, state, post, server, got, ended, faults>>
  BY DEF PopChunk
<1>3. KeyOf(n) \in Nodes \cup {Shared} /\ lists[KeyOf(n)] # {}
  BY KeyTyped DEF PopChunk
<1>4. /\ \A k \in Nodes \cup {Shared} : lists'[k] \subseteq lists[k]
      /\ \A k \in Nodes \cup {Shared} : \A i \in lists[k] : i \in lists'[k] \/ i \in c
      /\ lists' \in [Nodes \cup {Shared} -> SUBSET Inputs] /\ c \subseteq Inputs /\ c # {}
  BY <1>1, <1>3 DEF IInv, TypeOK
<1>5. /\ \A m \in Nodes \ {n} : chunk'[m] = chunk[m] /\ task'[m] = task[m]
      /\ chunk'[n] = c /\ task'[n] = "upload" /\ chunk[n] = {}
  BY <1>1, <1>2 DEF IInv, TypeOK, InStep, TaskInStep
<1>6. TypeOK'
  <2>1. chunk' \in [Nodes -> SUBSET Inputs]
    BY <1>1, <1>4 DEF IInv, TypeOK
  <2>2. task' \in [Nodes -> Places]
    BY <1>2 DEF IInv, TypeOK, Places
  <2> QED  BY <1>2, <1>4, <2>1, <2>2 DEF IInv, TypeOK, Places, start, fleet, server
<1>7. ASSUME NEW m \in Nodes PROVE InStep(m)'
  <2>1. CASE m # n
    BY <1>2, <1>5, <2>1, OtherInStep DEF IInv, ToSet, fleet, server
  <2>2. CASE m = n
    BY <1>2, <1>4, <1>5, <2>2 DEF IInv, InStep, TaskInStep, StateInStep, ServerInStep,
      FailureInStep, Excused, ToSet, fleet, server
  <2> QED  BY <2>1, <2>2
<1>8. Quiet' /\ LeftDrained' /\ UploadInStep'
  <2>1. ~Drained /\ ~done /\ ~told
    BY <1>3 DEF IInv, Drained, UploadInStep, TypeOK
  <2> QED  BY <1>2, <2>1 DEF IInv, LeftDrained, Quiet, Driving, UploadInStep, server
<1>9. ListsOwned'
  BY <1>2, <1>4, KeyKept DEF IInv, ListsOwned, fleet
<1>10. Conserved'
  <2> SUFFICES ASSUME NEW i \in Inputs PROVE Somewhere(i)'
    BY DEF Conserved, Inputs
  <2>1. Somewhere(i)
    BY <1>2 DEF IInv, Conserved, Holding, Driving
  <2>2. CASE \E k \in Nodes \cup {Shared} : i \in lists[k]
    BY <2>2, <1>4, <1>5 DEF Somewhere
  <2>3. CASE i \in got \/ \E m \in Nodes : i \in chunk[m] \cup held[m] \cup results[m]
    BY <2>3, <1>2, <1>5 DEF Somewhere, server
  <2> QED  BY <2>1, <2>2, <2>3 DEF Somewhere
<1>11. ErrorInStep'
  BY <1>2, ErrorStays DEF Driving, fleet
<1> QED  BY <1>6, <1>7, <1>8, <1>9, <1>10, <1>11 DEF IInv

LEMMA UploadedKeeps ==
    ASSUME IInv, NEW n \in Nodes, Uploaded(n) PROVE IInv'
<1>1. /\ Driving /\ task[n] = "upload" /\ vm[n] = "working"
      /\ held' = [held EXCEPT ![n] = @ \cup chunk[n]]
      /\ chunk' = [chunk EXCEPT ![n] = {}]
      /\ task' = [task EXCEPT ![n] = AfterUpload(n)]
      /\ UNCHANGED <<driver, error, start, fleet, lists, pass, state, post, vm, linked,
                     results, got, ended, faults>>
  BY DEF Uploaded
<1>2. /\ \A m \in Nodes \ {n} : chunk'[m] = chunk[m] /\ task'[m] = task[m] /\ held'[m] = held[m]
      /\ chunk'[n] = {} /\ held'[n] = held[n] \cup chunk[n] /\ task'[n] \in {"barrier", "poll"}
      /\ task'[n] = "barrier" => n \in first
  BY <1>1 DEF IInv, TypeOK, AfterUpload
<1>3. TypeOK'
  <2>1. chunk' \in [Nodes -> SUBSET Inputs] /\ held' \in [Nodes -> SUBSET Inputs]
    BY <1>1 DEF IInv, TypeOK
  <2>2. task' \in [Nodes -> Places]
    BY <1>1 DEF IInv, TypeOK, Places, AfterUpload
  <2> QED  BY <1>1, <2>1, <2>2 DEF IInv, TypeOK, Places, start, fleet
<1>4. ASSUME NEW m \in Nodes PROVE InStep(m)'
  <2>1. CASE m # n
    BY <1>1, <1>2, <2>1, OtherInStep DEF IInv, ToSet, fleet
  <2>2. CASE m = n
    BY <1>1, <1>2, <2>2 DEF IInv, InStep, TaskInStep, StateInStep, ServerInStep,
      FailureInStep, Excused, ToSet, fleet
  <2> QED  BY <2>1, <2>2
<1>5. Quiet' /\ LeftDrained' /\ UploadInStep' /\ ListsOwned'
  <2>1. ~Drained
    BY <1>1 DEF IInv, InStep, TaskInStep, Drained
  <2> QED  BY <1>1, <2>1, KeyKept DEF IInv, LeftDrained, Quiet, Driving, UploadInStep,
             ListsOwned, fleet
<1>6. Conserved'
  <2> SUFFICES ASSUME NEW i \in Inputs PROVE Somewhere(i)'
    BY DEF Conserved, Inputs
  <2>1. Somewhere(i)
    BY <1>1 DEF IInv, Conserved, Holding, Driving
  <2>2. CASE \E m \in Nodes : i \in chunk[m] \cup held[m] \cup results[m]
    BY <2>2, <1>1, <1>2 DEF Somewhere
  <2> QED  BY <1>1, <2>1, <2>2 DEF Somewhere
<1>7. ErrorInStep'
  BY <1>1, ErrorStays DEF Driving, fleet
<1> QED  BY <1>3, <1>4, <1>5, <1>6, <1>7 DEF IInv

LEMMA PollKeeps ==
    ASSUME IInv, NEW n \in Nodes, Poll(n) PROVE IInv'
<1>1. /\ Driving /\ task[n] = "poll" /\ vm[n] = "working"
      /\ got' = got \cup results[n]
      /\ results' = [results EXCEPT ![n] = {}]
      /\ task' = [task EXCEPT ![n] = "chunk"]
      /\ UNCHANGED <<driver, error, start, fleet, lists, chunk, pass, state, post, vm, linked,
                     held, ended, faults>>
  BY DEF Poll, client
<1>2. /\ \A m \in Nodes \ {n} : results'[m] = results[m] /\ task'[m] = task[m]
      /\ results'[n] = {} /\ task'[n] = "chunk"
  BY <1>1 DEF IInv, TypeOK
<1>3. TypeOK'
  <2>1. results' \in [Nodes -> SUBSET Inputs] /\ got' \subseteq Inputs
    BY <1>1 DEF IInv, TypeOK
  <2>2. task' \in [Nodes -> Places]
    BY <1>1 DEF IInv, TypeOK, Places
  <2> QED  BY <1>1, <2>1, <2>2 DEF IInv, TypeOK, Places, start, fleet
<1>4. ASSUME NEW m \in Nodes PROVE InStep(m)'
  <2>1. CASE m # n
    BY <1>1, <1>2, <2>1, OtherInStep DEF IInv, ToSet, fleet
  <2>2. CASE m = n
    BY <1>1, <1>2, <2>2 DEF IInv, InStep, TaskInStep, StateInStep, ServerInStep,
      FailureInStep, Excused, ToSet, fleet
  <2> QED  BY <2>1, <2>2
<1>5. Quiet' /\ LeftDrained' /\ UploadInStep' /\ ListsOwned'
  <2>1. Drained' = Drained
    BY <1>1 DEF Drained
  <2> QED  BY <1>1, <2>1, KeyKept DEF IInv, LeftDrained, Quiet, Driving, UploadInStep,
             ListsOwned, fleet
<1>6. Conserved'
  <2> SUFFICES ASSUME NEW i \in Inputs PROVE Somewhere(i)'
    BY DEF Conserved, Inputs
  <2>1. Somewhere(i)
    BY <1>1 DEF IInv, Conserved, Holding, Driving
  <2>2. CASE \E m \in Nodes : i \in chunk[m] \cup held[m] \cup results[m]
    BY <2>2, <1>1, <1>2 DEF Somewhere
  <2> QED  BY <1>1, <2>1, <2>2 DEF Somewhere
<1>7. ErrorInStep'
  BY <1>1, ErrorStays DEF Driving, fleet
<1> QED  BY <1>3, <1>4, <1>5, <1>6, <1>7 DEF IInv

(* Inputs that nodes run or take from each other. *)
LEMMA RunKeeps ==
    ASSUME IInv, NEW n \in Nodes, NEW i \in Inputs, Run(n, i) PROVE IInv'
<1>1. /\ vm[n] = "working" /\ i \in held[n]
      /\ held' = [held EXCEPT ![n] = @ \ {i}]
      /\ results' = [results EXCEPT ![n] = @ \cup {i}]
      /\ UNCHANGED <<driver, error, start, fleet, client, link, vm, linked, got, ended, faults>>
  BY DEF Run
<1>2. /\ \A m \in Nodes \ {n} : results'[m] = results[m] /\ held'[m] = held[m]
      /\ results'[n] = results[n] \cup {i} /\ held'[n] = held[n] \ {i}
  BY <1>1 DEF IInv, TypeOK
<1>3. TypeOK'
  <2>1. held' \in [Nodes -> SUBSET Inputs] /\ results' \in [Nodes -> SUBSET Inputs]
    BY <1>1 DEF IInv, TypeOK
  <2> QED  BY <1>1, <2>1 DEF IInv, TypeOK, start, fleet, client, link
<1>4. ASSUME NEW m \in Nodes PROVE InStep(m)'
  <2>1. CASE m # n
    BY <1>1, <1>2, <2>1, OtherInStep DEF IInv, ToSet, fleet, client, link
  <2>2. CASE m = n
    BY <1>1, <1>2, <2>2 DEF IInv, InStep, TaskInStep, StateInStep, ServerInStep,
      FailureInStep, Excused, ToSet, fleet, client, link
  <2> QED  BY <2>1, <2>2
<1>5. Quiet' /\ LeftDrained' /\ UploadInStep' /\ ListsOwned'
  <2>1. ~Drained
    BY <1>1 DEF Drained
  <2>2. driver \notin {"starting", "waiting"}
    BY <1>1, QuietUnbegun
  <2> QED  BY <1>1, <2>1, <2>2, KeyKept DEF IInv, LeftDrained, Quiet, UploadInStep,
             ListsOwned, fleet, client, link
<1>6. Conserved'
  <2> SUFFICES ASSUME Holding, NEW j \in Inputs PROVE Somewhere(j)'
    BY <1>1 DEF Conserved, Inputs, Holding
  <2>1. Somewhere(j)
    BY <1>1 DEF IInv, Conserved, Holding, Driving
  <2>2. CASE \E m \in Nodes : j \in chunk[m] \cup held[m] \cup results[m]
    BY <2>2, <1>1, <1>2 DEF Somewhere, client
  <2> QED  BY <1>1, <2>1, <2>2 DEF Somewhere, client
<1>7. ErrorInStep'
  BY <1>1, ErrorStays DEF StaysExcused, Excused, fleet, link
<1> QED  BY <1>3, <1>4, <1>5, <1>6, <1>7 DEF IInv

LEMMA StealKeeps ==
    ASSUME IInv, NEW n \in Nodes, NEW d \in Nodes, NEW i \in Inputs, Steal(n, d, i)
    PROVE  IInv'
<1>1. /\ vm[n] = "working" /\ vm[d] = "working" /\ n # d /\ held[n] = {} /\ i \in held[d]
      /\ held' = [held EXCEPT ![n] = {i}, ![d] = @ \ {i}]
      /\ UNCHANGED <<driver, error, start, fleet, client, link, vm, linked, results, got,
                     ended, faults>>
  BY DEF Steal
<1>2. /\ \A m \in Nodes \ {n, d} : held'[m] = held[m]
      /\ held'[n] = {i} /\ held'[d] = held[d] \ {i}
  BY <1>1 DEF IInv, TypeOK
<1>3. TypeOK'
  <2>1. held' \in [Nodes -> SUBSET Inputs]
    BY <1>1 DEF IInv, TypeOK
  <2> QED  BY <1>1, <2>1 DEF IInv, TypeOK, start, fleet, client, link
<1>4. ASSUME NEW m \in Nodes PROVE InStep(m)'
  <2>1. CASE m \notin {n, d}
    BY <1>1, <1>2, <2>1, OtherInStep DEF IInv, ToSet, fleet, client, link
  <2>2. CASE m \in {n, d}
    <3>1. vm[m] = "working" /\ InStep(m)
      BY <1>1, <2>2 DEF IInv
    <3> QED  BY <1>1, <3>1 DEF InStep, TaskInStep, StateInStep, ServerInStep,
               FailureInStep, Excused, ToSet, fleet, client, link
  <2> QED  BY <2>1, <2>2
<1>5. Quiet' /\ LeftDrained' /\ UploadInStep' /\ ListsOwned'
  <2>1. ~Drained
    BY <1>1 DEF Drained
  <2>2. driver \notin {"starting", "waiting"}
    BY <1>1, QuietUnbegun
  <2> QED  BY <1>1, <2>1, <2>2, KeyKept DEF IInv, LeftDrained, Quiet, UploadInStep,
             ListsOwned, fleet, client, link
<1>6. Conserved'
  <2> SUFFICES ASSUME Holding, NEW j \in Inputs PROVE Somewhere(j)'
    BY <1>1 DEF Conserved, Inputs, Holding
  <2>1. Somewhere(j)
    BY <1>1 DEF IInv, Conserved, Holding, Driving
  <2>2. CASE \E m \in Nodes : j \in chunk[m] \cup held[m] \cup results[m]
    BY <2>2, <1>1, <1>2 DEF Somewhere, client
  <2> QED  BY <1>1, <2>1, <2>2 DEF Somewhere, client
<1>7. ErrorInStep'
  BY <1>1, ErrorStays DEF StaysExcused, Excused, fleet, link
<1> QED  BY <1>3, <1>4, <1>5, <1>6, <1>7 DEF IInv

(* The hand-over: what a removed node had to upload goes to a list that a *)
(* node on the job pops from.                                             *)
LEMMA HandOverKeeps ==
    ASSUME IInv, NEW n \in Nodes, HandOver(n) PROVE IInv'
<1>1. /\ Driving /\ lists[KeyOf(n)] # {}
      /\ UNCHANGED <<driver, error, start, fleet, chunk, pass, link, server, got, ended, faults>>
  BY DEF HandOver, Leftover, Scans, Driving
<1>2. PICK x \in DOMAIN nodes :
        /\ nodes[x] \in Recipients(n)
        /\ lists' = [lists EXCEPT ![KeyOf(nodes[x])] = @ \cup lists[KeyOf(n)],
                                  ![KeyOf(n)] = {}]
  BY DEF HandOver
<1> DEFINE k == KeyOf(n)
           r == KeyOf(nodes[x])
<1>3. /\ nodes[x] \in ToSet(nodes) /\ nodes[x] \in Nodes /\ k # r
      /\ k \in Nodes \cup {Shared} /\ r \in Nodes \cup {Shared}
  <2>1. nodes[x] \in ToSet(nodes) /\ nodes[x] \in Nodes
    BY DEF ToSet, IInv, TypeOK
  <2> QED  BY <1>2, <2>1, KeyTyped DEF Recipients
<1>4. /\ \A l \in (Nodes \cup {Shared}) \ {k, r} : lists'[l] = lists[l]
      /\ lists'[k] = {} /\ lists'[r] = lists[r] \cup lists[k]
      /\ lists' \in [Nodes \cup {Shared} -> SUBSET Inputs]
  BY <1>2, <1>3 DEF IInv, TypeOK
<1>5. TypeOK'
  BY <1>1, <1>4 DEF IInv, TypeOK, start, fleet, link, server
<1>6. \A m \in Nodes : InStep(m)'
  BY <1>1, OtherInStep DEF IInv, ToSet, fleet, link, server
<1>7. Quiet' /\ LeftDrained' /\ UploadInStep'
  <2>1. ~Drained /\ ~done
    BY <1>1, <1>3 DEF IInv, Drained, UploadInStep, TypeOK
  <2> QED  BY <1>1, <2>1 DEF IInv, LeftDrained, Quiet, Driving, UploadInStep, link, server
<1>8. ListsOwned'
  <2> SUFFICES ASSUME NEW l \in Nodes \cup {Shared}, lists'[l] # {}
               PROVE  \E m \in ToSet(nodes) : KeyOf(m) = l
    BY <1>1, KeyKept DEF ListsOwned, fleet, ToSet
  <2>1. CASE l = r
    BY <1>3, <2>1
  <2>2. CASE l # r
    BY <1>4, <2>2 DEF IInv, ListsOwned
  <2> QED  BY <2>1, <2>2
<1>9. Conserved'
  <2> SUFFICES ASSUME NEW i \in Inputs PROVE Somewhere(i)'
    BY DEF Conserved, Inputs
  <2>1. Somewhere(i)
    BY <1>1 DEF IInv, Conserved, Holding, Driving
  <2>2. CASE \E l \in Nodes \cup {Shared} : i \in lists[l]
    <3>1. \E l \in Nodes \cup {Shared} : i \in lists'[l]
      BY <2>2, <1>3, <1>4
    <3> QED  BY <3>1 DEF Somewhere
  <2>3. CASE i \in got \/ \E m \in Nodes : i \in chunk[m] \cup held[m] \cup results[m]
    BY <2>3, <1>1 DEF Somewhere, server
  <2> QED  BY <2>1, <2>2, <2>3 DEF Somewhere
<1>10. ErrorInStep'
  BY <1>1, ErrorStays DEF Driving, fleet
<1> QED  BY <1>5, <1>6, <1>7, <1>8, <1>9, <1>10 DEF IInv

-----------------------------------------------------------------------------
(* What concerns all nodes, or the list of them.                            *)

LEMMA BarrierOpensKeeps ==
    ASSUME IInv, BarrierOpens PROVE IInv'
<1>1. /\ Driving /\ \A n \in first : task[n] = "barrier"
      /\ task' = [n \in Nodes |-> IF n \in first THEN "poll" ELSE task[n]]
      /\ through' = first
      /\ UNCHANGED <<driver, error, start, nodes, first, broken, lists, chunk, pass, state, post,
                     vm, linked, held, results, got, ended, faults>>
  BY DEF BarrierOpens, client, server
<1>2. TypeOK'
  <2>1. task' \in [Nodes -> Places]
    BY <1>1 DEF IInv, TypeOK, Places
  <2> QED  BY <1>1, <2>1 DEF IInv, TypeOK, Places, start
<1>3. ASSUME NEW n \in Nodes PROVE InStep(n)'
  <2>1. CASE n \notin first
    <3>1. task'[n] = task[n]
      BY <1>1, <2>1
    <3> QED  BY <1>1, <3>1, OtherInStep DEF IInv, ToSet
  <2>2. CASE n \in first
    <3>1. task[n] = "barrier" /\ task'[n] = "poll"
      BY <1>1, <2>2
    <3> QED  BY <1>1, <3>1 DEF IInv, InStep, TaskInStep, StateInStep, ServerInStep,
               FailureInStep, Excused, ToSet
  <2> QED  BY <2>1, <2>2
<1>4. Quiet' /\ LeftDrained'
  <2>1. Drained' = Drained
    BY <1>1 DEF Drained
  <2> QED  BY <1>1, <2>1 DEF IInv, LeftDrained, Quiet, Driving
<1>5. ListsOwned' /\ UploadInStep' /\ Conserved'
  BY <1>1, PlacesKept
<1>6. ErrorInStep'
  BY <1>1, ErrorStays DEF Driving
<1> QED  BY <1>2, <1>3, <1>4, <1>5, <1>6 DEF IInv

LEMMA RestartKeeps ==
    ASSUME IInv, Restart PROVE IInv'
<1>1. /\ Driving /\ ended' = TRUE /\ faults' \in 0..MaxFaults
      /\ vm' = [n \in Nodes |-> IF vm[n] \in {"none", "failed", "hung", "stopping"}
                                THEN vm[n] ELSE "gone"]
      /\ post' = [n \in Nodes |-> IF linked[n] THEN "cut" ELSE post[n]]
      /\ linked' = [n \in Nodes |-> FALSE]
      /\ UNCHANGED <<driver, error, start, fleet, lists, chunk, pass, state, task, held, results, got>>
  BY FaultTyped DEF IInv, Restart, client
<1>2. TypeOK'
  <2>1. vm' \in [Nodes -> Vms] /\ post' \in [Nodes -> Posts] /\ linked' \in [Nodes -> BOOLEAN]
    BY <1>1 DEF IInv, TypeOK, Vms, Posts
  <2> QED  BY <1>1, <2>1 DEF IInv, TypeOK, Vms, Posts, start, fleet
<1>3. ASSUME NEW n \in Nodes PROVE InStep(n)'
  <2>1. /\ vm'[n] = IF vm[n] \in {"none", "failed", "hung", "stopping"} THEN vm[n] ELSE "gone"
        /\ post'[n] = IF linked[n] THEN "cut" ELSE post[n]
        /\ ~linked'[n]
    BY <1>1
  <2>2. UNCHANGED <<task, state, chunk, held, results, first, nodes>>
    BY <1>1 DEF fleet
  <2>3. InStep(n)
    BY DEF IInv
  <2>4. TaskInStep(n)'
    BY <2>1, <2>2, <2>3 DEF InStep, TaskInStep, ServerInStep, ToSet
  <2>5. StateInStep(n)' /\ ServerInStep(n)'
    BY <1>1, <2>1, <2>2, <2>3 DEF InStep, StateInStep, ServerInStep
  <2>6. FailureInStep(n)'
    BY <1>1, <2>1, <2>2, <2>3 DEF InStep, FailureInStep, ServerInStep
  <2> QED  BY <2>4, <2>5, <2>6 DEF InStep
<1>4. Quiet' /\ LeftDrained'
  <2>1. Drained' = Drained
    BY <1>1 DEF Drained
  <2>2. \A n \in Nodes : vm'[n] = "left" => vm[n] = "left"
    BY <1>1
  <2> QED  BY <1>1, <2>1, <2>2 DEF IInv, LeftDrained, Quiet, Driving
<1>5. ListsOwned' /\ UploadInStep' /\ Conserved'
  BY <1>1, PlacesKept DEF fleet
<1>6. ErrorInStep'
  BY <1>1, ErrorStays DEF Driving, fleet
<1> QED  BY <1>2, <1>3, <1>4, <1>5, <1>6 DEF IInv

(* A list of distinct nodes with one more. *)
LEMMA Appended ==
    ASSUME NEW s \in Seq(Nodes), IsInjective(s), NEW n \in Nodes, n \notin ToSet(s)
    PROVE  /\ Append(s, n) \in Seq(Nodes) /\ IsInjective(Append(s, n))
           /\ ToSet(Append(s, n)) = ToSet(s) \cup {n}
<1> DEFINE t == Append(s, n)
<1>1. /\ t \in Seq(Nodes) /\ Len(t) = Len(s) + 1 /\ t[Len(s) + 1] = n
      /\ \A i \in 1..Len(s) : t[i] = s[i]
      /\ DOMAIN t = 1..(Len(s) + 1) /\ DOMAIN s = 1..Len(s) /\ Len(s) \in Nat
  BY AppendProperties
<1> HIDE DEF t
<1>2. \A i \in 1..Len(s) : s[i] \in ToSet(s)
  BY <1>1 DEF ToSet
<1>3. IsInjective(t)
  <2> SUFFICES ASSUME NEW i \in 1..(Len(s) + 1), NEW j \in 1..(Len(s) + 1), t[i] = t[j]
               PROVE  i = j
    BY <1>1 DEF IsInjective
  <2>1. CASE i \in 1..Len(s) /\ j \in 1..Len(s)
    BY <1>1, <2>1 DEF IsInjective
  <2>2. CASE i = Len(s) + 1 /\ j \in 1..Len(s)
    BY <1>1, <1>2, <2>2
  <2>3. CASE i \in 1..Len(s) /\ j = Len(s) + 1
    BY <1>1, <1>2, <2>3
  <2> QED  BY <1>1, <2>1, <2>2, <2>3
<1>4. ToSet(t) = ToSet(s) \cup {n}
  <2>1. \A x \in ToSet(t) : x \in ToSet(s) \cup {n}
    BY <1>1, <1>2 DEF ToSet
  <2>2. \A x \in ToSet(s) : x \in ToSet(t)
    <3> SUFFICES ASSUME NEW i \in 1..Len(s) PROVE s[i] \in ToSet(t)
      BY <1>1 DEF ToSet
    <3>1. i \in DOMAIN t /\ t[i] = s[i]
      BY <1>1
    <3> QED  BY <3>1 DEF ToSet
  <2>3. n \in ToSet(t)
    <3>1. Len(s) + 1 \in DOMAIN t
      BY <1>1
    <3> QED  BY <1>1, <3>1 DEF ToSet
  <2> QED  BY <2>1, <2>2, <2>3
<1> QED  BY <1>1, <1>3, <1>4 DEF t

LEMMA DiscoverKeeps ==
    ASSUME IInv, NEW n \in Nodes, Discover(n) PROVE IInv'
<1>1. /\ Driving /\ n \notin ToSet(nodes) /\ nodes' = Append(nodes, n)
      /\ state' = [state EXCEPT ![n] = "BOOTING"]
      /\ task' = [task EXCEPT ![n] = "boot"]
      /\ UNCHANGED <<driver, error, start, first, broken, through, lists, chunk, pass, post,
                     vm, linked, held, results, got, ended, faults>>
  BY DEF Discover, Known, Listed, client, server
<1>2. /\ nodes' \in Seq(Nodes) /\ IsInjective(nodes)' /\ ToSet(nodes)' = ToSet(nodes) \cup {n}
  BY <1>1, Appended DEF IInv, TypeOK
<1>3. /\ \A m \in Nodes \ {n} : state'[m] = state[m] /\ task'[m] = task[m]
      /\ state'[n] = "BOOTING" /\ task'[n] = "boot"
  BY <1>1 DEF IInv, TypeOK
<1>4. TypeOK'
  <2>1. state' \in [Nodes -> States] /\ task' \in [Nodes -> Places]
    BY <1>1 DEF IInv, TypeOK, States, Places
  <2> QED  BY <1>1, <1>2, <2>1 DEF IInv, TypeOK, States, Places, start
<1>5. ASSUME NEW m \in Nodes PROVE InStep(m)'
  <2>1. CASE m # n
    BY <1>1, <1>2, <1>3, <2>1, OtherInStep DEF IInv
  <2>2. CASE m = n
    BY <1>1, <1>2, <1>3, <2>2 DEF IInv, InStep, TaskInStep, StateInStep, ServerInStep,
      FailureInStep
  <2> QED  BY <2>1, <2>2
<1>6. Quiet' /\ LeftDrained' /\ UploadInStep'
  <2>1. Drained' = Drained
    BY <1>1 DEF Drained
  <2>2. \A m \in Nodes : state'[m] = "DONE" => state[m] = "DONE"
    BY <1>3
  <2> QED  BY <1>1, <2>1, <2>2 DEF IInv, LeftDrained, Quiet, Driving, UploadInStep
<1>7. ListsOwned' /\ Conserved'
  <2>1. ListsOwned'
    BY <1>1, <1>2, KeyKept DEF IInv, ListsOwned
  <2>2. Conserved'
    BY <1>1 DEF IInv, Conserved, Holding, Somewhere, Driving
  <2> QED  BY <2>1, <2>2
<1>8. ErrorInStep'
  BY <1>1 DEF IInv, ErrorInStep, Driving, RestartNotMisreported
<1> QED  BY <1>4, <1>5, <1>6, <1>7, <1>8 DEF IInv

-----------------------------------------------------------------------------
(* The split: every input has a seat.                                       *)

(* In a finite set of seats there is one at every position. *)
LEMMA Ranked ==
    ASSUME NEW S \in SUBSET (Nat \X Nat), IsFiniteSet(S), NEW j \in Nat, j < Cardinality(S)
    PROVE  \E s \in S : Cardinality(SeatsBefore(S, s)) = j
<1> DEFINE C == Cardinality(S)
           rank == [s \in S |-> Cardinality(SeatsBefore(S, s))]
           T == (0..(C - 1)) \ {j}
<1>1. C \in Nat
  BY FS_CardinalityType
<1>2. ASSUME NEW s \in S PROVE IsFiniteSet(SeatsBefore(S, s)) /\ rank[s] \in 0..(C - 1)
  <2>1. SeatsBefore(S, s) \in SUBSET S /\ s \notin SeatsBefore(S, s)
    BY DEF SeatsBefore
  <2>2. /\ IsFiniteSet(SeatsBefore(S, s)) /\ Cardinality(SeatsBefore(S, s)) <= C
        /\ C = Cardinality(SeatsBefore(S, s)) => S = SeatsBefore(S, s)
    BY <2>1, FS_Subset
  <2>3. Cardinality(SeatsBefore(S, s)) \in Nat
    BY <2>2, FS_CardinalityType
  <2> QED  BY <1>1, <2>1, <2>2, <2>3
<1>3. ASSUME NEW s \in S, NEW t \in S, t[1] < s[1] \/ (t[1] = s[1] /\ t[2] < s[2])
      PROVE  rank[t] < rank[s]
  <2>1. /\ SeatsBefore(S, t) \in SUBSET SeatsBefore(S, s)
        /\ t \in SeatsBefore(S, s) /\ t \notin SeatsBefore(S, t)
    BY <1>3 DEF SeatsBefore
  <2>2. /\ Cardinality(SeatsBefore(S, t)) <= Cardinality(SeatsBefore(S, s))
        /\ Cardinality(SeatsBefore(S, s)) # Cardinality(SeatsBefore(S, t))
    BY <1>2, <2>1, FS_Subset
  <2>3. Cardinality(SeatsBefore(S, t)) \in Nat /\ Cardinality(SeatsBefore(S, s)) \in Nat
    BY <1>2, FS_CardinalityType
  <2> QED  BY <2>2, <2>3
<1>4. SUFFICES ASSUME \A s \in S : rank[s] # j PROVE FALSE
  OBVIOUS
<1>5. IsFiniteSet(T) /\ Cardinality(T) < C
  <2>0. 0 \in Int /\ C - 1 \in Int /\ ~(0 > C - 1) /\ (C - 1) - 0 + 1 = C
    BY <1>1
  <2> HIDE DEF C
  <2>1. IsFiniteSet(0..(C - 1)) /\ Cardinality(0..(C - 1)) = C
    BY <2>0, FS_Interval
  <2>2. j \in 0..(C - 1)
    BY <1>1 DEF C
  <2>3. IsFiniteSet(T) /\ Cardinality(T) = C - 1
    BY <2>1, <2>2, FS_RemoveElement
  <2> QED  BY <1>1, <2>3
<1>6. rank \in [S -> T]
  <2>1. \A s \in S : rank[s] \in T
    BY <1>2, <1>4
  <2> QED  BY <2>1
<1>7. PICK s \in S, t \in S : s # t /\ rank[s] = rank[t]
  <2> HIDE DEF rank, T
  <2> QED  BY <1>5, <1>6, FS_PigeonHole
<1>8. /\ s[1] \in Nat /\ s[2] \in Nat /\ t[1] \in Nat /\ t[2] \in Nat
      /\ s[1] # t[1] \/ s[2] # t[2]
  BY <1>7
<1>9. rank[s] \in Nat
  BY <1>1, <1>2
<1> HIDE DEF rank
<1> QED  BY <1>3, <1>7, <1>8, <1>9

LEMMA SeatForEvery ==
    ASSUME NEW ready \in Seq(Nodes), ready # <<>>, NEW i \in Inputs
    PROVE  \E s \in SeatsOfInput(Seats(ready), i) : s[2] \in DOMAIN ready
<1> DEFINE row == [k \in DOMAIN ready |-> (1..Slots[ready[k]]) \X {k}]
           S == Seats(ready)
<1>1. /\ DOMAIN ready = 1..Len(ready) /\ Len(ready) \in Nat /\ 1 \in DOMAIN ready
      /\ \A k \in DOMAIN ready : Slots[ready[k]] \in Nat \ {0}
  BY DriverAssumption
<1>2. S = UNION Range(row)
  BY DEF Seats, Range
<1>3. IsFiniteSet(S)
  <2>1. IsFiniteSet(DOMAIN ready)
    BY <1>1, FS_Interval
  <2>2. row \in Surjection(DOMAIN ready, Range(row))
    BY DEF Surjection, Range
  <2>3. IsFiniteSet(Range(row))
    BY <2>1, <2>2, FS_Surjection
  <2>4. ASSUME NEW T \in Range(row) PROVE IsFiniteSet(T)
    <3>1. PICK k \in DOMAIN ready : T = (1..Slots[ready[k]]) \X {k}
      BY DEF Range
    <3>2. 1 \in Int /\ Slots[ready[k]] \in Int
      BY <1>1
    <3>3. IsFiniteSet(1..Slots[ready[k]])
      BY <3>2, FS_Interval
    <3>4. IsFiniteSet({k})
      BY FS_Singleton
    <3> QED  BY <3>1, <3>3, <3>4, FS_Product
  <2> QED  BY <1>2, <2>3, <2>4, FS_UNION
<1>4. /\ S \in SUBSET (Nat \X Nat) /\ \A s \in S : s[2] \in DOMAIN ready
      /\ <<1, 1>> \in S
  <2>1. \A s \in S : \E k \in DOMAIN ready : s \in (1..Slots[ready[k]]) \X {k}
    BY DEF Seats
  <2>2. <<1, 1>> \in (1..Slots[ready[1]]) \X {1}
    BY <1>1
  <2> QED  BY <1>1, <2>1, <2>2 DEF Seats
<1>5. Cardinality(S) \in Nat \ {0}
  BY <1>3, <1>4, FS_CardinalityType, FS_EmptySet
<1>6. (i - 1) % Cardinality(S) \in 0..(Cardinality(S) - 1)
  BY <1>5, DriverAssumption DEF Inputs
<1> HIDE DEF S
<1>7. PICK s \in S : Cardinality(SeatsBefore(S, s)) = (i - 1) % Cardinality(S)
  <2> DEFINE j == (i - 1) % Cardinality(S)
  <2>1. j \in Nat /\ j < Cardinality(S)
    BY <1>5, <1>6
  <2> HIDE DEF j
  <2>2. \E s \in S : Cardinality(SeatsBefore(S, s)) = j
    BY <1>3, <1>4, <2>1, Ranked
  <2> QED  BY <2>2 DEF j
<1>8. s \in SeatsOfInput(S, i)
  BY <1>7 DEF SeatsOfInput
<1> QED  BY <1>4, <1>8 DEF S

LEMMA Joined ==
    ASSUME NEW s \in Seq(Nodes), NEW t \in Seq(Nodes)
    PROVE  s \o t \in Seq(Nodes) /\ ToSet(s) \subseteq ToSet(s \o t) /\ ToSet(s \o t) \subseteq Nodes
<1>1. /\ s \o t \in Seq(Nodes) /\ Len(s \o t) = Len(s) + Len(t) /\ Len(s) \in Nat /\ Len(t) \in Nat
      /\ \A i \in 1..(Len(s) + Len(t)) : (s \o t)[i] = IF i <= Len(s) THEN s[i] ELSE t[i - Len(s)]
      /\ DOMAIN s = 1..Len(s) /\ DOMAIN (s \o t) = 1..(Len(s) + Len(t))
  BY ConcatProperties
<1>2. \A i \in DOMAIN s : i \in DOMAIN (s \o t) /\ (s \o t)[i] = s[i]
  BY <1>1
<1>3. \A i \in DOMAIN (s \o t) : (s \o t)[i] \in Nodes
  BY <1>1
<1> QED  BY <1>1, <1>2, <1>3 DEF ToSet

(* Every input is in the list of a node of the plan. *)
LEMMA SplitCovers ==
    ASSUME NEW p \in Plans, DOMAIN lists = Nodes \cup {Shared}
    PROVE  /\ Split(p) \in [Nodes \cup {Shared} -> SUBSET Inputs]
           /\ \A i \in Inputs : \E k \in Nodes \cup {Shared} : i \in Split(p)[k]
           /\ \A k \in Nodes \cup {Shared} : Split(p)[k] # {} =>
                \E n \in ToSet(p.ready \o p.booting) :
                    k = IF ToSet(p.ready) = {} /\ n \notin Late THEN Shared ELSE n
<1> DEFINE all == p.ready \o p.booting
           Keys == Nodes \cup {Shared}
<1>1. /\ p.ready \in Seq(Nodes \ Late) /\ p.booting \in Seq(Nodes \ Late) /\ all # <<>>
  BY DriverAssumption
<1>2. /\ p.ready \in Seq(Nodes) /\ p.booting \in Seq(Nodes) /\ all \in Seq(Nodes)
      /\ ToSet(p.ready) \subseteq ToSet(all) /\ ToSet(all) \subseteq Nodes
  <2>1. p.ready \in Seq(Nodes) /\ p.booting \in Seq(Nodes)
    BY DriverAssumption
  <2> QED  BY <2>1, Joined
<1>3. CASE p.ready = <<>>
  <2>1. Split(p) = [k \in Keys |-> IF k = Shared THEN Inputs ELSE {}]
    BY <1>3 DEF Split
  <2>2. PICK n \in ToSet(all) : n \notin Late
    <3>1. 1 \in DOMAIN all
      <4> HIDE DEF all
      <4> QED  BY <1>1, <1>2
    <3>2. all = p.booting
      BY <1>1, <1>3, ConcatEmptySeq
    <3>3. all[1] \in ToSet(all) /\ all[1] \notin Late
      BY <1>1, <3>1, <3>2 DEF ToSet
    <3> QED  BY <3>3
  <2>3. ToSet(p.ready) = {}
    BY <1>3 DEF ToSet
  <2> QED  BY <2>1, <2>2, <2>3
<1>4. CASE p.ready # <<>>
  <2> DEFINE seats == Seats(p.ready)
  <2>1. Split(p) = [k \in Keys |->
                      {i \in Inputs : \E s \in SeatsOfInput(seats, i) : p.ready[s[2]] = k}]
    BY <1>4 DEF Split
  <2>2. \A s \in seats : s[2] \in DOMAIN p.ready
    BY DEF Seats
  <2>3. \A s \in seats : p.ready[s[2]] \in ToSet(p.ready)
    BY <2>2 DEF ToSet
  <2>4. ASSUME NEW i \in Inputs PROVE \E k \in Keys : i \in Split(p)[k]
    <3>1. PICK s \in SeatsOfInput(seats, i) : s[2] \in DOMAIN p.ready
      BY <1>2, <1>4, SeatForEvery
    <3>2. p.ready[s[2]] \in Nodes
      BY <1>2, <3>1
    <3> QED  BY <2>1, <3>1, <3>2
  <2>5. ASSUME NEW k \in Keys, Split(p)[k] # {} PROVE k \in ToSet(p.ready)
    <3>1. PICK i \in Inputs : \E s \in SeatsOfInput(seats, i) : p.ready[s[2]] = k
      BY <2>1, <2>5
    <3> QED  BY <2>3, <3>1 DEF SeatsOfInput
  <2>6. Split(p) \in [Keys -> SUBSET Inputs]
    BY <2>1
  <2>7. \A k \in Keys : Split(p)[k] # {} => k \in ToSet(all) /\ ToSet(p.ready) # {}
    BY <1>2, <2>5
  <2> HIDE DEF seats
  <2> QED  BY <2>4, <2>6, <2>7
<1> QED  BY <1>3, <1>4

LEMMA StartAnsweredKeeps ==
    ASSUME IInv, NEW p \in Plans, StartAnswered(p) PROVE IInv'
<1> DEFINE all == p.ready \o p.booting
           Ready == ToSet(p.ready)
           All == ToSet(p.ready \o p.booting)
<1>1. /\ driver = "starting" /\ driver' = "driving" /\ promised' = p
      /\ nodes' = all /\ first' = Ready /\ lists' = Split(p)
      /\ state' = [n \in Nodes |-> IF n \in Ready THEN "READY"
                                   ELSE IF n \in All THEN "BOOTING" ELSE "none"]
      /\ task' = [n \in Nodes |-> IF n \in Ready THEN "assign"
                                  ELSE IF n \in All THEN "boot" ELSE "none"]
      /\ vm' = [n \in Nodes |-> IF n \in Ready THEN "ready"
                                ELSE IF n \in All THEN "booting" ELSE "none"]
      /\ UNCHANGED <<error, tries, busy, broken, through, chunk, pass, post, linked, held,
                     results, got, ended, faults>>
  BY DEF StartAnswered
<1>2. /\ p.ready \in Seq(Nodes) /\ p.booting \in Seq(Nodes) /\ IsInjective(all)
  BY DriverAssumption
<1>3. all \in Seq(Nodes) /\ Ready \subseteq All /\ All \subseteq Nodes
  BY <1>2, Joined
<1>4. /\ through = {} /\ ~done /\ ~told /\ got = {}
      /\ \A n \in Nodes : /\ post[n] = "none" /\ vm[n] = "none" /\ chunk[n] = {}
                          /\ held[n] = {} /\ results[n] = {} /\ ~linked[n]
  BY <1>1 DEF IInv, Quiet, InStep, ServerInStep
<1>5. DOMAIN lists = Nodes \cup {Shared}
  BY DEF IInv, TypeOK
<1>6. TypeOK'
  <2>1. lists' \in [Nodes \cup {Shared} -> SUBSET Inputs]
    BY <1>1, <1>5, SplitCovers
  <2>2. state' \in [Nodes -> States] /\ task' \in [Nodes -> Places] /\ vm' \in [Nodes -> Vms]
    BY <1>1 DEF States, Places, Vms
  <2>3. nodes' \in Seq(Nodes) /\ IsInjective(nodes)' /\ ToSet(nodes)' = All
    BY <1>1, <1>2, <1>3
  <2> HIDE DEF All, Ready, all
  <2> QED  BY <1>1, <1>3, <1>4, <2>1, <2>2, <2>3 DEF IInv, TypeOK, States, Places, Vms
<1>7. ASSUME NEW n \in Nodes PROVE InStep(n)'
  <2>1. /\ n \in Ready => state'[n] = "READY" /\ task'[n] = "assign" /\ vm'[n] = "ready"
        /\ n \in All \ Ready => state'[n] = "BOOTING" /\ task'[n] = "boot" /\ vm'[n] = "booting"
        /\ n \notin All => state'[n] = "none" /\ task'[n] = "none" /\ vm'[n] = "none"
        /\ post'[n] = "none" /\ chunk'[n] = {} /\ held'[n] = {} /\ results'[n] = {} /\ ~linked'[n]
        /\ ToSet(nodes)' = All
    BY <1>1, <1>3, <1>4
  <2> HIDE DEF All, Ready, all
  <2> QED  BY <1>3, <2>1 DEF InStep, TaskInStep, StateInStep, ServerInStep, FailureInStep
<1>8. Quiet' /\ LeftDrained' /\ UploadInStep'
  <2>1. \A n \in Nodes : vm'[n] # "left" /\ state'[n] # "DONE"
    BY <1>1
  <2> QED  BY <1>1, <1>4, <2>1 DEF Quiet, LeftDrained, UploadInStep
<1>9. ListsOwned' /\ Conserved'
  <2>1. \A n : KeyOf(n)' = IF Ready = {} /\ n \notin Late THEN Shared ELSE n
    BY <1>1 DEF KeyOf
  <2>2. ListsOwned'
    BY <1>1, <1>5, <2>1, SplitCovers DEF ListsOwned
  <2>3. Conserved'
    BY <1>1, <1>5, SplitCovers DEF Conserved, Somewhere, Inputs
  <2> QED  BY <2>2, <2>3
<1>10. ErrorInStep'
  BY <1>1 DEF IInv, ErrorInStep, RestartNotMisreported
<1> QED  BY <1>6, <1>7, <1>8, <1>9, <1>10 DEF IInv

-----------------------------------------------------------------------------
(* What the driver does alone.                                              *)

(* A step that changes the driver, and what it knows of the head. *)
DriverOnly ==
    /\ UNCHANGED <<fleet, lists, chunk, link, server, got, ended>>
    /\ driver' \in {"starting", "waiting", "driving", "passing", "closing", "returned", "raised",
                    "detached"}
    /\ error'.node \in Nodes \cup {Shared} /\ tries' \in 0..1
    /\ busy' \in {"no", "running", "booting"} /\ signal' \in {"none", "cancel", "detach"}
    /\ {done', told'} \subseteq BOOLEAN /\ faults' \in 0..MaxFaults
    /\ driver' \in {"starting", "waiting"} =>
         driver \in {"starting", "waiting"} /\ UNCHANGED <<done, told>>
    /\ Holding' => Holding

LEMMA DriverKeeps ==
    ASSUME IInv, DriverOnly, UploadInStep', ErrorInStep' PROVE IInv'
<1> USE DEF fleet, link, server
<1>1. TypeOK'
  BY DEF IInv, TypeOK, DriverOnly
<1>2. \A n \in Nodes : InStep(n)'
  BY OtherInStep DEF IInv, ToSet, DriverOnly
<1>3. Quiet' /\ LeftDrained'
  BY DEF IInv, Quiet, LeftDrained, Drained, DriverOnly
<1>4. ListsOwned' /\ Conserved'
  BY KeyKept DEF IInv, ListsOwned, Conserved, Somewhere, DriverOnly
<1> QED  BY <1>1, <1>2, <1>3, <1>4 DEF IInv

(* Without news of the lists, as long as the driver waits for the head to be *)
(* told.                                                                     *)
LEMMA UploadKept ==
    ASSUME IInv, UNCHANGED <<lists, done, told>>,
           \/ driver' = driver
           \/ driver' \in {"starting", "waiting", "returned", "raised"}
           \/ driver' = "driving" /\ told
           \/ driver' = "closing" /\ (told \/ driver = "driving")
           \/ driver' = "detached" /\ done /\ driver \in {"driving", "closing"}
    PROVE  UploadInStep'
BY DEF IInv, UploadInStep

(* Before the head has answered, and at the end. *)
LEMMA StartingKeeps ==
    ASSUME IInv,
           \/ \E p \in Plans : StartLost(p)
           \/ StartRefused \/ StartBusy \/ WaitOver \/ NoneCameUp \/ OthersCome \/ OthersGo
           \/ Leave \/ PingDies \/ AllResults \/ PassEnds \/ Close \/ CloseFails \/ UNCHANGED vars
    PROVE  IInv'
<1>1. DriverOnly
  <2> USE DEF Holding, client
  <2>1. CASE \E p \in Plans : StartLost(p)
    BY <2>1, FaultTyped DEF IInv, TypeOK, StartLost, DriverOnly
  <2>2. CASE StartRefused \/ NoneCameUp
    BY <2>2, FaultTyped DEF IInv, TypeOK, StartRefused, NoneCameUp, Raise, DriverOnly, start
  <2>3. CASE StartBusy \/ WaitOver
    BY <2>3 DEF IInv, TypeOK, StartBusy, WaitOver, Raise, DriverOnly, start
  <2>4. CASE OthersCome \/ OthersGo
    BY <2>4, FaultTyped DEF IInv, TypeOK, OthersCome, OthersGo, DriverOnly, start
  <2>5. CASE AllResults \/ PassEnds \/ UNCHANGED vars
    BY <2>5 DEF IInv, TypeOK, AllResults, PassEnds, Counts, Scanned, Scans, vars, DriverOnly, start
  <2>6. CASE Leave \/ Close
    BY <2>6 DEF IInv, TypeOK, Leave, Close, Quit, Raise, DriverOnly, start
  <2>7. CASE PingDies \/ CloseFails
    BY <2>7, FaultTyped DEF IInv, TypeOK, PingDies, CloseFails, Raise, DriverOnly, start
  <2> QED  BY <2>1, <2>2, <2>3, <2>4, <2>5, <2>6, <2>7
<1>2. UploadInStep'
  <2> USE DEF client
  <2>1. CASE Leave \/ Close
    BY <2>1, UploadKept DEF Leave, Close, Quit, Raise
  <2>2. CASE AllResults \/ PassEnds
    BY <2>2, UploadKept DEF AllResults, PassEnds, Counts, Scanned, Scans
  <2>3. CASE PingDies \/ CloseFails \/ StartRefused \/ NoneCameUp \/ UNCHANGED vars
    BY <2>3, UploadKept DEF PingDies, CloseFails, StartRefused, NoneCameUp, Raise, vars
  <2>4. CASE StartBusy \/ WaitOver \/ OthersCome \/ OthersGo \/ \E p \in Plans : StartLost(p)
    BY <2>4, UploadKept DEF StartBusy, WaitOver, OthersCome, OthersGo, StartLost, Raise
  <2> QED  BY <2>1, <2>2, <2>3, <2>4
<1> DEFINE Others == {"NoNodes", "AllNodesBusy", "JobCanceled", "HeartbeatFailed", "HeadUnreachable"}
<1>3. \/ UNCHANGED <<driver, error>>
      \/ driver # "raised" /\ UNCHANGED error /\ driver' # "raised"
      \/ driver # "raised" /\ driver' = "raised" /\ error'.kind \in Others
      \/ Quiet /\ driver = "starting" /\ driver' = "raised" /\ error'.kind = "JobStalled"
  BY DEF StartLost, StartRefused, StartBusy, WaitOver, NoneCameUp, OthersCome, OthersGo, Leave,
     PingDies, AllResults, PassEnds, Close, CloseFails, Quit, Counts, Scanned, Scans, vars, Raise, IInv
<1>4. ErrorInStep'
  <2>1. CASE UNCHANGED <<driver, error>>
    BY <1>1, <2>1, ErrorStays DEF DriverOnly, StaysExcused, Excused, fleet, link, server
  <2>2. CASE driver # "raised" /\ UNCHANGED error /\ driver' # "raised"
    BY <2>2 DEF IInv, ErrorInStep, RestartNotMisreported
  <2>3. CASE driver' = "raised" /\ error'.kind \in Others
    BY <2>3 DEF ErrorInStep, RestartNotMisreported
  <2>4. CASE Quiet /\ driver = "starting" /\ driver' = "raised" /\ error'.kind = "JobStalled"
    BY <1>1, <2>4 DEF Quiet, DriverOnly, ErrorInStep, RestartNotMisreported, link, server
  <2> QED  BY <1>3, <2>1, <2>2, <2>3, <2>4
<1> QED  BY <1>1, <1>2, <1>4, DriverKeeps

(* Every list that a task may pop from is empty: so are all. *)
LEMMA AllEmpty ==
    ASSUME IInv, AllPopped PROVE \A k \in Nodes \cup {Shared} : lists[k] = {}
<1>1. ASSUME NEW n \in ToSet(nodes) PROVE KeyOf(n) \in {Shared} \cup ToSet(nodes)
  BY <1>1 DEF KeyOf
<1> QED  BY <1>1 DEF IInv, ListsOwned, AllPopped, InputLists

(* Ctrl-C, the event that the inputs are done, and the word of it to the head. *)
LEMMA PassKeeps ==
    ASSUME IInv, Interrupt \/ Passes \/ SetUploaded \/ PatchFails PROVE IInv'
<1>1. DriverOnly
  <2> USE DEF Holding
  <2>1. CASE Interrupt
    BY <2>1, FaultTyped DEF IInv, TypeOK, Interrupt, DriverOnly, start
  <2>2. CASE Passes
    BY <2>2 DEF IInv, TypeOK, Passes, Scanned, Scans, DriverOnly, start
  <2>3. CASE SetUploaded
    BY <2>3 DEF IInv, TypeOK, SetUploaded, DriverOnly, start
  <2>4. CASE PatchFails
    BY <2>4, FaultTyped DEF IInv, TypeOK, PatchFails, Raise, DriverOnly, start
  <2> QED  BY <2>1, <2>2, <2>3, <2>4
<1>2. UploadInStep'
  <2>1. CASE Interrupt
    BY <2>1, UploadKept DEF Interrupt
  <2>2. CASE Passes
    <3>1. \A k \in Nodes \cup {Shared} : lists[k] = {}
      BY <2>2, AllEmpty DEF Passes
    <3> QED  BY <2>2, <3>1 DEF IInv, UploadInStep, Passes
  <2>3. CASE SetUploaded \/ PatchFails
    BY <2>3 DEF IInv, UploadInStep, SetUploaded, PatchFails, Raise
  <2> QED  BY <2>1, <2>2, <2>3
<1>3. ErrorInStep'
  <2>1. CASE Interrupt \/ SetUploaded
    BY <1>1, <2>1, ErrorStays DEF Interrupt, SetUploaded, DriverOnly, StaysExcused, Excused, fleet,
       link, server
  <2>2. CASE Passes
    BY <2>2 DEF IInv, ErrorInStep, RestartNotMisreported, Passes, Scanned, Scans
  <2>3. CASE PatchFails
    BY <2>3 DEF PatchFails, Raise, ErrorInStep, RestartNotMisreported
  <2> QED  BY <2>1, <2>2, <2>3
<1> QED  BY <1>1, <1>2, <1>3, DriverKeeps

LEMMA NodesFailedToBootKeeps ==
    ASSUME IInv, NodesFailedToBoot PROVE IInv'
<1>1. /\ Driving /\ BootsFailed /\ driver' = "raised"
      /\ error' = [kind |-> "NodesFailedToBoot", node |-> Shared]
      /\ UNCHANGED <<start, fleet, client, link, server, got, ended, faults>>
  BY DEF NodesFailedToBoot, Raise, Scans, Driving
<1>2. DriverOnly /\ UploadInStep'
  BY <1>1, UploadKept DEF IInv, TypeOK, DriverOnly, Holding, start, client
<1>3. "lostEarly" \notin Faults => RestartNotMisreported'
  <2>1. BootingNodes' = BootingNodes /\ BootingNodes # {} /\ BootingNodes \subseteq Nodes
        /\ \A n \in BootingNodes : state[n] = "FAILED"
    BY <1>1 DEF BootsFailed, BootingNodes, IInv, TypeOK, ToSet, fleet
  <2>2. "lostEarly" \notin Faults => \A n \in BootingNodes :
             vm[n] \in {"failed", "hung", "stopping"} \/ post[n] # "none"
    BY <2>1 DEF IInv, InStep, FailureInStep
  <2> QED  BY <1>1, <2>1, <2>2 DEF RestartNotMisreported, link, server
<1>4. ErrorInStep'
  BY <1>1, <1>3 DEF ErrorInStep
<1> QED  BY <1>2, <1>4, DriverKeeps

LEMMA NodeFailedKeeps ==
    ASSUME IInv, NEW n \in Nodes, NodeFailed(n) PROVE IInv'
<1>1. /\ Driving /\ n \in FailedTasks /\ driver' = "raised"
      /\ error'.node = n
      /\ error'.kind \in {"ended", "HeadUnreachable", "Unauthorized", "NodeDisconnected"}
      /\ error'.kind = "NodeDisconnected" =>
           ~ended /\ state[n] # "BOOTING" /\ post[n] # "401"
      /\ UNCHANGED <<start, fleet, client, link, server, got, ended, faults>>
  BY DEF NodeFailed, Raise, Scans, Driving
<1>2. DriverOnly /\ UploadInStep'
  BY <1>1, UploadKept DEF IInv, TypeOK, DriverOnly, Holding, start, client
<1>3. "lostEarly" \notin Faults /\ error'.kind = "NodeDisconnected" =>
         Excused(n) /\ (n \in Late => post[n] = "200")
  <2>1. task[n] = "raised" \/ state[n] = "FAILED"
    BY <1>1 DEF FailedTasks
  <2> QED  BY <1>1, <2>1 DEF IInv, InStep, FailureInStep, Excused
<1>4. ErrorInStep'
  BY <1>1, <1>3 DEF ErrorInStep, RestartNotMisreported, Excused, link, server
<1> QED  BY <1>2, <1>4, DriverKeeps

LEMMA StalledKeeps ==
    ASSUME IInv, Stalled PROVE IInv'
<1>1. /\ \A n \in ToSet(nodes) : TaskDone(n)
      /\ driver' = "raised" /\ error' = [kind |-> "JobStalled", node |-> Shared]
      /\ UNCHANGED <<start, fleet, client, link, server, got, ended, faults>>
  BY DEF Stalled, AllTasksDone, Raise
<1>2. DriverOnly /\ UploadInStep'
  BY <1>1, UploadKept DEF IInv, TypeOK, DriverOnly, Holding, start, client
<1>3. ASSUME NEW n \in Nodes PROVE vm[n] # "working" /\ post[n] \notin {"sent", "accepted"}
  <2>1. CASE n \notin ToSet(nodes)
    BY <2>1 DEF IInv, InStep, TaskInStep, ServerInStep
  <2>2. CASE n \in ToSet(nodes)
    <3>1. task[n] \in {"returned", "raised"}
      BY <1>1, <2>2 DEF TaskDone
    <3> QED  BY <3>1 DEF IInv, InStep, TaskInStep, StateInStep, ServerInStep
  <2> QED  BY <2>1, <2>2
<1>4. ErrorInStep'
  BY <1>1, <1>3 DEF ErrorInStep, RestartNotMisreported, link, server
<1> QED  BY <1>2, <1>4, DriverKeeps

-----------------------------------------------------------------------------
(* The theorems.                                                            *)

LEMMA StepInv ==
    ASSUME ~SlowAssign, "answer" \notin Faults, IInv, [Next]_vars PROVE IInv'
<1>1. ASSUME NEW n \in Nodes, TaskStep(n) PROVE IInv'
  BY <1>1, SeesReadyKeeps, SeesFailedKeeps, SeesGoneKeeps, BootDeadlineKeeps, SendAssignKeeps,
     AssignOKKeeps, AssignRefusedKeeps, AssignUnauthorizedKeeps, GiveUpKeeps, GivenUpKeeps,
     PopChunkKeeps, NothingToUploadKeeps, UploadedKeeps, UploadFailsKeeps, BarrierBrokenKeeps,
     PollKeeps, PollDoneKeeps, PollFailsKeeps DEF TaskStep
<1>2. ASSUME NEW n \in Nodes, ServerStep(n) PROVE IInv'
  BY <1>2, VmBootsKeeps, AcceptKeeps, RefuseKeeps, BodyArrivedKeeps, AssignedKeeps,
     RebootedKeeps, TakeBackKeeps, RunKeeps DEF ServerStep
<1>3. CASE DriverStep
  BY <1>3, StartAnsweredKeeps, StartingKeeps, BarrierOpensKeeps, HandOverKeeps, NodeFailedKeeps,
     DiscoverKeeps, NodesFailedToBootKeeps, PassKeeps, StalledKeeps DEF DriverStep
<1>4. CASE FaultStep
  BY <1>4, StartingKeeps, PassKeeps, RestartKeeps, VmFailsToBootKeeps, StatusLostKeeps, NotAdmittedKeeps,
     GatewayErrorKeeps, GatewayRetryKeeps, NoWorkersKeeps, LoadFailsKeeps, CutKeeps, StopsKeeps,
     VmLostKeeps, HeadBootsReplacementKeeps, LeavesDrainedKeeps, StealKeeps DEF FaultStep
<1>5. CASE Rests \/ UNCHANGED vars
  BY <1>5, StartingKeeps DEF Rests
<1> QED  BY <1>1, <1>2, <1>3, <1>4, <1>5 DEF Next

(* The invariant of the call and its nodes. *)
THEOREM Invariance ==
    ASSUME ~SlowAssign, "answer" \notin Faults PROVE Spec => []IInv
<1>1. IInv /\ [Next]_vars => IInv'
  BY StepInv
<1> QED  BY <1>1, InitInv, PTL DEF Spec

(* No input is left in the list of a node that is done or on a node that  *)
(* nobody polls.                                                          *)
LEMMA InvTended == IInv => NoInputStranded
<1> SUFFICES ASSUME IInv, Driving, NEW i \in Inputs PROVE Tended(i)
  BY DEF NoInputStranded
<1>1. ASSUME NEW n \in Nodes, task[n] # "none"
      PROVE  Minded(n) \/ Removed(n) \/ state[n] = "DONE"
  BY DEF IInv, InStep, StateInStep, Minded, Removed
<1>2. Somewhere(i)
  BY DEF IInv, Conserved, Holding, Driving
<1>3. ASSUME NEW k \in Nodes \cup {Shared}, i \in lists[k] PROVE Tended(i)
  <2>1. PICK n \in ToSet(nodes) : KeyOf(n) = k
    BY <1>3 DEF IInv, ListsOwned
  <2>2. n \in Nodes /\ task[n] # "none"
    BY DEF IInv, TypeOK, ToSet, InStep, TaskInStep
  <2>3. state[n] # "DONE"
    BY <1>3, <2>2 DEF IInv, LeftDrained, Drained
  <2> QED  BY <1>1, <1>3, <2>1, <2>2, <2>3 DEF Tended
<1>4. ASSUME NEW n \in Nodes, i \in chunk[n] \cup held[n] \cup results[n] PROVE Tended(i)
  <2>1. InStep(n)
    BY DEF IInv
  <2>2. n \in ToSet(nodes)
    BY <1>4, <2>1 DEF InStep, TaskInStep, ServerInStep
  <2>3. Minded(n)
    <3>1. CASE i \in chunk[n]
      BY <2>1, <3>1 DEF InStep, TaskInStep, Minded
    <3>2. CASE i \in held[n] \cup results[n] /\ task[n] = "returned"
      <4>1. state[n] = "DONE" /\ results[n] = {}
        BY <2>1, <3>2 DEF InStep, StateInStep, ServerInStep
      <4> QED  BY <3>2, <4>1 DEF IInv, LeftDrained, Drained
    <3> QED  BY <1>4, <3>1, <3>2 DEF Minded
  <2> QED  BY <1>4, <2>2, <2>3 DEF Tended
<1> QED  BY <1>2, <1>3, <1>4 DEF Somewhere, Tended

(* A caller that detached has told the head, and left no input behind. *)
LEMMA InvDetached == IInv => DetachedKept
<1> SUFFICES ASSUME IInv, driver = "detached" PROVE DetachedKept
  BY DEF DetachedKept
<1>1. told /\ \A k \in Nodes \cup {Shared} : lists[k] = {}
  BY DEF IInv, UploadInStep
<1>2. \A i \in Inputs : Somewhere(i)
  BY DEF IInv, Conserved, Holding
<1> QED  BY <1>1, <1>2 DEF DetachedKept, Somewhere

(* A node the client dropped is not at work: it never took the job. *)
LEMMA InvDropped == IInv => DroppedHoldsNothing
BY DEF IInv, InStep, TaskInStep, StateInStep, ServerInStep, Removed, DroppedHoldsNothing

(* Every input of a call is in somebody's care until its result is there:   *)
(* refused assignments, hand-overs, replacements, thefts, lost machines and *)
(* departures leave none behind, a caller that detaches loses at most what  *)
(* was on its way, and no dropped node works on (InputsTended               *)
(* of JobDriver; the loop of _execute_job).                                 *)
THEOREM InputsStayTended ==
    ASSUME ~SlowAssign, "answer" \notin Faults PROVE Spec => []InputsTended
<1>1. IInv => InputsTended
  BY InvTended, InvDropped, InvDetached DEF IInv, InputsTended
<1> QED  BY <1>1, Invariance, PTL

(* What the call raises is right: it stalls only when no node works for it, *)
(* a disconnected node is one that failed alone or was lost with the job on *)
(* it, a replacement that did not come does not end the call, and a restart *)
(* is not reported as a failed boot (FailuresContained of JobDriver).       *)
THEOREM FailuresStayContained ==
    ASSUME ~SlowAssign, "answer" \notin Faults, "lostEarly" \notin Faults
    PROVE  Spec => []FailuresContained
<1>1. IInv => FailuresContained
  BY DEF IInv, ErrorInStep, Excused, FailuresContained, AssignmentFailureSurvived,
     ReplacementFailureSurvived
<1> QED  BY <1>1, Invariance, PTL
=============================================================================
