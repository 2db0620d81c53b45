--------------------------- MODULE WorkerPoolProofs ---------------------------
(* Proofs about WorkerPool, for every number of workers and inputs and every
   combination of faults, unless a theorem names the faults it excludes. *)
EXTENDS WorkerPool, FiniteSetTheorems, TLAPS

(* Where _process_inputs stands with no input in hand. *)
EmptyHanded == {"top", "handoff", "wait", "get", "returned"}

(* An input loop that is past get() remembers its input until it is done with it,
   and current_input names the same one unless the worker was retired. *)
LoopInv == \A w \in Workers :
    /\ worker[w].at \in EmptyHanded =>
           worker[w].current = NoInput /\ worker[w].input = NoInput
    /\ worker[w].at \notin EmptyHanded =>
           /\ worker[w].input \in Inputs
           /\ worker[w].current \in {worker[w].input, NoInput}
           /\ worker[w].life # "retired" => worker[w].current = worker[w].input

(* An input is the current one of one worker, or queued, or a peer's, or has its
   one result. *)
SingleOwner ==
    /\ \A w, v \in Workers : w # v /\ worker[w].current = worker[v].current
                                => worker[w].current = NoInput
    /\ \A w \in Workers : worker[w].current \notin queue \cup handed
    /\ queue \cap handed = {}
    /\ \A i \in Inputs : resultsOf[i] \in {0, 1}
    /\ \A i \in Inputs : resultsOf[i] = 1 =>
           i \notin queue \cup handed /\ \A w \in Workers : worker[w].current # i

(* Processes end and containers stop only by a fault of the behaviour; until a
   container is lost, a worker off the pool has no input and asks for none, and
   one on it has a container. *)
Blamed(r) == r.proc \in {"stale", "relaunched"} => "process" \in faults

Sound(r) ==
    /\ r.life # "active" => r.current = NoInput /\ r.at \notin EmptyHanded \ {"returned"}
    /\ r.life = "active" => r.proc # "gone"

Processes ==
    /\ \A w \in Workers : Blamed(worker[w])
    /\ ~ContainerLost => \A w \in Workers : Sound(worker[w])

IInv == TypeOK /\ LoopInv /\ SingleOwner /\ Processes

(* No input is anywhere but in the queue, with a worker, with a peer or done. *)
Kept ==
    stage = "running" /\ ~ContainerLost => \A i \in Inputs :
        \/ i \in queue \cup handed
        \/ \E w \in Workers : worker[w].current = i
        \/ resultsOf[i] > 0

(* Every container with the 1% quota is one whose worker says so. *)
SlowKnown == slow \subseteq KnownThrottled
-----------------------------------------------------------------------------
(* A set of workers can be counted. *)
LEMMA WorkersCount ==
    ASSUME NEW V \in SUBSET Workers
    PROVE  Cardinality(V) \in Nat
BY WorkersAssumption, FS_Subset, FS_CardinalityType

(* So can the queue. *)
LEMMA QueueCount ==
    ASSUME TypeOK
    PROVE  Cardinality(queue) \in Nat
BY InputsAssumption, FS_Subset, FS_CardinalityType DEF TypeOK

(* A fresh WorkerClient is a worker. *)
LEMMA FreshType ==
    /\ Fresh("active") \in Worker
    /\ Fresh("spare") \in Worker
BY DEF Fresh, Worker

(* Retiring workers leaves workers. *)
LEMMA RetiredType ==
    ASSUME TypeOK, NEW V \in SUBSET Workers
    PROVE  Retired(V) \in [Workers -> Worker]
<1>1. ASSUME NEW r \in Worker
      PROVE  [r EXCEPT !.life = "retired", !.current = NoInput,
                !.proc = IF @ \in {"up", "relaunched"} THEN "gone" ELSE @] \in Worker
  BY DEF Worker
<1> QED
  BY <1>1 DEF TypeOK, Retired

(* Resuming a worker leaves workers. *)
LEMMA ResumedType ==
    ASSUME TypeOK, NEW v \in Workers
    PROVE  Resumed(v) \in [Workers -> Worker]
<1>1. [worker[v] EXCEPT !.throttled = FALSE, !.swapParked = FALSE] \in Worker
  BY DEF TypeOK, Worker
<1>2. Resumed(v) = [worker EXCEPT ![v] =
                       [worker[v] EXCEPT !.throttled = FALSE, !.swapParked = FALSE]]
  BY DEF TypeOK, Resumed, Worker
<1> QED
  BY <1>1, <1>2 DEF TypeOK

(* Moving an input loop leaves workers. *)
LEMMA GotoType ==
    ASSUME NEW f \in [Workers -> Worker], NEW w \in Workers,
           NEW label \in {"top", "handoff", "wait", "get", "call", "result", "error",
                          "lastError", "failing", "failed", "returned"}
    PROVE  [f EXCEPT ![w].at = label] \in [Workers -> Worker]
BY DEF Worker

(* Every step preserves the types. *)
LEMMA TypeStep ==
    ASSUME TypeOK, LoopInv, [Next]_vars
    PROVE  TypeOK'
<1>1. ASSUME NEW w \in Workers, ShedSelf(w) PROVE TypeOK'
  <2>1. worker' \in [Workers -> Worker]
    <3>1. Retired({w}) \in [Workers -> Worker]
      BY RetiredType
    <3>2. [Retired({w}) EXCEPT ![w].at = "returned"] \in [Workers -> Worker]
      BY <3>1, GotoType
    <3> QED
      BY <1>1, <3>2 DEF ShedSelf
  <2>2. toShed' \in Nat /\ reboot' \in BOOLEAN
    BY <1>1 DEF ShedSelf, TypeOK
  <2> QED
    BY <1>1, <2>1, <2>2 DEF ShedSelf, TypeOK, jobVars, modeVars
<1>2. ASSUME NEW w \in Workers, LoopTop(w) PROVE TypeOK'
  BY <1>2 DEF LoopTop, Goto, TypeOK, Worker, jobVars, slotVars, modeVars
<1>3. ASSUME NEW w \in Workers, Handoff(w) PROVE TypeOK'
  <2>1. CASE Goto(w, "wait") /\ UNCHANGED slow
    BY <1>3, <2>1 DEF Handoff, Goto, TypeOK, Worker, jobVars, slotVars, modeVars
  <2>2. ASSUME NEW v \in Resumable, worker' = [Resumed(v) EXCEPT ![w].at = "wait"],
               slow' = slow \ {v}
        PROVE  TypeOK'
    <3>1. v \in Workers
      BY DEF Resumable, Parked, Active
    <3>2. worker' \in [Workers -> Worker]
      BY <2>2, <3>1, ResumedType, GotoType
    <3> QED
      BY <1>3, <2>2, <3>2 DEF Handoff, TypeOK, jobVars, slotVars, modeVars
  <2> QED
    BY <1>3, <2>1, <2>2 DEF Handoff
<1>4. ASSUME NEW w \in Workers, StopWaiting(w) PROVE TypeOK'
  BY <1>4 DEF StopWaiting, Goto, TypeOK, Worker, jobVars, slotVars, modeVars
<1>5. ASSUME NEW w \in Workers, NEW i \in Inputs, TakeInput(w, i) PROVE TypeOK'
  <2>1. [worker[w] EXCEPT !.current = i, !.input = i, !.at = "call"] \in Worker
    BY DEF TypeOK, Worker
  <2>2. worker' = [worker EXCEPT ![w] =
                      [worker[w] EXCEPT !.current = i, !.input = i, !.at = "call"]]
    BY <1>5 DEF TakeInput, TypeOK, Worker
  <2>3. worker' \in [Workers -> Worker]
    BY <2>1, <2>2 DEF TypeOK
  <2> QED
    BY <1>5, <2>3 DEF TakeInput, TypeOK, slotVars, modeVars
<1>6. ASSUME NEW w \in Workers, CallEnds(w) \/ CallBreaks(w) PROVE TypeOK'
  BY <1>6 DEF CallEnds, CallBreaks, Goto, TypeOK, Worker, jobVars, slotVars, modeVars
<1>7. ASSUME NEW w \in Workers, Conclude(w) PROVE TypeOK'
  <2>1. worker' \in [Workers -> Worker]
    BY <1>7 DEF Conclude, TypeOK, Worker
  <2>2. resultsOf' \in [Inputs -> Nat]
    BY <1>7 DEF Conclude, PutResult, TypeOK
  <2>3. erred' \in BOOLEAN
    BY <1>7 DEF Conclude, TypeOK
  <2> QED
    BY <1>7, <2>1, <2>2, <2>3 DEF Conclude, TypeOK, slotVars, modeVars
<1>8. ASSUME NEW w \in Workers, HandleFailure(w) PROVE TypeOK'
  <2>1. worker' \in [Workers -> Worker]
    <3>1. PICK at \in {"returned", "error", "failed", "lastError"} :
              worker' = [worker EXCEPT
                ![w].input = IF Intended(w) THEN NoInput ELSE @,
                ![w].current = IF Intended(w) THEN NoInput ELSE @,
                ![w].at = at]
      BY <1>8 DEF HandleFailure
    <3>2. PICK i, c \in Inputs \cup {NoInput} :
              worker' = [worker EXCEPT ![w].input = i, ![w].current = c, ![w].at = at]
      BY <3>1 DEF TypeOK, Worker
    <3>3. [worker[w] EXCEPT !.input = i, !.current = c, !.at = at] \in Worker
      <4>1. worker[w] \in Worker
        BY DEF TypeOK
      <4> QED
        BY <4>1 DEF Worker
    <3>4. worker' = [worker EXCEPT ![w] =
                        [worker[w] EXCEPT !.input = i, !.current = c, !.at = at]]
      BY <3>2 DEF TypeOK, Worker
    <3> QED
      BY <3>3, <3>4 DEF TypeOK
  <2> QED
    BY <1>8, <2>1 DEF HandleFailure, TypeOK, jobVars, slotVars, modeVars
<1>9. ASSUME NEW w \in Workers, RetireAfterFailure(w) PROVE TypeOK'
  <2>1. worker' \in [Workers -> Worker]
    BY <1>9 DEF RetireAfterFailure, TypeOK, Worker
  <2>2. worker[w].input \in Inputs
    BY <1>9 DEF RetireAfterFailure, At, LoopInv, EmptyHanded
  <2>3. queue' \subseteq Inputs /\ resultsOf' \in [Inputs -> Nat]
    BY <1>9, <2>2 DEF RetireAfterFailure, PutResult, TypeOK
  <2> QED
    BY <1>9, <2>1, <2>3 DEF RetireAfterFailure, TypeOK, modeVars
<1>10. ASSUME NEW w \in Workers, ParkOne(w) PROVE TypeOK'
  <2>1. worker' \in [Workers -> Worker]
    <3>1. ASSUME NEW fits \in BOOLEAN, NEW swap \in BOOLEAN,
                 worker' = [worker EXCEPT ![w].throttled = TRUE, ![w].reclaiming = TRUE,
                              ![w].swapParked = swap, ![w].fits = fits]
          PROVE  worker' \in [Workers -> Worker]
      <4>1. [worker[w] EXCEPT !.throttled = TRUE, !.reclaiming = TRUE,
                              !.swapParked = swap, !.fits = fits] \in Worker
        <5>1. worker[w] \in Worker
          BY DEF TypeOK
        <5> QED
          BY <5>1 DEF Worker
      <4>2. worker' = [worker EXCEPT ![w] =
                          [worker[w] EXCEPT !.throttled = TRUE, !.reclaiming = TRUE,
                                            !.swapParked = swap, !.fits = fits]]
        BY <3>1 DEF TypeOK, Worker
      <4> QED
        BY <4>1, <4>2 DEF TypeOK
    <3>2. (worker[w].proc # "stale") \in BOOLEAN
      OBVIOUS
    <3> QED
      BY <1>10, <3>1, <3>2 DEF ParkOne, TypeOK
  <2> QED
    BY <1>10, <2>1 DEF ParkOne, TypeOK, jobVars, slotVars
<1>11. ASSUME NEW w \in Workers, ReclaimEnds(w) \/ MemoryFrees(w) PROVE TypeOK'
  <2>1. /\ [worker[w] EXCEPT !.reclaiming = FALSE] \in Worker
        /\ [worker[w] EXCEPT !.fits = TRUE] \in Worker
    <3>1. worker[w] \in Worker
      BY DEF TypeOK
    <3> QED
      BY <3>1 DEF Worker
  <2>2. worker' \in [Workers -> Worker]
    BY <1>11, <2>1 DEF ReclaimEnds, MemoryFrees, TypeOK
  <2> QED
    BY <1>11, <2>2 DEF ReclaimEnds, MemoryFrees, TypeOK, jobVars, slotVars, modeVars
<1>12. ASSUME NEW w \in Workers, Relocate(w) PROVE TypeOK'
  <2>1. CASE worker' = [worker EXCEPT ![w].proc = "relaunched"] /\ UNCHANGED reboot
    BY <1>12, <2>1 DEF Relocate, TypeOK, Worker, jobVars, modeVars
  <2>2. CASE worker' = [worker EXCEPT ![w].life = "retired"] /\ reboot' = TRUE
    BY <1>12, <2>2 DEF Relocate, TypeOK, Worker, jobVars, modeVars
  <2> QED
    BY <1>12, <2>1, <2>2 DEF Relocate
<1>13. ASSUME KillForPressure \/ KillUnresumable PROVE TypeOK'
  <2>1. PICK V \in SUBSET Workers : RetireForPressure(V)
    BY <1>13 DEF KillForPressure, KillUnresumable, Busy, Active
  <2>2. worker' \in [Workers -> Worker]
    BY <2>1, RetiredType DEF RetireForPressure
  <2>3. queue' \subseteq Inputs
    <3>1. \A v \in V : worker[v].current \in Inputs
      BY <2>1 DEF RetireForPressure, Killable, Busy, TypeOK, Worker
    <3> QED
      BY <2>1, <3>1 DEF RetireForPressure, CurrentInputs, TypeOK
  <2>4. monitorUp' \in BOOLEAN
    BY <2>1 DEF RetireForPressure, TypeOK
  <2>5. sheds' \in 0..MaxSheds
    BY <1>13, BoundsAssumption DEF KillForPressure, KillUnresumable, TypeOK
  <2> QED
    BY <1>13, <2>1, <2>2, <2>3, <2>4, <2>5
       DEF KillForPressure, KillUnresumable, RetireForPressure, TypeOK
<1>14. ASSUME BeginPark PROVE TypeOK'
  <2>1. parking' \subseteq Workers
    BY <1>14 DEF BeginPark
  <2>2. sheds' \in 0..MaxSheds
    BY <1>14, BoundsAssumption DEF BeginPark, TypeOK
  <2> QED
    BY <1>14, <2>1, <2>2 DEF BeginPark, TypeOK, jobVars, slotVars
<1>15. ASSUME MonitorReturns PROVE TypeOK'
  BY <1>15 DEF MonitorReturns, TypeOK, poolVars, jobVars, slotVars
<1>16. ASSUME RecoverParked PROVE TypeOK'
  <2>1. PICK v \in Resumable : worker' = Resumed(v) /\ slow' = slow \ {v}
    BY <1>16 DEF RecoverParked
  <2>2. worker' \in [Workers -> Worker]
    BY <2>1, ResumedType DEF Resumable, Parked, Active
  <2> QED
    BY <1>16, <2>1, <2>2 DEF RecoverParked, TypeOK, jobVars, slotVars, modeVars
<1>17. ASSUME ReaddWorker PROVE TypeOK'
  <2>1. worker' \in [Workers -> Worker]
    BY <1>17, FreshType DEF ReaddWorker, TypeOK
  <2>2. target' \in Nat
    BY <1>17 DEF ReaddWorker, TypeOK
  <2>3. slow' \subseteq Workers
    BY <1>17 DEF ReaddWorker, TypeOK
  <2> QED
    BY <1>17, <2>1, <2>2, <2>3 DEF ReaddWorker, TypeOK, jobVars, modeVars
<1>18. ASSUME RevokeForPeer PROVE TypeOK'
  <2>1. PICK V \in SUBSET Workers :
            /\ Revocable(V)
            /\ worker' = Retired(V)
            /\ slow' = slow \ {v \in V : worker'[v].proc = "gone"}
            /\ handed' = IF KillRaises(V) THEN handed ELSE handed \cup CurrentInputs(V)
    BY <1>18 DEF RevokeForPeer
  <2>2. worker' \in [Workers -> Worker]
    BY <2>1, RetiredType
  <2>3. handed' \subseteq Inputs
    <3>1. \A v \in V : worker[v].current \in Inputs
      BY <2>1 DEF Revocable, Busy, TypeOK, Worker
    <3> QED
      BY <2>1, <3>1 DEF CurrentInputs, TypeOK
  <2>4. shocks' \in 0..MaxShocks
    BY <1>18, BoundsAssumption DEF RevokeForPeer, TypeOK
  <2> QED
    BY <1>18, <2>1, <2>2, <2>3, <2>4 DEF RevokeForPeer, TypeOK
<1>19. ASSUME RollBackMint PROVE TypeOK'
  <2>1. target' \in Nat /\ toShed' \in Nat
    BY <1>19 DEF RollBackMint, TypeOK
  <2>2. shocks' \in 0..MaxShocks
    BY <1>19, BoundsAssumption DEF RollBackMint, TypeOK
  <2> QED
    BY <1>19, <2>1, <2>2 DEF RollBackMint, TypeOK, poolVars, jobVars
<1>20. ASSUME ShedIdle PROVE TypeOK'
  <2>1. PICK V \in SUBSET {w \in Active \ Busy : Idle(w)} :
            /\ \/ Cardinality(V) = toShed
               \/ Cardinality(V) < toShed
            /\ toShed' = toShed - Cardinality(V)
            /\ worker' = [v \in Workers |->
                IF v \in V THEN [Retired(V)[v] EXCEPT !.at = "returned"] ELSE worker[v]]
            /\ slow' = slow \ {v \in V : worker'[v].proc = "gone"}
            /\ stage' = IF KillRaises(V) THEN "failed" ELSE stage
    BY <1>20 DEF ShedIdle
  <2>2. V \in SUBSET Workers
    BY DEF Active
  <2>3. worker' \in [Workers -> Worker]
    <3>1. ASSUME NEW r \in Worker PROVE [r EXCEPT !.at = "returned"] \in Worker
      BY DEF Worker
    <3> QED
      BY <2>1, <2>2, <3>1, RetiredType DEF TypeOK
  <2>4. toShed' \in Nat
    BY <2>1, <2>2, WorkersCount DEF TypeOK
  <2> QED
    BY <1>20, <2>1, <2>3, <2>4 DEF ShedIdle, TypeOK, jobVars
<1>21. ASSUME ReclaimStranded PROVE TypeOK'
  BY <1>21, QueueCount DEF ReclaimStranded, TypeOK, poolVars, jobVars, modeVars
<1>22. ASSUME NEW w \in Workers, ProcessEnds(w) \/ ContainerStops(w) PROVE TypeOK'
  <2>1. worker' \in [Workers -> Worker]
    BY <1>22 DEF ProcessEnds, ContainerStops, TypeOK, Worker
  <2>2. shocks' \in 0..MaxShocks
    BY <1>22, BoundsAssumption DEF ProcessEnds, ContainerStops, TypeOK
  <2> QED
    BY <1>22, <2>1, <2>2 DEF ProcessEnds, ContainerStops, TypeOK, jobVars, slotVars
<1>23. ASSUME EndJob PROVE TypeOK'
  <2>1. worker' \in [Workers -> Worker]
    BY <1>23, FreshType DEF EndJob
  <2>2. slow' \subseteq Workers
    BY <1>23 DEF EndJob, TypeOK
  <2> QED
    <3>1. sheds' \in 0..MaxSheds /\ shocks' \in 0..MaxShocks
      BY <1>23, BoundsAssumption DEF EndJob
    <3> QED
      BY <1>23, <2>1, <2>2, <3>1 DEF EndJob, TypeOK
<1>24. ASSUME UNCHANGED vars PROVE TypeOK'
  BY <1>24 DEF TypeOK, vars, poolVars, jobVars, slotVars, modeVars
<1> QED
  BY <1>1, <1>2, <1>3, <1>4, <1>5, <1>6, <1>7, <1>8, <1>9, <1>10, <1>11, <1>12, <1>13,
     <1>14, <1>15, <1>16, <1>17, <1>18, <1>19, <1>20, <1>21, <1>22, <1>23, <1>24
     DEF Next, InputLoop, Over

-----------------------------------------------------------------------------
(* A step that hands no input to anyone: at most it retires a worker or moves an
   input loop between two places with, or two without, an input in hand. *)
Quiet ==
    /\ \A w \in Workers :
           /\ worker'[w].current = worker[w].current
           /\ worker'[w].input = worker[w].input
           /\ worker'[w].life \in {worker[w].life, "retired"}
           /\ worker'[w].at \in EmptyHanded <=> worker[w].at \in EmptyHanded
    /\ UNCHANGED <<queue, handed, resultsOf>>

(* Such a step leaves every input with its owner. *)
LEMMA QuietStep ==
    ASSUME LoopInv, SingleOwner, Quiet
    PROVE  LoopInv' /\ SingleOwner'
<1>1. LoopInv'
  BY DEF LoopInv, Quiet
<1>2. SingleOwner'
  BY DEF SingleOwner, Quiet
<1> QED
  BY <1>1, <1>2

(* The actions that are quiet. *)
LEMMA QuietActions ==
    ASSUME TypeOK, Next,
           \/ \E w \in Workers :
                 \/ LoopTop(w) \/ Handoff(w) \/ StopWaiting(w)
                 \/ CallEnds(w) \/ CallBreaks(w)
                 \/ ParkOne(w) \/ ReclaimEnds(w) \/ Relocate(w) \/ MemoryFrees(w)
                 \/ ProcessEnds(w) \/ ContainerStops(w)
           \/ BeginPark \/ MonitorReturns \/ RecoverParked
           \/ RollBackMint \/ ReclaimStranded
    PROVE  Quiet
<1> USE DEF Quiet
<1>1. ASSUME NEW w \in Workers,
             LoopTop(w) \/ StopWaiting(w) \/ CallEnds(w) \/ CallBreaks(w)
      PROVE  Quiet
  BY <1>1 DEF LoopTop, StopWaiting, CallEnds, CallBreaks, At, Goto, EmptyHanded, TypeOK,
              Worker, jobVars
<1>2. ASSUME NEW w \in Workers, Handoff(w) PROVE Quiet
  <2>1. CASE worker' = [worker EXCEPT ![w].at = "wait"]
    BY <1>2, <2>1 DEF Handoff, At, EmptyHanded, TypeOK, Worker, jobVars
  <2>2. ASSUME NEW v \in Workers, worker' = [Resumed(v) EXCEPT ![w].at = "wait"]
        PROVE  Quiet
    BY <1>2, <2>2 DEF Handoff, At, Resumed, EmptyHanded, TypeOK, Worker, jobVars
  <2> QED
    BY <1>2, <2>1, <2>2 DEF Handoff, Goto, Resumable, Parked, Active
<1>3. ASSUME NEW w \in Workers, ParkOne(w) PROVE Quiet
  <2>1. ASSUME NEW fits \in BOOLEAN, NEW swap \in BOOLEAN,
               worker' = [worker EXCEPT ![w].throttled = TRUE, ![w].reclaiming = TRUE,
                            ![w].swapParked = swap, ![w].fits = fits]
        PROVE  Quiet
    <3>1. /\ worker'[w].current = worker[w].current
          /\ worker'[w].input = worker[w].input
          /\ worker'[w].life = worker[w].life
          /\ worker'[w].at = worker[w].at
          /\ \A v \in Workers \ {w} : worker'[v] = worker[v]
      BY <2>1 DEF TypeOK, Worker
    <3> QED
      BY <1>3, <3>1 DEF ParkOne, jobVars
  <2>2. (worker[w].proc # "stale") \in BOOLEAN
    OBVIOUS
  <2> QED
    BY <1>3, <2>1, <2>2 DEF ParkOne, jobVars
<1>4. ASSUME NEW w \in Workers, ReclaimEnds(w) \/ MemoryFrees(w) PROVE Quiet
  BY <1>4 DEF ReclaimEnds, MemoryFrees, TypeOK, Worker, jobVars
<1>5. ASSUME NEW w \in Workers, Relocate(w) PROVE Quiet
  BY <1>5 DEF Relocate, TypeOK, Worker, jobVars
<1>6. ASSUME NEW w \in Workers, ProcessEnds(w) \/ ContainerStops(w) PROVE Quiet
  BY <1>6 DEF ProcessEnds, ContainerStops, TypeOK, Worker, jobVars
<1>7. ASSUME RecoverParked PROVE Quiet
  <2>1. PICK v \in Workers : worker' = Resumed(v)
    BY <1>7 DEF RecoverParked, Resumable, Parked, Active
  <2> QED
    BY <1>7, <2>1 DEF RecoverParked, Resumed, TypeOK, Worker, jobVars
<1>8. ASSUME BeginPark \/ MonitorReturns \/ RollBackMint \/ ReclaimStranded PROVE Quiet
  BY <1>8 DEF BeginPark, MonitorReturns, RollBackMint, ReclaimStranded, poolVars, jobVars
<1> QED
  BY <1>1, <1>2, <1>3, <1>4, <1>5, <1>6, <1>7, <1>8

(* What retiring a set of workers does to each of them. *)
LEMMA RetiredWorkers ==
    ASSUME TypeOK, NEW V \in SUBSET Workers
    PROVE  \A w \in Workers :
               /\ Retired(V)[w].at = worker[w].at
               /\ Retired(V)[w].input = worker[w].input
               /\ Retired(V)[w].current = IF w \in V THEN NoInput ELSE worker[w].current
               /\ Retired(V)[w].life = IF w \in V THEN "retired" ELSE worker[w].life
               /\ w \notin V => Retired(V)[w] = worker[w]
               /\ w \in V => Retired(V)[w].proc =
                                IF worker[w].proc \in {"up", "relaunched"}
                                THEN "gone" ELSE worker[w].proc
BY DEF TypeOK, Retired, Worker

(* Every step keeps what the input loops remember. *)
LEMMA LoopStep ==
    ASSUME TypeOK, LoopInv, SingleOwner, [Next]_vars
    PROVE  LoopInv'
<1>1. CASE Next /\ Quiet
  BY <1>1, QuietStep
<1>2. ASSUME NEW w \in Workers, ShedSelf(w) PROVE LoopInv'
  BY <1>2, RetiredWorkers, RetiredType DEF ShedSelf, At, EmptyHanded, LoopInv, Worker
<1>3. ASSUME NEW w \in Workers, NEW i \in Inputs, TakeInput(w, i) PROVE LoopInv'
  BY <1>3 DEF TakeInput, EmptyHanded, LoopInv, TypeOK, Worker
<1>4. ASSUME NEW w \in Workers, Conclude(w) PROVE LoopInv'
  BY <1>4 DEF Conclude, EmptyHanded, LoopInv, TypeOK, Worker
<1>5. ASSUME NEW w \in Workers, HandleFailure(w) PROVE LoopInv'
  BY <1>5 DEF HandleFailure, Intended, At, EmptyHanded, LoopInv, TypeOK, Worker
<1>6. ASSUME NEW w \in Workers, RetireAfterFailure(w) PROVE LoopInv'
  BY <1>6 DEF RetireAfterFailure, EmptyHanded, LoopInv, TypeOK, Worker
<1>7. ASSUME NEW V \in SUBSET Workers, worker' = Retired(V) PROVE LoopInv'
  BY <1>7, RetiredWorkers DEF LoopInv
<1>8. ASSUME ShedIdle PROVE LoopInv'
  <2>1. PICK V \in SUBSET {w \in Active \ Busy : Idle(w)} :
            worker' = [v \in Workers |->
                IF v \in V THEN [Retired(V)[v] EXCEPT !.at = "returned"] ELSE worker[v]]
    BY <1>8 DEF ShedIdle
  <2>2. V \in SUBSET Workers
    BY DEF Active
  <2>3. \A v \in V : worker[v].at \in EmptyHanded
    BY DEF Idle, EmptyHanded
  <2> QED
    BY <2>1, <2>2, <2>3, RetiredWorkers, RetiredType DEF EmptyHanded, LoopInv, Worker
<1>9. ASSUME ReaddWorker PROVE LoopInv'
  BY <1>9 DEF ReaddWorker, Fresh, EmptyHanded, LoopInv, TypeOK
<1>10. ASSUME EndJob PROVE LoopInv'
  BY <1>10 DEF EndJob, Fresh, EmptyHanded, LoopInv
<1>11. CASE UNCHANGED vars
  BY <1>11 DEF LoopInv, vars, poolVars
<1>12. ASSUME KillForPressure \/ KillUnresumable PROVE LoopInv'
  BY <1>7, <1>12 DEF KillForPressure, KillUnresumable, RetireForPressure, Busy, Active
<1>13. ASSUME RevokeForPeer PROVE LoopInv'
  BY <1>7, <1>13 DEF RevokeForPeer
<1> QED
  BY <1>1, <1>2, <1>3, <1>4, <1>5, <1>6, <1>8, <1>9, <1>10, <1>11, <1>12, <1>13,
     QuietActions DEF Next, InputLoop, Over

(* Every step leaves an input with one owner. *)
LEMMA SingleOwnerStep ==
    ASSUME TypeOK, LoopInv, SingleOwner, [Next]_vars
    PROVE  SingleOwner'
<1>1. CASE Next /\ Quiet
  BY <1>1, QuietStep
<1>2. ASSUME NEW w \in Workers, ShedSelf(w) PROVE SingleOwner'
  <2>1. \A v \in Workers : worker'[v].current = worker[v].current
    BY <1>2, RetiredWorkers, RetiredType DEF ShedSelf, At, EmptyHanded, LoopInv, Worker
  <2>2. UNCHANGED <<queue, handed, resultsOf>>
    BY <1>2 DEF ShedSelf, jobVars
  <2> QED
    BY <2>1, <2>2 DEF SingleOwner
<1>3. ASSUME NEW w \in Workers, NEW i \in Inputs, TakeInput(w, i) PROVE SingleOwner'
  <2>1. /\ worker'[w].current = i
        /\ \A v \in Workers \ {w} : worker'[v].current = worker[v].current
    BY <1>3 DEF TakeInput, TypeOK, Worker
  <2> QED
    BY <1>3, <2>1, NoInputAssumption DEF TakeInput, SingleOwner, TypeOK
<1>4. ASSUME NEW w \in Workers, worker'[w].current = NoInput,
             \A v \in Workers \ {w} : worker'[v].current = worker[v].current,
             UNCHANGED <<queue, handed>>,
             \/ UNCHANGED resultsOf
             \/ worker[w].current \in Inputs /\ PutResult(worker[w].current)
      PROVE  SingleOwner'
  <2>1. NoInput \notin queue \cup handed
    BY NoInputAssumption DEF TypeOK
  <2>2. CASE UNCHANGED resultsOf
    BY <1>4, <2>1, <2>2, NoInputAssumption DEF SingleOwner, TypeOK
  <2>3. CASE worker[w].current \in Inputs /\ PutResult(worker[w].current)
    <3> DEFINE i == worker[w].current
    <3>1. resultsOf[i] = 0 /\ resultsOf' = [resultsOf EXCEPT ![i] = 1]
      <4>1. resultsOf[i] = 0
        BY <2>3 DEF SingleOwner
      <4>2. resultsOf' = [resultsOf EXCEPT ![i] = resultsOf[i] + 1]
        BY <2>3 DEF PutResult
      <4> QED
        BY <4>1, <4>2
    <3>2. i \notin queue \cup handed /\ \A v \in Workers : worker'[v].current # i
      BY <1>4, <2>3, NoInputAssumption DEF SingleOwner
    <3>3. \A v \in Workers : worker'[v].current \in {worker[v].current, NoInput}
      BY <1>4
    <3> HIDE DEF i
    <3> QED
      BY <1>4, <2>1, <3>1, <3>2, <3>3, NoInputAssumption DEF SingleOwner, TypeOK
  <2> QED
    BY <1>4, <2>2, <2>3
<1>5. ASSUME NEW w \in Workers, Conclude(w) PROVE SingleOwner'
  <2>1. /\ worker'[w].current = NoInput
        /\ \A v \in Workers \ {w} : worker'[v].current = worker[v].current
    BY <1>5 DEF Conclude, TypeOK, Worker
  <2>2. ~Dropped(w) => worker[w].current = worker[w].input /\ worker[w].current \in Inputs
    BY <1>5 DEF Conclude, Dropped, EmptyHanded, LoopInv
  <2> QED
    BY <1>4, <1>5, <2>1, <2>2 DEF Conclude
<1>6. ASSUME NEW w \in Workers, HandleFailure(w) PROVE SingleOwner'
  <2>1. /\ worker'[w].current \in {worker[w].current, NoInput}
        /\ \A v \in Workers \ {w} : worker'[v].current = worker[v].current
    BY <1>6 DEF HandleFailure, TypeOK, Worker
  <2> QED
    BY <1>6, <2>1, NoInputAssumption DEF HandleFailure, SingleOwner, TypeOK, jobVars
<1>7. ASSUME NEW w \in Workers, RetireAfterFailure(w) PROVE SingleOwner'
  <2>1. /\ worker'[w].current = NoInput
        /\ \A v \in Workers \ {w} : worker'[v].current = worker[v].current
    BY <1>7 DEF RetireAfterFailure, TypeOK, Worker
  <2>2. worker[w].current # NoInput =>
            worker[w].current = worker[w].input /\ worker[w].current \in Inputs
    BY <1>7 DEF RetireAfterFailure, At, EmptyHanded, LoopInv
  <2>3. CASE queue' = queue
    BY <1>4, <1>7, <2>1, <2>2, <2>3 DEF RetireAfterFailure
  <2>4. CASE queue' # queue
    <3>1. /\ worker[w].current # NoInput
          /\ queue' = queue \cup {worker[w].current}
          /\ UNCHANGED <<resultsOf, handed>>
      BY <1>7, <2>2, <2>4 DEF RetireAfterFailure
    <3>2. \A v \in Workers : worker'[v].current \in {worker[v].current, NoInput}
      BY <2>1
    <3> QED
      BY <2>1, <2>2, <3>1, <3>2, NoInputAssumption DEF SingleOwner, TypeOK
  <2> QED
    BY <2>3, <2>4
<1>8. ASSUME NEW V \in SUBSET Workers, worker' = Retired(V), V \subseteq Busy,
             UNCHANGED resultsOf,
             \/ queue' = queue \cup CurrentInputs(V) /\ UNCHANGED handed
             \/ handed' = handed \cup CurrentInputs(V) /\ UNCHANGED queue
             \/ UNCHANGED <<queue, handed>>
      PROVE  SingleOwner'
  <2>1. \A w \in Workers :
            worker'[w].current = IF w \in V THEN NoInput ELSE worker[w].current
    BY <1>8, RetiredWorkers
  <2>2. \A v \in V : worker[v].current \in Inputs
    BY <1>8 DEF Busy, TypeOK, Worker
  <2>3. \A i \in CurrentInputs(V) :
            /\ i \in Inputs /\ i \notin queue \cup handed /\ resultsOf[i] # 1
            /\ \A w \in Workers : worker'[w].current # i
    <3> SUFFICES ASSUME NEW v \in V
                 PROVE  LET i == worker[v].current IN
                        /\ i \in Inputs /\ i \notin queue \cup handed /\ resultsOf[i] # 1
                        /\ \A w \in Workers : worker'[w].current # i
      BY DEF CurrentInputs
    <3> QED
      BY <2>1, <2>2, NoInputAssumption DEF SingleOwner
  <2>4. NoInput \notin queue' \cup handed'
    BY <1>8, <2>3, NoInputAssumption DEF TypeOK
  <2>5. queue' \cap handed' = {}
    BY <1>8, <2>3 DEF SingleOwner
  <2>6. \A w \in Workers : worker'[w].current \notin queue' \cup handed'
    BY <1>8, <2>1, <2>3, <2>4 DEF SingleOwner
  <2>7. \A i \in Inputs : resultsOf'[i] = 1 =>
            i \notin queue' \cup handed' /\ \A w \in Workers : worker'[w].current # i
    BY <1>8, <2>1, <2>3, NoInputAssumption DEF SingleOwner
  <2>8. \A w, v \in Workers : w # v /\ worker'[w].current = worker'[v].current
                                 => worker'[w].current = NoInput
    BY <2>1 DEF SingleOwner
  <2>9. \A i \in Inputs : resultsOf'[i] \in {0, 1}
    BY <1>8 DEF SingleOwner
  <2> QED
    BY <2>5, <2>6, <2>7, <2>8, <2>9 DEF SingleOwner
<1>9. ASSUME KillForPressure \/ KillUnresumable PROVE SingleOwner'
  <2>1. PICK V \in SUBSET Workers : RetireForPressure(V)
    BY <1>9 DEF KillForPressure, KillUnresumable, Busy, Active
  <2> QED
    BY <1>8, <2>1 DEF RetireForPressure, Killable
<1>10. ASSUME RevokeForPeer PROVE SingleOwner'
  BY <1>8, <1>10 DEF RevokeForPeer, Revocable
<1>11. ASSUME ShedIdle PROVE SingleOwner'
  <2>1. PICK V \in SUBSET {w \in Active \ Busy : Idle(w)} :
            worker' = [v \in Workers |->
                IF v \in V THEN [Retired(V)[v] EXCEPT !.at = "returned"] ELSE worker[v]]
    BY <1>11 DEF ShedIdle
  <2>2. V \in SUBSET Workers
    BY DEF Active
  <2>3. \A v \in V : worker[v].current = NoInput
    BY <2>2 DEF Busy
  <2>4. \A w \in Workers : worker'[w].current = worker[w].current
    BY <2>1, <2>2, <2>3, RetiredWorkers, RetiredType DEF Worker
  <2> QED
    BY <1>11, <2>4 DEF ShedIdle, SingleOwner, jobVars
<1>12. ASSUME ReaddWorker PROVE SingleOwner'
  <2>1. \A w \in Workers : worker'[w].current \in {worker[w].current, NoInput}
    BY <1>12 DEF ReaddWorker, Fresh, TypeOK
  <2> QED
    BY <1>12, <2>1, NoInputAssumption DEF ReaddWorker, SingleOwner, TypeOK, jobVars
<1>13. ASSUME EndJob PROVE SingleOwner'
  <2>1. \A w \in Workers : worker'[w].current = NoInput
    BY <1>13 DEF EndJob, Fresh
  <2> QED
    BY <1>13, <2>1, NoInputAssumption DEF EndJob, SingleOwner, TypeOK
<1>14. CASE UNCHANGED vars
  BY <1>14 DEF SingleOwner, vars, poolVars, jobVars
<1> QED
  BY <1>1, <1>2, <1>3, <1>5, <1>6, <1>7, <1>9, <1>10, <1>11, <1>12, <1>13, <1>14,
     QuietActions DEF Next, InputLoop, Over

(* What Processes asks of a step, when no container is lost by it. *)
LEMMA ProcessesKept ==
    ASSUME Processes, UNCHANGED faults,
           ~ContainerLost' => ~ContainerLost,
           \A w \in Workers : Blamed(worker[w]) => Blamed(worker'[w]),
           ~ContainerLost => \A w \in Workers : Sound(worker[w]) => Sound(worker'[w])
    PROVE  Processes'
BY DEF Processes, Blamed

(* A step that is no fault leaves ContainerLost alone; a fault may set it. *)
LEMMA LostStep ==
    ASSUME TypeOK, UNCHANGED faults, UNCHANGED shocks \/ shocks' = shocks + 1
    PROVE  /\ ~ContainerLost' => ~ContainerLost
           /\ "container" \in faults /\ shocks' = shocks + 1 => ContainerLost'
BY BoundsAssumption DEF ContainerLost, TypeOK

(* Every step keeps what a process or a container that is gone says of its worker. *)
LEMMA ProcessesStep ==
    ASSUME TypeOK, LoopInv, Processes, [Next]_vars
    PROVE  Processes'
<1> USE DEF Blamed, Sound
<1>1. ASSUME NEW w \in Workers,
             LoopTop(w) \/ StopWaiting(w) \/ CallEnds(w) \/ CallBreaks(w)
                 \/ ReclaimEnds(w) \/ MemoryFrees(w)
      PROVE  Processes'
  <2>1. \A v \in Workers : /\ worker'[v].life = worker[v].life
                           /\ worker'[v].proc = worker[v].proc
                           /\ worker'[v].current = worker[v].current
                           /\ \/ worker'[v].at = worker[v].at
                              \/ worker'[v].at \notin EmptyHanded
                              \/ worker[v].at \in EmptyHanded \ {"returned"}
    BY <1>1 DEF LoopTop, StopWaiting, CallEnds, CallBreaks, ReclaimEnds, MemoryFrees,
                At, Goto, EmptyHanded, TypeOK, Worker
  <2>2. UNCHANGED <<faults, shocks>>
    BY <1>1 DEF LoopTop, StopWaiting, CallEnds, CallBreaks, ReclaimEnds, MemoryFrees,
                modeVars
  <2> QED
    BY <2>1, <2>2, LostStep, ProcessesKept
<1>2. ASSUME (\E w \in Workers : Handoff(w)) \/ RecoverParked PROVE Processes'
  <2>1. PICK w \in Workers, v \in Workers :
            \/ worker' = [worker EXCEPT ![w].at = "wait"] /\ worker[w].at = "handoff"
            \/ worker' = [Resumed(v) EXCEPT ![w].at = "wait"] /\ worker[w].at = "handoff"
            \/ worker' = Resumed(v)
    BY <1>2 DEF Handoff, RecoverParked, At, Goto, Resumable, Parked, Active
  <2>2. \A u \in Workers :
            /\ Resumed(v)[u].life = worker[u].life /\ Resumed(v)[u].proc = worker[u].proc
            /\ Resumed(v)[u].current = worker[u].current /\ Resumed(v)[u].at = worker[u].at
    BY DEF Resumed, TypeOK, Worker
  <2>3. \A u \in Workers :
            /\ worker'[u].life = worker[u].life /\ worker'[u].proc = worker[u].proc
            /\ worker'[u].current = worker[u].current
            /\ \/ worker'[u].at = worker[u].at
               \/ worker'[u].at = "wait" /\ worker[u].at = "handoff"
    <3>1. CASE worker' = [worker EXCEPT ![w].at = "wait"] /\ worker[w].at = "handoff"
      BY <3>1 DEF TypeOK, Worker
    <3>2. CASE worker' = [Resumed(v) EXCEPT ![w].at = "wait"] /\ worker[w].at = "handoff"
      BY <3>2, <2>2, ResumedType DEF Worker
    <3> QED
      BY <2>1, <2>2, <3>1, <3>2
  <2>4. UNCHANGED <<faults, shocks>>
    BY <1>2 DEF Handoff, RecoverParked, modeVars
  <2> QED
    BY <2>3, <2>4, LostStep, ProcessesKept DEF EmptyHanded
<1>3. ASSUME NEW w \in Workers, ShedSelf(w) PROVE Processes'
  <2>1. /\ \A v \in Workers \ {w} : worker'[v] = worker[v]
        /\ worker'[w].life = "retired" /\ worker'[w].current = NoInput
        /\ worker'[w].at = "returned"
        /\ worker'[w].proc \in {worker[w].proc, "gone"}
    <3> DEFINE R == Retired({w})
    <3>1. /\ \A v \in Workers \ {w} : R[v] = worker[v]
          /\ R[w].life = "retired" /\ R[w].current = NoInput
          /\ R[w].proc \in {worker[w].proc, "gone"}
          /\ R \in [Workers -> Worker]
      BY RetiredWorkers, RetiredType
    <3>2. worker' = [R EXCEPT ![w].at = "returned"]
      BY <1>3 DEF ShedSelf
    <3> HIDE DEF R
    <3> QED
      BY <3>1, <3>2 DEF Worker
  <2>2. UNCHANGED <<faults, shocks>>
    BY <1>3 DEF ShedSelf, modeVars
  <2> QED
    BY <2>1, <2>2, LostStep, ProcessesKept
<1>4. ASSUME NEW w \in Workers, NEW i \in Inputs, TakeInput(w, i) PROVE Processes'
  <2>1. /\ \A v \in Workers \ {w} : worker'[v] = worker[v]
        /\ worker'[w].life = worker[w].life /\ worker'[w].proc = worker[w].proc
        /\ worker[w].at = "get"
    BY <1>4 DEF TakeInput, At, TypeOK, Worker
  <2>2. UNCHANGED <<faults, shocks>>
    BY <1>4 DEF TakeInput, modeVars
  <2> QED
    BY <2>1, <2>2, LostStep, ProcessesKept DEF EmptyHanded
<1>5. ASSUME NEW w \in Workers, Conclude(w) \/ HandleFailure(w) PROVE Processes'
  <2>1. /\ \A v \in Workers \ {w} : worker'[v] = worker[v]
        /\ worker'[w].life = worker[w].life /\ worker'[w].proc = worker[w].proc
        /\ worker'[w].current \in {worker[w].current, NoInput}
    BY <1>5 DEF Conclude, HandleFailure, TypeOK, Worker
  <2>2. \/ worker'[w].at \notin EmptyHanded \ {"returned"}
        \/ worker[w].at \notin EmptyHanded /\ worker[w].life # "retired"
    BY <1>5 DEF Conclude, HandleFailure, Dropped, EmptyHanded, TypeOK, Worker
  <2>3. worker[w].at \notin EmptyHanded /\ worker[w].life # "retired"
            => worker[w].current # NoInput
    BY NoInputAssumption DEF LoopInv
  <2>4. UNCHANGED <<faults, shocks>>
    BY <1>5 DEF Conclude, HandleFailure, modeVars
  <2> QED
    BY <2>1, <2>2, <2>3, <2>4, LostStep, ProcessesKept
<1>6. ASSUME NEW w \in Workers, RetireAfterFailure(w) PROVE Processes'
  <2>1. /\ \A v \in Workers \ {w} : worker'[v] = worker[v]
        /\ worker'[w].current = NoInput /\ worker'[w].at = "returned"
        /\ worker'[w].proc \in {worker[w].proc, "gone"}
        /\ worker'[w].life = "active" => worker'[w].proc = worker[w].proc
        /\ worker'[w].life \in {"retired", worker[w].life}
    BY <1>6 DEF RetireAfterFailure, TypeOK, Worker
  <2>2. UNCHANGED <<faults, shocks>>
    BY <1>6 DEF RetireAfterFailure, modeVars
  <2> QED
    BY <2>1, <2>2, LostStep, ProcessesKept
<1>7. ASSUME NEW w \in Workers, ParkOne(w) PROVE Processes'
  <2>1. ASSUME NEW fits \in BOOLEAN, NEW swap \in BOOLEAN,
               worker' = [worker EXCEPT ![w].throttled = TRUE, ![w].reclaiming = TRUE,
                            ![w].swapParked = swap, ![w].fits = fits]
        PROVE  \A v \in Workers : /\ worker'[v].life = worker[v].life
                                  /\ worker'[v].proc = worker[v].proc
                                  /\ worker'[v].current = worker[v].current
                                  /\ worker'[v].at = worker[v].at
    BY <2>1 DEF TypeOK, Worker
  <2>2. (worker[w].proc # "stale") \in BOOLEAN
    OBVIOUS
  <2>3. \A v \in Workers : /\ worker'[v].life = worker[v].life
                           /\ worker'[v].proc = worker[v].proc
                           /\ worker'[v].current = worker[v].current
                           /\ worker'[v].at = worker[v].at
    BY <1>7, <2>1, <2>2 DEF ParkOne
  <2>4. UNCHANGED <<faults, shocks>>
    BY <1>7 DEF ParkOne
  <2> QED
    BY <2>3, <2>4, LostStep, ProcessesKept
<1>8. ASSUME NEW w \in Workers, Relocate(w) PROVE Processes'
  <2>1. UNCHANGED <<faults, shocks>>
    BY <1>8 DEF Relocate, modeVars
  <2>2. CASE worker[w].proc = "stale" /\ worker' = [worker EXCEPT ![w].proc = "relaunched"]
    <3>1. /\ \A v \in Workers \ {w} : worker'[v] = worker[v]
          /\ worker'[w].life = worker[w].life /\ worker'[w].proc = "relaunched"
          /\ worker'[w].current = worker[w].current /\ worker'[w].at = worker[w].at
      BY <2>2 DEF TypeOK, Worker
    <3> QED
      BY <2>1, <2>2, <3>1, LostStep, ProcessesKept
  <2>3. CASE worker[w].proc = "gone" /\ worker' = [worker EXCEPT ![w].life = "retired"]
    <3>1. ContainerLost
      BY <1>8, <2>3 DEF Relocate, Active, Processes
    <3>2. \A v \in Workers : worker'[v].proc = worker[v].proc
      BY <2>3 DEF TypeOK, Worker
    <3> QED
      BY <2>1, <3>1, <3>2, LostStep, ProcessesKept
  <2> QED
    BY <1>8, <2>2, <2>3 DEF Relocate
<1>9. ASSUME NEW V \in SUBSET Workers, worker' = Retired(V), UNCHANGED faults,
             UNCHANGED shocks \/ shocks' = shocks + 1,
             V \subseteq Busy
      PROVE  Processes'
  <2>1. \A w \in Workers :
            /\ w \notin V => worker'[w] = worker[w]
            /\ w \in V => /\ worker'[w].life = "retired" /\ worker'[w].current = NoInput
                          /\ worker'[w].at = worker[w].at
                          /\ worker'[w].proc \in {worker[w].proc, "gone"}
    BY <1>9, RetiredWorkers
  <2>2. \A w \in V : worker[w].at \notin EmptyHanded
    BY <1>9 DEF Busy, LoopInv
  <2> QED
    BY <1>9, <2>1, <2>2, LostStep, ProcessesKept
<1>10. ASSUME KillForPressure \/ KillUnresumable PROVE Processes'
  <2>1. PICK V \in SUBSET Workers : RetireForPressure(V)
    BY <1>10 DEF KillForPressure, KillUnresumable, Busy, Active
  <2> QED
    BY <1>9, <1>10, <2>1 DEF KillForPressure, KillUnresumable, RetireForPressure, Killable
<1>11. ASSUME RevokeForPeer PROVE Processes'
  BY <1>9, <1>11 DEF RevokeForPeer, Revocable
<1>12. ASSUME ShedIdle PROVE Processes'
  <2>1. PICK V \in SUBSET {w \in Active \ Busy : Idle(w)} :
            worker' = [v \in Workers |->
                IF v \in V THEN [Retired(V)[v] EXCEPT !.at = "returned"] ELSE worker[v]]
    BY <1>12 DEF ShedIdle
  <2>2. V \in SUBSET Workers
    BY DEF Active
  <2>3. \A w \in Workers :
            /\ w \notin V => worker'[w] = worker[w]
            /\ w \in V => /\ worker'[w].life = "retired" /\ worker'[w].current = NoInput
                          /\ worker'[w].at = "returned"
                          /\ worker'[w].proc \in {worker[w].proc, "gone"}
    BY <2>1, <2>2, RetiredWorkers, RetiredType DEF Worker
  <2>4. UNCHANGED <<faults, shocks>>
    BY <1>12 DEF ShedIdle
  <2> QED
    BY <2>3, <2>4, LostStep, ProcessesKept
<1>13. ASSUME ReaddWorker PROVE Processes'
  <2>1. \A w \in Workers : worker'[w] \in {worker[w], Fresh("active")}
    BY <1>13 DEF ReaddWorker, TypeOK
  <2> QED
    BY <1>13, <2>1, LostStep, ProcessesKept DEF ReaddWorker, Fresh, modeVars
<1>14. ASSUME NEW w \in Workers, ProcessEnds(w) PROVE Processes'
  <2>1. /\ \A v \in Workers \ {w} : worker'[v] = worker[v]
        /\ worker'[w].life = worker[w].life /\ worker'[w].proc = "stale"
        /\ worker'[w].current = worker[w].current /\ worker'[w].at = worker[w].at
    BY <1>14 DEF ProcessEnds, TypeOK, Worker
  <2>2. UNCHANGED faults /\ shocks' = shocks + 1 /\ "process" \in faults
    BY <1>14 DEF ProcessEnds
  <2> QED
    BY <2>1, <2>2, LostStep, ProcessesKept
<1>15. ASSUME NEW w \in Workers, ContainerStops(w) PROVE Processes'
  <2>1. \A v \in Workers : worker'[v].proc \in {worker[v].proc, "gone"}
    BY <1>15 DEF ContainerStops, TypeOK, Worker
  <2>2. UNCHANGED faults /\ shocks' = shocks + 1 /\ "container" \in faults
    BY <1>15 DEF ContainerStops
  <2> QED
    BY <2>1, <2>2, LostStep DEF Processes
<1>16. ASSUME EndJob PROVE Processes'
  <2>1. \A w \in Workers : worker'[w] \in {Fresh("active"), Fresh("spare")}
    BY <1>16 DEF EndJob
  <2> QED
    BY <2>1, <1>16 DEF EndJob, Fresh, Processes, EmptyHanded
<1>17. ASSUME BeginPark \/ MonitorReturns \/ RollBackMint \/ ReclaimStranded
              \/ UNCHANGED vars
       PROVE  Processes'
  <2>1. UNCHANGED <<worker, faults>> /\ (UNCHANGED shocks \/ shocks' = shocks + 1)
    BY <1>17 DEF BeginPark, MonitorReturns, RollBackMint, ReclaimStranded, vars, poolVars,
                 modeVars
  <2> QED
    BY <2>1, LostStep, ProcessesKept
<1> QED
  BY <1>1, <1>2, <1>3, <1>4, <1>5, <1>6, <1>7, <1>8, <1>10, <1>11, <1>12, <1>13, <1>14,
     <1>15, <1>16, <1>17 DEF Next, InputLoop, Over

(* Until a container is lost, and unless a peer may revoke the input of a worker
   whose process has ended, no step drops an input. *)
LEMMA KeptStep ==
    ASSUME TypeOK, LoopInv, SingleOwner, Processes, Kept, [Next]_vars,
           ~({"process", "peer"} \subseteq faults)
    PROVE  Kept'
<1> SUFFICES ASSUME stage' = "running", ~ContainerLost', NEW i \in Inputs
             PROVE  \/ i \in queue' \cup handed'
                    \/ \E w \in Workers : worker'[w].current = i
                    \/ resultsOf'[i] > 0
  BY DEF Kept
<1> DEFINE Has == \/ i \in queue' \cup handed'
                  \/ \E w \in Workers : worker'[w].current = i
                  \/ resultsOf'[i] > 0
<1>1. UNCHANGED faults /\ stage = "running" /\ (UNCHANGED shocks \/ shocks' = shocks + 1)
  <2>1. CASE \E w \in Workers : InputLoop(w) \/ ReclaimEnds(w) \/ MemoryFrees(w) \/ Relocate(w)
    BY <2>1 DEF InputLoop, ShedSelf, LoopTop, Handoff, StopWaiting, TakeInput, CallEnds,
                CallBreaks, Conclude, HandleFailure, RetireAfterFailure, ReclaimEnds,
                MemoryFrees, Relocate, modeVars, At, Running
  <2>2. CASE \E w \in Workers : ParkOne(w) \/ ProcessEnds(w) \/ ContainerStops(w)
    BY <2>2 DEF ParkOne, ProcessEnds, ContainerStops, Running
  <2>3. CASE KillForPressure \/ KillUnresumable \/ BeginPark \/ MonitorReturns
    BY <2>3 DEF KillForPressure, KillUnresumable, BeginPark, MonitorReturns, Monitoring,
                Running
  <2>4. CASE RecoverParked \/ ReaddWorker \/ ReclaimStranded \/ RevokeForPeer \/ RollBackMint
             \/ ShedIdle
    BY <2>4 DEF RecoverParked, ReaddWorker, ReclaimStranded, RevokeForPeer, RollBackMint,
                ShedIdle, modeVars, Running
  <2>5. CASE EndJob \/ Over
    BY <2>5 DEF EndJob, Over, vars, modeVars
  <2>6. CASE UNCHANGED vars
    BY <2>6 DEF vars, modeVars
  <2> QED
    BY <2>1, <2>2, <2>3, <2>4, <2>5, <2>6 DEF Next
<1>2. ~ContainerLost
  BY <1>1, LostStep
<1>3. \/ i \in queue \cup handed
      \/ \E w \in Workers : worker[w].current = i
      \/ resultsOf[i] > 0
  BY <1>1, <1>2 DEF Kept
<1>4. \A w \in Workers : worker[w].life # "active" => worker[w].current = NoInput
  BY <1>2 DEF Processes, Sound
<1>5. CASE Quiet
  BY <1>3, <1>5 DEF Quiet
<1>6. ASSUME UNCHANGED <<queue, handed, resultsOf>>,
             \A w \in Workers : worker[w].current \in {worker'[w].current, NoInput}
      PROVE  Has
  BY <1>3, <1>6, NoInputAssumption
<1>7. ASSUME NEW w \in Workers, ShedSelf(w) PROVE Has
  <2>1. \A v \in Workers : worker[v].current \in {worker'[v].current, NoInput}
    <3> DEFINE R == Retired({w})
    <3>1. R \in [Workers -> Worker] /\ \A v \in Workers \ {w} : R[v] = worker[v]
      BY RetiredWorkers, RetiredType
    <3>2. worker' = [R EXCEPT ![w].at = "returned"]
      BY <1>7 DEF ShedSelf
    <3>3. worker[w].current = NoInput
      BY <1>7 DEF ShedSelf, At, EmptyHanded, LoopInv
    <3> HIDE DEF R
    <3> QED
      BY <3>1, <3>2, <3>3 DEF Worker
  <2>2. UNCHANGED <<queue, handed, resultsOf>>
    BY <1>7 DEF ShedSelf, jobVars
  <2> QED
    BY <1>6, <2>1, <2>2
<1>8. ASSUME NEW w \in Workers, NEW j \in Inputs, TakeInput(w, j) PROVE Has
  <2>1. /\ worker'[w].current = j /\ worker[w].current = NoInput
        /\ \A v \in Workers \ {w} : worker'[v].current = worker[v].current
        /\ queue' = queue \ {j} /\ UNCHANGED <<handed, resultsOf>>
    BY <1>8 DEF TakeInput, At, EmptyHanded, LoopInv, TypeOK, Worker
  <2> QED
    BY <1>3, <2>1, NoInputAssumption
<1>9. ASSUME NEW w \in Workers, Conclude(w) PROVE Has
  <2>1. \A v \in Workers \ {w} : worker'[v].current = worker[v].current
    BY <1>9 DEF Conclude, TypeOK, Worker
  <2>2. UNCHANGED <<queue, handed>>
    BY <1>9 DEF Conclude
  <2>3. CASE Dropped(w)
    <3>1. worker[w].current = NoInput /\ UNCHANGED resultsOf
      BY <1>4, <1>9, <2>3 DEF Dropped, Conclude
    <3> QED
      BY <1>3, <2>1, <2>2, <3>1, NoInputAssumption
  <2>4. CASE ~Dropped(w)
    <3>1. worker[w].current = worker[w].input /\ worker[w].input \in Inputs
      BY <1>9, <2>4 DEF Conclude, Dropped, EmptyHanded, LoopInv
    <3>2. /\ resultsOf'[worker[w].input] > 0
          /\ \A j \in Inputs : resultsOf'[j] >= resultsOf[j]
      BY <1>9, <2>4, <3>1 DEF Conclude, PutResult, TypeOK
    <3>3. resultsOf[i] \in Nat /\ resultsOf'[i] \in Int
      BY <1>9, <2>4, <3>1 DEF Conclude, PutResult, TypeOK
    <3> QED
      BY <1>3, <2>1, <2>2, <3>1, <3>2, <3>3
  <2> QED
    BY <2>3, <2>4
<1>10. ASSUME NEW w \in Workers, HandleFailure(w) PROVE Has
  <2>1. \A v \in Workers \ {w} : worker'[v].current = worker[v].current
    BY <1>10 DEF HandleFailure, TypeOK, Worker
  <2>2. worker[w].current \in {worker'[w].current, NoInput}
    BY <1>4, <1>10 DEF HandleFailure, Intended, TypeOK, Worker
  <2> QED
    BY <1>6, <1>10, <2>1, <2>2 DEF HandleFailure, jobVars
<1>11. ASSUME NEW w \in Workers, RetireAfterFailure(w) PROVE Has
  <2>1. \A v \in Workers \ {w} : worker'[v].current = worker[v].current
    BY <1>11 DEF RetireAfterFailure, TypeOK, Worker
  <2>2. CASE worker[w].current = NoInput
    BY <1>3, <1>11, <2>1, <2>2, NoInputAssumption DEF RetireAfterFailure
  <2>3. CASE worker[w].current # NoInput
    <3>1. worker[w].current = worker[w].input /\ worker[w].input \in Inputs
      BY <1>11, <2>3 DEF RetireAfterFailure, At, EmptyHanded, LoopInv
    <3>2. \/ queue' = queue \cup {worker[w].input} /\ UNCHANGED <<resultsOf, handed>>
          \/ PutResult(worker[w].input) /\ UNCHANGED <<queue, handed>>
      BY <1>11, <2>3 DEF RetireAfterFailure
    <3>3. CASE queue' = queue \cup {worker[w].input} /\ UNCHANGED <<resultsOf, handed>>
      BY <1>3, <2>1, <3>1, <3>3
    <3>4. CASE PutResult(worker[w].input) /\ UNCHANGED <<queue, handed>>
      <4>1. /\ resultsOf'[worker[w].input] > 0
            /\ resultsOf'[i] >= resultsOf[i] /\ resultsOf[i] \in Nat /\ resultsOf'[i] \in Nat
        BY <3>1, <3>4 DEF PutResult, TypeOK
      <4> QED
        BY <1>3, <2>1, <3>1, <3>4, <4>1
    <3> QED
      BY <3>2, <3>3, <3>4
  <2> QED
    BY <2>2, <2>3
<1>12. ASSUME NEW V \in SUBSET Workers, worker' = Retired(V), UNCHANGED resultsOf,
              \/ queue' = queue \cup CurrentInputs(V) /\ UNCHANGED handed
              \/ handed' = handed \cup CurrentInputs(V) /\ UNCHANGED queue
       PROVE  Has
  <2>1. \A w \in Workers \ V : worker'[w].current = worker[w].current
    BY <1>12, RetiredWorkers
  <2>2. \A v \in V : worker[v].current \in queue' \cup handed'
    BY <1>12 DEF CurrentInputs
  <2> QED
    BY <1>3, <1>12, <2>1, <2>2
<1>13. ASSUME KillForPressure \/ KillUnresumable PROVE Has
  <2>1. PICK V \in SUBSET Workers : RetireForPressure(V)
    BY <1>13 DEF KillForPressure, KillUnresumable, Busy, Active
  <2> QED
    BY <1>12, <2>1 DEF RetireForPressure
<1>14. ASSUME RevokeForPeer PROVE Has
  <2>1. PICK V \in SUBSET Workers :
            /\ V \subseteq Active /\ worker' = Retired(V)
            /\ handed' = IF KillRaises(V) THEN handed ELSE handed \cup CurrentInputs(V)
    BY <1>14 DEF RevokeForPeer, Revocable, Busy
  <2>2. ~KillRaises(V)
    <3>1. "process" \notin faults
      BY <1>14 DEF RevokeForPeer
    <3>2. \A v \in V : worker[v].proc \notin {"stale", "gone"}
      BY <1>2, <2>1, <3>1 DEF Processes, Blamed, Sound, Active
    <3> QED
      BY <3>2 DEF KillRaises
  <2> QED
    BY <1>12, <1>14, <2>1, <2>2 DEF RevokeForPeer
<1>15. ASSUME ShedIdle PROVE Has
  <2>1. PICK V \in SUBSET {w \in Active \ Busy : Idle(w)} :
            worker' = [v \in Workers |->
                IF v \in V THEN [Retired(V)[v] EXCEPT !.at = "returned"] ELSE worker[v]]
    BY <1>15 DEF ShedIdle
  <2>2. \A w \in Workers : worker[w].current \in {worker'[w].current, NoInput}
    BY <2>1 DEF Busy
  <2> QED
    BY <1>6, <1>15, <2>2 DEF ShedIdle, jobVars
<1>16. ASSUME ReaddWorker PROVE Has
  <2>1. PICK v \in Workers : Unused(v) /\ worker' = [worker EXCEPT ![v] = Fresh("active")]
    BY <1>16 DEF ReaddWorker
  <2>2. worker[v].current = NoInput
    BY <2>1 DEF Unused, EmptyHanded, LoopInv
  <2>3. \A w \in Workers : worker[w].current \in {worker'[w].current, NoInput}
    BY <2>1, <2>2 DEF TypeOK
  <2> QED
    BY <1>6, <1>16, <2>3 DEF ReaddWorker, jobVars
<1>17. CASE EndJob
  BY <1>17 DEF EndJob
<1>18. CASE UNCHANGED vars
  BY <1>6, <1>18 DEF vars, poolVars, jobVars
<1> QED
  BY <1>5, <1>7, <1>8, <1>9, <1>10, <1>11, <1>13, <1>14, <1>15, <1>16, <1>17, <1>18,
     QuietActions DEF Next, InputLoop, Over

-----------------------------------------------------------------------------
(* What is known of the throttled containers, and that a job leaves none. *)
SlowInv == SlowKnown /\ NextJobAtFullSpeed

(* A step of a running job may throttle a container only if its worker says so, and
   may forget that it is throttled only when it no longer is. *)
LEMMA SlowKept ==
    ASSUME SlowInv, stage' # "over", slow' \subseteq Workers,
           \A w \in Workers : w \in slow' =>
               /\ w \in slow \/ worker'[w].throttled
               /\ worker[w].throttled => worker'[w].throttled
    PROVE  SlowInv'
BY DEF SlowInv, SlowKnown, KnownThrottled, NextJobAtFullSpeed

(* Unless the job ends while a worker is being parked, every throttled container is
   known to be and is set free at the end of the job. *)
LEMMA SlowStep ==
    ASSUME TypeOK, SlowInv, slow \subseteq Workers, slow' \subseteq Workers, [Next]_vars,
           "endMidPark" \notin faults
    PROVE  SlowInv'
<1>1. ASSUME NEW w \in Workers,
             LoopTop(w) \/ StopWaiting(w) \/ CallEnds(w) \/ CallBreaks(w) \/ Conclude(w)
                 \/ HandleFailure(w) \/ ReclaimEnds(w) \/ MemoryFrees(w)
                 \/ (\E i \in Inputs : TakeInput(w, i))
      PROVE  SlowInv'
  <2>1. slow' = slow /\ stage' # "over"
    BY <1>1 DEF LoopTop, StopWaiting, CallEnds, CallBreaks, Conclude, HandleFailure,
                ReclaimEnds, MemoryFrees, TakeInput, modeVars, At, Running
  <2>2. \A v \in Workers : worker'[v].throttled = worker[v].throttled
    <3>1. CASE HandleFailure(w)
      BY <3>1 DEF HandleFailure, TypeOK, Worker
    <3>2. CASE Conclude(w)
      BY <3>2 DEF Conclude, TypeOK, Worker
    <3>3. CASE LoopTop(w) \/ StopWaiting(w) \/ CallEnds(w) \/ CallBreaks(w)
      BY <3>3 DEF LoopTop, StopWaiting, CallEnds, CallBreaks, Goto, TypeOK, Worker
    <3>4. CASE ReclaimEnds(w) \/ MemoryFrees(w)
      BY <3>4 DEF ReclaimEnds, MemoryFrees, TypeOK, Worker
    <3>5. CASE \E i \in Inputs : TakeInput(w, i)
      BY <3>5 DEF TakeInput, TypeOK, Worker
    <3> QED
      BY <1>1, <3>1, <3>2, <3>3, <3>4, <3>5
  <2> QED
    BY <2>1, <2>2, SlowKept
<1>2. ASSUME (\E w \in Workers : Handoff(w)) \/ RecoverParked PROVE SlowInv'
  <2>1. stage' # "over"
    BY <1>2 DEF Handoff, RecoverParked, At, Running, modeVars
  <2>2. PICK w \in Workers, v \in Workers :
            \/ worker' = [worker EXCEPT ![w].at = "wait"] /\ slow' = slow
            \/ worker' = [Resumed(v) EXCEPT ![w].at = "wait"] /\ slow' = slow \ {v}
            \/ worker' = Resumed(v) /\ slow' = slow \ {v}
    BY <1>2 DEF Handoff, RecoverParked, Goto, Resumable, Parked, Active
  <2>3. \A u \in Workers \ {v} : Resumed(v)[u].throttled = worker[u].throttled
    BY DEF Resumed, TypeOK, Worker
  <2>4. CASE worker' = [worker EXCEPT ![w].at = "wait"] /\ slow' = slow
    BY <2>1, <2>4, SlowKept DEF TypeOK, Worker
  <2>5. CASE worker' = [Resumed(v) EXCEPT ![w].at = "wait"] /\ slow' = slow \ {v}
    <3>1. \A u \in Workers \ {v} : worker'[u].throttled = worker[u].throttled
      BY <2>3, <2>5, ResumedType DEF Worker
    <3> QED
      BY <2>1, <2>5, <3>1, SlowKept
  <2>6. CASE worker' = Resumed(v) /\ slow' = slow \ {v}
    BY <2>1, <2>3, <2>6, SlowKept
  <2> QED
    BY <2>2, <2>4, <2>5, <2>6
<1>3. ASSUME NEW w \in Workers, ShedSelf(w) PROVE SlowInv'
  <2> DEFINE R == Retired({w})
  <2>1. R \in [Workers -> Worker] /\ \A v \in Workers \ {w} : R[v] = worker[v]
    BY RetiredWorkers, RetiredType
  <2>2. worker' = [R EXCEPT ![w].at = "returned"]
    BY <1>3 DEF ShedSelf
  <2>3. slow' = slow \ {w} /\ stage' # "over"
    BY <1>3 DEF ShedSelf, At, Running, modeVars
  <2> HIDE DEF R
  <2>4. \A v \in Workers \ {w} : worker'[v].throttled = worker[v].throttled
    BY <2>1, <2>2
  <2> QED
    BY <2>3, <2>4, SlowKept
<1>4. ASSUME NEW w \in Workers, RetireAfterFailure(w) PROVE SlowInv'
  <2>1. slow' \subseteq slow /\ stage' # "over"
    BY <1>4 DEF RetireAfterFailure, At, Running, modeVars
  <2>2. \A v \in Workers : worker'[v].throttled = worker[v].throttled
    BY <1>4 DEF RetireAfterFailure, TypeOK, Worker
  <2> QED
    BY <2>1, <2>2, SlowKept
<1>5. ASSUME NEW w \in Workers, ParkOne(w) PROVE SlowInv'
  <2>1. ASSUME NEW fits \in BOOLEAN, NEW swap \in BOOLEAN,
               worker' = [worker EXCEPT ![w].throttled = TRUE, ![w].reclaiming = TRUE,
                            ![w].swapParked = swap, ![w].fits = fits],
               slow' = slow \cup {w}
        PROVE  SlowInv'
    <3>1. worker'[w].throttled = TRUE /\ \A v \in Workers \ {w} : worker'[v] = worker[v]
      BY <2>1 DEF TypeOK, Worker
    <3>2. stage' # "over"
      BY <1>5 DEF ParkOne, Running
    <3> QED
      BY <2>1, <3>1, <3>2, SlowKept
  <2>2. (worker[w].proc # "stale") \in BOOLEAN
    OBVIOUS
  <2>3. CASE UNCHANGED <<worker, slow>>
    BY <1>5, <2>3, SlowKept DEF ParkOne, Running
  <2> QED
    BY <1>5, <2>1, <2>2, <2>3 DEF ParkOne
<1>6. ASSUME NEW w \in Workers, Relocate(w) \/ ProcessEnds(w) \/ ContainerStops(w)
      PROVE  SlowInv'
  <2>1. slow' \subseteq slow /\ stage' # "over"
    BY <1>6 DEF Relocate, ProcessEnds, ContainerStops, Running, modeVars
  <2>2. \A v \in Workers : worker'[v].throttled = worker[v].throttled
    BY <1>6 DEF Relocate, ProcessEnds, ContainerStops, TypeOK, Worker
  <2> QED
    BY <2>1, <2>2, SlowKept
<1>7. ASSUME NEW V \in SUBSET Workers
      PROVE  \A w \in Workers : Retired(V)[w].throttled = worker[w].throttled
  BY DEF Retired, TypeOK, Worker
<1>8. ASSUME KillForPressure \/ KillUnresumable \/ RevokeForPeer PROVE SlowInv'
  <2>1. PICK V \in SUBSET Workers : worker' = Retired(V) /\ slow' \subseteq slow
    BY <1>8 DEF KillForPressure, KillUnresumable, RetireForPressure, RevokeForPeer, Busy,
                Active
  <2>2. stage' # "over"
    BY <1>8 DEF KillForPressure, KillUnresumable, RevokeForPeer, Monitoring, Running
  <2> QED
    BY <1>7, <2>1, <2>2, SlowKept
<1>9. ASSUME ShedIdle PROVE SlowInv'
  <2>1. PICK V \in SUBSET {w \in Active \ Busy : Idle(w)} :
            /\ worker' = [v \in Workers |->
                IF v \in V THEN [Retired(V)[v] EXCEPT !.at = "returned"] ELSE worker[v]]
            /\ slow' = slow \ {v \in V : worker'[v].proc = "gone"}
            /\ stage' = IF KillRaises(V) THEN "failed" ELSE stage
    BY <1>9 DEF ShedIdle
  <2>2. V \in SUBSET Workers
    BY DEF Active
  <2>3. \A w \in Workers : worker'[w].throttled = worker[w].throttled
    BY <1>7, <2>1, <2>2, RetiredType DEF Worker
  <2>4. stage' # "over"
    BY <1>9, <2>1 DEF ShedIdle, Running
  <2> QED
    BY <2>1, <2>3, <2>4, SlowKept
<1>10. ASSUME ReaddWorker PROVE SlowInv'
  <2>1. PICK w \in Workers : /\ worker' = [worker EXCEPT ![w] = Fresh("active")]
                             /\ slow' = slow \ {w}
    BY <1>10 DEF ReaddWorker
  <2>2. \A v \in Workers \ {w} : worker'[v] = worker[v]
    BY <2>1 DEF TypeOK
  <2> QED
    BY <1>10, <2>1, <2>2, SlowKept DEF ReaddWorker, Running, modeVars
<1>11. ASSUME EndJob PROVE SlowInv'
  <2>1. slow' = {}
    BY <1>11 DEF EndJob, SlowInv, SlowKnown
  <2> QED
    BY <2>1 DEF SlowInv, SlowKnown, NextJobAtFullSpeed
<1>12. ASSUME BeginPark \/ MonitorReturns \/ RollBackMint \/ ReclaimStranded PROVE SlowInv'
  <2>1. UNCHANGED <<worker, slow>> /\ stage' # "over"
    BY <1>12 DEF BeginPark, MonitorReturns, RollBackMint, ReclaimStranded, Monitoring,
                 Running, poolVars, modeVars
  <2> QED
    BY <2>1, SlowKept
<1>13. CASE UNCHANGED vars
  BY <1>13 DEF vars, poolVars, modeVars, SlowInv, SlowKnown, KnownThrottled,
               NextJobAtFullSpeed
<1> QED
  BY <1>1, <1>2, <1>3, <1>4, <1>5, <1>6, <1>8, <1>9, <1>10, <1>11, <1>12, <1>13
     DEF Next, InputLoop, Over

-----------------------------------------------------------------------------
(* The initial states: every input queued, nobody throttled. *)
LEMMA InitInv == Init => IInv /\ Kept /\ SlowInv
<1> SUFFICES ASSUME Init PROVE IInv /\ Kept /\ SlowInv
  OBVIOUS
<1>1. \A w \in Workers : worker[w] \in {Fresh("active"), Fresh("spare")}
  BY DEF Init
<1>2. TypeOK
  <2>1. worker \in [Workers -> Worker]
    BY FreshType DEF Init
  <2>2. target \in Nat
    BY WorkersAssumption, WorkersCount DEF Init
  <2>3. sheds \in 0..MaxSheds /\ shocks \in 0..MaxShocks
    BY BoundsAssumption DEF Init
  <2> QED
    BY <2>1, <2>2, <2>3 DEF Init, TypeOK
<1>3. LoopInv
  BY <1>1 DEF LoopInv, Fresh, EmptyHanded
<1>4. SingleOwner
  BY <1>1, NoInputAssumption DEF Init, SingleOwner, Fresh
<1>5. Processes
  BY <1>1 DEF Init, Processes, Blamed, Sound, Fresh, EmptyHanded
<1>6. Kept /\ SlowInv
  BY DEF Init, Kept, SlowInv, SlowKnown, NextJobAtFullSpeed
<1> QED
  BY <1>2, <1>3, <1>4, <1>5, <1>6 DEF IInv

(* IInv is an inductive invariant of WorkerPool. *)
THEOREM Invariance == Spec => []IInv
<1>1. IInv /\ [Next]_vars => IInv'
  BY TypeStep, LoopStep, SingleOwnerStep, ProcessesStep DEF IInv
<1> QED
  BY InitInv, <1>1, PTL DEF Spec

(* Two places never answer for the same input, nor one for an input that has its
   result: "exactly-once holds" of worker_client.py, whatever the faults. *)
THEOREM OneOwnerAlways == Spec => []OneOwner
<1>1. IInv => OneOwner
  <2> SUFFICES ASSUME IInv, NEW i \in Inputs
               PROVE  Cardinality(Owners(i)) + resultsOf[i] <= 1
    BY DEF OneOwner
  <2>1. resultsOf[i] \in {0, 1}
    BY DEF IInv, SingleOwner
  <2>2. CASE Owners(i) = {}
    BY <2>1, <2>2, FS_EmptySet
  <2>3. ASSUME NEW x \in Owners(i)
        PROVE  Cardinality(Owners(i)) + resultsOf[i] <= 1
    <3>1. resultsOf[i] = 0
      BY <2>1, <2>3 DEF IInv, SingleOwner, Owners
    <3>2. \A y \in Owners(i) : y = x
      BY <2>3, NoInputAssumption DEF IInv, SingleOwner, Owners
    <3>3. Owners(i) = {x}
      BY <2>3, <3>2
    <3> QED
      BY <3>1, <3>3, FS_Singleton
  <2> QED
    BY <2>2, <2>3
<1> QED
  BY Invariance, <1>1, PTL

(* No input falls between the tasks that hand it around, unless a container stops,
   or a peer revokes inputs on a node where a process ends (killpg then raises in
   revoke_inputs_for_idle_peer, after the inputs were taken from the workers). *)
THEOREM NothingDropped ==
    ASSUME \A F \in Faults : ~({"process", "peer"} \subseteq F)
    PROVE  Spec => []NoInputLost
<1>1. Init => IInv /\ Kept
  BY InitInv
<1>2. IInv /\ Kept /\ [Next]_vars => IInv' /\ Kept'
  <2>1. TypeOK => ~({"process", "peer"} \subseteq faults)
    BY DEF TypeOK
  <2> QED
    BY <2>1, TypeStep, LoopStep, SingleOwnerStep, ProcessesStep, KeptStep DEF IInv
<1>3. IInv /\ Kept => NoInputLost
  <2> SUFFICES ASSUME IInv, Kept, stage = "running", ~ContainerLost, NEW i \in Inputs
               PROVE  Owners(i) # {} \/ resultsOf[i] > 0
    BY DEF NoInputLost, InputsKept
  <2>1. ASSUME NEW w \in Workers, worker[w].current = i PROVE w \in Owners(i)
    BY <2>1, NoInputAssumption DEF IInv, Processes, Sound, Active, Owners
  <2> QED
    BY <2>1 DEF Kept, Owners
<1> QED
  BY <1>1, <1>2, <1>3, PTL DEF Spec

(* reset() leaves no worker at 1% CPU for the next job, unless the job ends while a
   worker is being parked: EndJob, the reset of the pool, in one step. *)
THEOREM NobodyStaysSlow ==
    ASSUME \A F \in Faults : "endMidPark" \notin F
    PROVE  Spec => []NextJobAtFullSpeed
<1>1. IInv /\ SlowInv /\ [Next]_vars => SlowInv'
  <2>1. TypeOK => "endMidPark" \notin faults
    BY DEF TypeOK
  <2> QED
    BY <2>1, TypeStep, SlowStep DEF IInv, TypeOK
<1>2. SlowInv => NextJobAtFullSpeed
  BY DEF SlowInv
<1> QED
  BY Invariance, InitInv, <1>1, <1>2, PTL DEF Spec

(* The pool's invariant as the run checks it: every input of a running job has one
   owner and a job leaves no worker throttled. *)
THEOREM InputsStayOwned ==
    ASSUME \A F \in Faults : ~({"process", "peer"} \subseteq F) /\ "endMidPark" \notin F
    PROVE  Spec => []InputsOwned
<1>1. IInv => TypeOK
  BY DEF IInv
<1>2. Spec => []NoInputLost
  BY NothingDropped
<1>3. Spec => []NextJobAtFullSpeed
  BY NobodyStaysSlow
<1> QED
  BY Invariance, OneOwnerAlways, <1>1, <1>2, <1>3, PTL DEF InputsOwned

-----------------------------------------------------------------------------
(* The refinement of JobInputs. *)
statusBar == [i \in Inputs |-> Status(i)]

(* A worker takes a waiting input. *)
LEMMA TakeTakes ==
    ASSUME TypeOK, LoopInv, SingleOwner, NEW w \in Workers, NEW i \in Inputs,
           TakeInput(w, i)
    PROVE  [Promise!Next]_statusBar
<1>1. /\ worker'[w].current = i /\ worker[w].current = NoInput
      /\ \A v \in Workers \ {w} : worker'[v].current = worker[v].current
      /\ i \in queue /\ queue' = queue \ {i} /\ UNCHANGED <<handed, resultsOf>>
  BY DEF TakeInput, At, EmptyHanded, LoopInv, TypeOK, Worker
<1>2. Status(i) = "waiting"
  BY <1>1 DEF Status
<1>3. Status(i)' = "running"
  BY <1>1 DEF Status, SingleOwner
<1>4. \A j \in Inputs \ {i} : Status(j)' = Status(j)
  BY <1>1, NoInputAssumption DEF Status
<1> QED
  BY <1>2, <1>3, <1>4 DEF statusBar, Promise!Next, Promise!Take, Promise!Move

(* The result of the current input ends its attempt. *)
LEMMA ResultFinishes ==
    ASSUME TypeOK, SingleOwner, NEW w \in Workers, worker[w].current \in Inputs,
           worker'[w].current = NoInput,
           \A v \in Workers \ {w} : worker'[v].current = worker[v].current,
           PutResult(worker[w].current), UNCHANGED <<queue, handed>>
    PROVE  [Promise!Next]_statusBar
<1>1. PICK i \in Inputs : i = worker[w].current
  OBVIOUS
<1>2. resultsOf' = [resultsOf EXCEPT ![i] = resultsOf[i] + 1]
  BY <1>1 DEF PutResult
<1>3. i \notin queue \cup handed /\ resultsOf[i] = 0
  BY <1>1 DEF SingleOwner
<1>4. Status(i) = "running"
  BY <1>1, <1>3 DEF Status
<1>5. Status(i)' = "done"
  <2>1. \A v \in Workers : worker'[v].current # i
    BY <1>1, NoInputAssumption DEF SingleOwner
  <2>2. resultsOf'[i] = 1
    BY <1>2, <1>3 DEF TypeOK
  <2> QED
    BY <1>3, <2>1, <2>2 DEF Status
<1>6. \A j \in Inputs \ {i} : Status(j)' = Status(j)
  BY <1>1, <1>2, NoInputAssumption DEF Status, TypeOK
<1> QED
  BY <1>4, <1>5, <1>6 DEF statusBar, Promise!Next, Promise!Finish, Promise!Move

(* A step that gives no worker an input and yields no result gives inputs back, or
   is invisible to JobInputs. *)
LEMMA OtherwiseGivesBack ==
    ASSUME TypeOK, SingleOwner, SingleOwner', UNCHANGED resultsOf,
           \A w \in Workers : worker'[w].current \in {worker[w].current, NoInput}
    PROVE  [Promise!Next]_statusBar
<1> DEFINE S == {i \in Inputs : Status(i) = "running" /\ Status(i)' = "waiting"}
<1>1. ASSUME NEW i \in Inputs
      PROVE  Status(i)' = Status(i) \/ i \in S
  <2>1. CASE i \in queue \cup handed
    <3>1. \A w \in Workers : worker'[w].current # i
      BY <2>1, NoInputAssumption DEF SingleOwner
    <3>2. resultsOf'[i] = 0
      BY <2>1 DEF SingleOwner
    <3> QED
      BY <2>1, <3>1, <3>2 DEF Status
  <2>2. CASE i \notin queue \cup handed /\ \E w \in Workers : worker[w].current = i
    <3>1. resultsOf'[i] = 0
      BY <2>2 DEF SingleOwner
    <3> QED
      BY <2>2, <3>1 DEF Status
  <2>3. CASE i \notin queue \cup handed /\ \A w \in Workers : worker[w].current # i
    <3>1. \A w \in Workers : worker'[w].current # i
      BY <2>3, NoInputAssumption
    <3>2. resultsOf'[i] > 0 => i \notin queue' \cup handed'
      BY DEF SingleOwner
    <3> QED
      BY <2>3, <3>1, <3>2 DEF Status
  <2> QED
    BY <2>1, <2>2, <2>3
<1>2. CASE S = {}
  BY <1>1, <1>2 DEF statusBar
<1>3. CASE S # {}
  <2>1. S \in (SUBSET Inputs) \ {{}}
    BY <1>3
  <2>2. Promise!GiveBack(S)
    BY <1>1 DEF Promise!GiveBack, Promise!Move
  <2> QED
    BY <2>1, <2>2 DEF Promise!Next
<1> QED
  BY <1>2, <1>3

(* Every step of the pool is a step of JobInputs or leaves it alone. *)
LEMMA StepRefines ==
    ASSUME IInv, IInv', [Next]_vars
    PROVE  [Promise!Next]_statusBar
<1> USE DEF IInv
<1>1. CASE Quiet
  BY <1>1, OtherwiseGivesBack DEF Quiet
<1>2. ASSUME NEW w \in Workers, NEW i \in Inputs, TakeInput(w, i)
      PROVE  [Promise!Next]_statusBar
  BY <1>2, TakeTakes
<1>3. ASSUME NEW w \in Workers, Conclude(w) \/ RetireAfterFailure(w)
      PROVE  [Promise!Next]_statusBar
  <2>1. /\ worker'[w].current = NoInput
        /\ \A v \in Workers \ {w} : worker'[v].current = worker[v].current
    BY <1>3 DEF Conclude, RetireAfterFailure, TypeOK, Worker
  <2>2. \/ UNCHANGED resultsOf
        \/ /\ worker[w].life # "retired" \/ worker[w].current # NoInput
           /\ worker[w].at \notin EmptyHanded
           /\ PutResult(worker[w].input) /\ UNCHANGED <<queue, handed>>
    BY <1>3 DEF Conclude, RetireAfterFailure, Dropped, At, EmptyHanded
  <2>3. CASE UNCHANGED resultsOf
    BY <2>1, <2>3, OtherwiseGivesBack
  <2>4. CASE ~UNCHANGED resultsOf
    <3>1. worker[w].current = worker[w].input /\ worker[w].input \in Inputs
      BY <2>2, <2>4 DEF LoopInv
    <3> QED
      BY <2>1, <2>2, <2>4, <3>1, ResultFinishes
  <2> QED
    BY <2>3, <2>4
<1>4. ASSUME NEW w \in Workers, HandleFailure(w)
      PROVE  [Promise!Next]_statusBar
  <2>1. \A v \in Workers : worker'[v].current \in {worker[v].current, NoInput}
    BY <1>4 DEF HandleFailure, TypeOK, Worker
  <2> QED
    BY <1>4, <2>1, OtherwiseGivesBack DEF HandleFailure, jobVars
<1>5. ASSUME NEW w \in Workers, ShedSelf(w)
      PROVE  [Promise!Next]_statusBar
  <2> DEFINE R == Retired({w})
  <2>1. /\ R \in [Workers -> Worker]
        /\ \A v \in Workers : R[v].current \in {worker[v].current, NoInput}
    BY RetiredWorkers, RetiredType
  <2>2. worker' = [R EXCEPT ![w].at = "returned"]
    BY <1>5 DEF ShedSelf
  <2> HIDE DEF R
  <2>3. \A v \in Workers : worker'[v].current \in {worker[v].current, NoInput}
    BY <2>1, <2>2 DEF Worker
  <2>4. UNCHANGED resultsOf
    BY <1>5 DEF ShedSelf, jobVars
  <2> QED
    BY <2>3, <2>4, OtherwiseGivesBack
<1>6. ASSUME KillForPressure \/ KillUnresumable \/ RevokeForPeer
      PROVE  [Promise!Next]_statusBar
  <2>1. PICK V \in SUBSET Workers : worker' = Retired(V)
    BY <1>6 DEF KillForPressure, KillUnresumable, RetireForPressure, RevokeForPeer, Busy,
                Active
  <2>2. UNCHANGED resultsOf
    BY <1>6 DEF KillForPressure, KillUnresumable, RetireForPressure, RevokeForPeer
  <2> QED
    BY <2>1, <2>2, RetiredWorkers, OtherwiseGivesBack
<1>7. ASSUME ShedIdle
      PROVE  [Promise!Next]_statusBar
  <2>1. PICK V \in SUBSET {w \in Active \ Busy : Idle(w)} :
            worker' = [v \in Workers |->
                IF v \in V THEN [Retired(V)[v] EXCEPT !.at = "returned"] ELSE worker[v]]
    BY <1>7 DEF ShedIdle
  <2>2. V \in SUBSET Workers
    BY DEF Active
  <2>3. \A w \in Workers : worker'[w].current \in {worker[w].current, NoInput}
    BY <2>1, <2>2, RetiredWorkers, RetiredType DEF Worker
  <2> QED
    BY <1>7, <2>3, OtherwiseGivesBack DEF ShedIdle, jobVars
<1>8. ASSUME ReaddWorker \/ EndJob
      PROVE  [Promise!Next]_statusBar
  <2>1. \A w \in Workers : worker'[w].current \in {worker[w].current, NoInput}
    BY <1>8 DEF ReaddWorker, EndJob, Fresh, TypeOK
  <2> QED
    BY <1>8, <2>1, OtherwiseGivesBack DEF ReaddWorker, EndJob, jobVars
<1>9. CASE UNCHANGED vars
  BY <1>9 DEF vars, poolVars, jobVars, statusBar, Status
<1> QED
  BY <1>1, <1>2, <1>3, <1>4, <1>5, <1>6, <1>7, <1>8, <1>9, QuietActions
     DEF Next, InputLoop, Over

(* Whatever is parked, killed, revoked, relaunched or lost, the pool runs the job's
   inputs as JobInputs promises: one attempt at a time, none after the result; an
   input that is lost with its container waits for ever, it is never run twice. *)
THEOREM PoolKeepsPromise == Spec => KeepsPromise
<1>1. Init => Promise!Init
  <2> SUFFICES ASSUME Init PROVE \A i \in Inputs : Status(i) = "waiting"
    BY DEF Promise!Init
  <2> QED
    BY DEF Init, Status
<1>2. IInv /\ IInv' /\ [Next]_vars => [Promise!Next]_statusBar
  BY StepRefines
<1> QED
  BY <1>1, <1>2, Invariance, PTL DEF Spec, KeepsPromise, Promise!Spec, statusBar
=============================================================================
