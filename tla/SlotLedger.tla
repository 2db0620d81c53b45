----------------------------- MODULE SlotLedger -----------------------------
(* The slots of one job: how many workers each node owes it (target_parallelism)
   and who may change that.  Nodes take slots from each other
   (_slot_trade_loop, trade_slots), ask the head's mint controller for more
   (mint_controller.py), hand what they cannot host to machines the head boots
   for them (boot_replacement_nodes), and lose what an epoch minted in vain
   (shed_slots in the answer to a push).  Answers may be lost and requests may
   arrive late.  The job is fully dynamic and its inputs are all uploaded; an
   input is one unit of a count. *)
EXTENDS Integers, FiniteSets, Functions

CONSTANTS
    Nodes,           \* nodes of the job, and names for replacement nodes
    Cpus,            \* INSTANCE_N_CPUS
    BaseAllowance,   \* _base_allowance, a mint epoch's slots
    ProbeAllowance,  \* allowance of a probing epoch
    MinGrowth,       \* EPOCH_MIN_GROWTH_SLOTS
    GrowBudget,      \* grow_cpus_remaining when the job starts
    Scenarios        \* what a run may begin with, see ScenariosAssumption

NoNode == "none"

(* Events that are bounded: trades asked for, mint epochs opened, replacements
   asked for, shocks (a worker lost, a slot minted by free memory, a restart of
   the head), losses (of an answer, a request, a transfer, a booted node). *)
Kinds == {"trades", "epochs", "replacements", "shocks", "losses"}

ASSUME SizesAssumption ==
    /\ BaseAllowance \in Nat \ {0} /\ ProbeAllowance \in Nat \ {0}
    /\ MinGrowth \in Nat \ {0} /\ GrowBudget \in Nat /\ Cpus \in Nat \ {0}
ASSUME NodesAssumption == IsFiniteSet(Nodes) /\ NoNode \notin Nodes

(* The slots and the queue of each node, 0 slots for a node that is not booted. *)
ASSUME ScenariosAssumption ==
    \A sc \in Scenarios :
        /\ sc.slots \in [Nodes -> Nat] /\ sc.queue \in [Nodes -> Nat]
        /\ sc.may \in [Kinds -> Nat]

VARIABLES
    place,      \* "spare", "booting" (planned by the head), "on" the job, "left"
    target,     \* SELF["target_parallelism"]; of a booting node: its plan
    alive,      \* workers that are not retired
    busy,       \* of these, the ones that run an input
    booting,    \* workers _boot_readded_worker is starting
    queue,      \* inputs_queue.qsize()
    parked,     \* who the input in pending_transfers is for, if there is one
    shedding,   \* SELF["shed_slots_pending"]
    pressured,  \* last_pressure_retirement_at is recent
    tick,       \* where the trade loop of a node is: [pc, peer, want]
    tradeId,    \* SELF["slot_trade_id"], 0 for None
    lastId,     \* trade ids handed out so far
    requests,   \* trade_slots requests on their way
    atLock,     \* requests that passed the replay check and wait for the lock
    granting,   \* what the holder of dynamic_retire_lock is granting
    answers,    \* answers to trade_slots on their way
    granted,    \* SELF["slot_trades_granted"] of each donor
    minted,     \* answer to a mint request on its way, -1 for none
    replaceId,  \* SELF["replacement_request_id"], 0 for None
    asked,      \* missing_slots of the watcher's open request, 0 for none
    answered,   \* its answer is on the way
    refused,    \* SELF["replacement_refused"]
    given,      \* the head's replacement_requests
    budget,     \* grow_cpus_remaining
    ctl,        \* the mint controller of the job
    ledger,     \* slots the job is entitled to (history variable)
    unproven,   \* mint epochs neither verified nor asked back (history variable)
    restarts,   \* restarts of the head since an epoch was verified (history variable)
    may         \* what is left of the scenario

nodeVars == <<target, alive, busy, booting, queue, parked, shedding, pressured>>
tradeVars == <<tick, tradeId, lastId, requests, atLock, granting, answers, granted>>
replaceVars == <<replaceId, asked, answered, refused, given, budget>>
mintVars == <<minted, ctl, unproven, restarts>>
vars == <<place, nodeVars, tradeVars, replaceVars, mintVars, ledger, may>>

Total(f) == SumFunction(f)
Lesser(a, b) == IF a < b THEN a ELSE b
Greater(a, b) == IF a > b THEN a ELSE b

Asleep == [pc |-> "asleep", peer |-> NoNode, want |-> 0]
NoGrant == [to |-> NoNode, id |-> 0, slots |-> 0]
Idle(n) == alive[n] - busy[n]
Parked(n) == IF parked[n] = NoNode THEN 0 ELSE 1
On == {n \in Nodes : place[n] = "on"}

(* One more event of kind k happens. *)
Spend(k) == may[k] > 0 /\ may' = [may EXCEPT ![k] = @ - 1]

(* The mint controller of a job, new with the job and after a restart of the
   head: no epoch has proven anything. *)
NewController ==
    [frozen |-> FALSE, probing |-> FALSE, epoch |-> "none",
     allowance |-> BaseAllowance, base |-> 0,
     grants |-> [n \in Nodes |-> 0], sheds |-> [n \in Nodes |-> 0]]

Init ==
    /\ \E sc \in Scenarios :
          /\ place = [n \in Nodes |-> IF sc.slots[n] > 0 THEN "on" ELSE "spare"]
          /\ target = sc.slots /\ alive = sc.slots
          /\ queue = sc.queue /\ may = sc.may
    /\ busy = [n \in Nodes |-> 0] /\ booting = busy /\ parked = [n \in Nodes |-> NoNode]
    /\ shedding = busy /\ tradeId = busy /\ replaceId = busy
    /\ pressured = [n \in Nodes |-> FALSE] /\ refused = pressured
    /\ tick = [n \in Nodes |-> Asleep]
    /\ lastId = 0 /\ requests = {} /\ answers = {}
    /\ atLock = [n \in Nodes |-> {}]
    /\ granting = [n \in Nodes |-> NoGrant]
    /\ granted = [d \in Nodes |-> [r \in Nodes |-> NoGrant]]
    /\ minted = [n \in Nodes |-> -1]
    /\ asked = busy /\ answered = [n \in Nodes |-> FALSE]
    /\ given = [n \in Nodes |-> NoGrant]
    /\ budget = GrowBudget
    /\ ctl = NewController
    /\ ledger = Total(target) /\ unproven = 0 /\ restarts = 0

-----------------------------------------------------------------------------
(* Mutants: what a bug would make of the definition of nearly the same name.
   A replacement asked for again is planned again; a probe keeps what it proved
   nothing with; the stranded check is missing. *)
ReplannedNever(n) == FALSE
TakesBackHarmOnly(harmful) == harmful
StrandedNever(n) == FALSE

-----------------------------------------------------------------------------
(* Workers and inputs *)

StartInput(n) ==
    /\ place[n] = "on" /\ queue[n] > 0 /\ Idle(n) > 0
    /\ queue' = [queue EXCEPT ![n] = @ - 1]
    /\ busy' = [busy EXCEPT ![n] = @ + 1]
    /\ UNCHANGED <<place, target, alive, booting, parked, shedding, pressured,
                   tradeVars, replaceVars, mintVars, ledger, may>>

(* A worker that is through with an input sheds itself before it takes another. *)
FinishInput(n) ==
    /\ busy[n] > 0
    /\ LET sheds == IF shedding[n] > 0 THEN 1 ELSE 0
       IN /\ shedding' = [shedding EXCEPT ![n] = @ - sheds]
          /\ alive' = [alive EXCEPT ![n] = @ - sheds]
    /\ busy' = [busy EXCEPT ![n] = @ - 1]
    /\ UNCHANGED <<place, target, booting, queue, parked, pressured,
                   tradeVars, replaceVars, mintVars, ledger, may>>

(* The lock under which workers are retired; a trade holds it while it kills
   the workers whose slots it grants. *)
LockFree(n) == granting[n] = NoGrant

(* A worker is killed for its memory, or its process ends: its input goes back
   and its slot stays, unbacked.  Never the last worker. *)
RetireWorker(n) ==
    /\ place[n] = "on" /\ LockFree(n) /\ busy[n] > 0 /\ alive[n] > 1
    /\ Spend("shocks")
    /\ alive' = [alive EXCEPT ![n] = @ - 1]
    /\ busy' = [busy EXCEPT ![n] = @ - 1]
    /\ queue' = [queue EXCEPT ![n] = @ + 1]
    /\ pressured' = [pressured EXCEPT ![n] = TRUE]
    /\ UNCHANGED <<place, target, booting, parked, shedding, tradeVars,
                   replaceVars, mintVars, ledger>>

(* SLOT_TRADE_PRESSURE_COOLDOWN_SECONDS pass. *)
PressureForgotten(n) ==
    /\ pressured[n] /\ pressured' = [pressured EXCEPT ![n] = FALSE]
    /\ UNCHANGED <<place, target, alive, busy, booting, queue, parked, shedding,
                   tradeVars, replaceVars, mintVars, ledger, may>>

(* dynamic_worker_readd_loop starts a batch of workers.  Past its target a node
   with free memory mints itself one slot. *)
Readd(n) ==
    /\ place[n] = "on" /\ booting[n] = 0 /\ queue[n] > 0
    /\ \/ /\ target[n] > alive[n]
          /\ \E k \in 1 .. (target[n] - alive[n]) :
                booting' = [booting EXCEPT ![n] = k]
          /\ UNCHANGED <<target, ledger, may>>
       \/ /\ target[n] <= alive[n] /\ alive[n] < Cpus
          /\ Spend("shocks")
          /\ target' = [target EXCEPT ![n] = @ + 1]
          /\ ledger' = ledger + 1
          /\ booting' = [booting EXCEPT ![n] = 1]
    /\ UNCHANGED <<place, alive, busy, queue, parked, shedding, pressured,
                   tradeVars, replaceVars, mintVars>>

(* The batch is up and joins SELF["workers"]. *)
Readded(n) ==
    /\ booting[n] > 0
    /\ alive' = [alive EXCEPT ![n] = @ + booting[n]]
    /\ booting' = [booting EXCEPT ![n] = 0]
    /\ UNCHANGED <<place, target, busy, queue, parked, shedding, pressured,
                   tradeVars, replaceVars, mintVars, ledger, may>>

(* A node without work asks its neighbor for inputs (InputSteal has the whole
   transfer): the donor parks one, which then moves, or comes back to the
   donor's queue when the requester says it never got it. *)
ParkInput(d, r) ==
    /\ queue[d] > 0 /\ Idle(d) = 0 /\ parked[d] = NoNode
    /\ place[r] = "on" /\ r # d /\ target[r] > 0 /\ queue[r] = 0 /\ busy[r] = 0
    /\ queue' = [queue EXCEPT ![d] = @ - 1]
    /\ parked' = [parked EXCEPT ![d] = r]
    /\ UNCHANGED <<place, target, alive, busy, booting, shedding, pressured,
                   tradeVars, replaceVars, mintVars, ledger, may>>

SettleInput(d) ==
    /\ parked[d] # NoNode
    /\ \/ queue' = [queue EXCEPT ![parked[d]] = @ + 1] /\ UNCHANGED may
       \/ queue' = [queue EXCEPT ![d] = @ + 1] /\ Spend("losses")
    /\ parked' = [parked EXCEPT ![d] = NoNode]
    /\ UNCHANGED <<place, target, alive, busy, booting, shedding, pressured,
                   tradeVars, replaceVars, mintVars, ledger>>

-----------------------------------------------------------------------------
(* The watcher's part.  It waits while it asks for replacement nodes. *)

WatcherRuns(n) == place[n] = "on" /\ asked[n] = 0

(* Workers that wait for an input cannot shed themselves. *)
ShedNow(n) == Lesser(shedding[n], Idle(n))

ShedIdle(n) ==
    /\ WatcherRuns(n) /\ LockFree(n)
    /\ shedding[n] > 0 /\ queue[n] = 0 /\ Idle(n) > 0
    /\ alive' = [alive EXCEPT ![n] = @ - ShedNow(n)]
    /\ shedding' = [shedding EXCEPT ![n] = @ - ShedNow(n)]
    /\ UNCHANGED <<place, target, busy, booting, queue, parked, pressured,
                   tradeVars, replaceVars, mintVars, ledger, may>>

(* Inputs on a node that has neither slots nor workers. *)
Stranded(n) == queue[n] > 0 /\ target[n] = 0 /\ alive[n] = 0

ReclaimStranded(n) ==
    /\ WatcherRuns(n) /\ Stranded(n)
    /\ target' = [target EXCEPT ![n] = Lesser(queue[n], Cpus)]
    /\ ledger' = ledger + Lesser(queue[n], Cpus)
    /\ UNCHANGED <<place, alive, busy, booting, queue, parked, shedding,
                   pressured, tradeVars, replaceVars, mintVars, may>>

(* A node without slots, or that nobody has inputs for, ends its part; its
   slots go with it.  A trade that still waits for its lock then gets none. *)
LeaveJob(n) ==
    /\ WatcherRuns(n) /\ LockFree(n)
    /\ queue[n] = 0 /\ busy[n] = 0 /\ booting[n] = 0
    /\ parked[n] = NoNode /\ \A d \in Nodes : parked[d] # n
    /\ target[n] <= 0 \/ \A d \in On \ {n} : queue[d] = 0
    /\ place' = [place EXCEPT ![n] = "left"]
    /\ target' = [target EXCEPT ![n] = 0]
    /\ alive' = [alive EXCEPT ![n] = 0]
    /\ shedding' = [shedding EXCEPT ![n] = 0]
    /\ tick' = [tick EXCEPT ![n] = Asleep]
    /\ answers' = {a \in answers : a.to # n}
    /\ minted' = [minted EXCEPT ![n] = -1]
    /\ ledger' = ledger - target[n]
    /\ UNCHANGED <<busy, booting, queue, parked, pressured, tradeId, lastId, requests,
                   atLock, granting, granted, replaceVars, ctl, unproven, restarts, may>>

-----------------------------------------------------------------------------
(* Trades *)

(* One round of _slot_trade_loop begins: the node runs all it owns and has more
   queued inputs than workers. *)
Hungry(n) ==
    /\ place[n] = "on" /\ tick[n] = Asleep
    /\ target[n] > 0 /\ ~pressured[n]
    /\ alive[n] = target[n] /\ queue[n] > alive[n]

BeginTrade(n) ==
    /\ Hungry(n) /\ Spend("trades")
    /\ \E d \in Nodes \ {n} :
          /\ place[d] \in {"on", "left"}
          /\ tradeId' = [tradeId EXCEPT ![n] = IF @ = 0 THEN lastId + 1 ELSE @]
          /\ lastId' = Greater(lastId, tradeId'[n])
          /\ tick' = [tick EXCEPT ![n] = [pc |-> "trade", peer |-> d,
                                          want |-> queue[n] - alive[n]]]
          /\ requests' = requests \cup
                {[from |-> n, peer |-> d, id |-> tradeId'[n],
                  want |-> queue[n] - alive[n]]}
    /\ UNCHANGED <<place, nodeVars, atLock, granting, answers, granted,
                   replaceVars, mintVars, ledger>>

(* Alone on the job: straight to minting. *)
NobodyToAsk(n) ==
    /\ Hungry(n) /\ On = {n} /\ may["epochs"] > 0
    /\ tick' = [tick EXCEPT ![n] = [pc |-> "mint", peer |-> NoNode,
                                    want |-> queue[n] - alive[n]]]
    /\ UNCHANGED <<place, nodeVars, tradeId, lastId, requests, atLock, granting,
                   answers, granted, replaceVars, mintVars, ledger, may>>

Answer(m, slots) == [from |-> m.peer, to |-> m.from, id |-> m.id, slots |-> slots]
NotOnJob == -1

(* trade_slots up to the lock.  A node that is not on the job answers 404, or 0
   slots while its watcher has stopped, or is not there yet, and the job is still
   its current one. *)
ReplayedGrant(m) == granted[m.peer][m.from].id = m.id

TradeArrives(m) ==
    /\ requests' = requests \ {m}
    /\ \/ /\ place[m.peer] # "on"
          /\ \E slots \in {NotOnJob, 0} : answers' = answers \cup {Answer(m, slots)}
          /\ UNCHANGED atLock
       \/ /\ place[m.peer] = "on" /\ ReplayedGrant(m)
          /\ answers' = answers \cup {Answer(m, granted[m.peer][m.from].slots)}
          /\ UNCHANGED atLock
       \/ /\ place[m.peer] = "on" /\ ~ReplayedGrant(m)
          /\ atLock' = [atLock EXCEPT ![m.peer] = @ \cup {m}]
          /\ UNCHANGED answers
    /\ UNCHANGED <<place, nodeVars, tick, tradeId, lastId, granting, granted,
                   replaceVars, mintVars, ledger, may>>

(* Slots without a worker, while the node is recovering from pressure and no
   replacement may be under way for them. *)
Unbacked(d) ==
    IF pressured[d] /\ replaceId[d] = 0 THEN Greater(0, target[d] - alive[d]) ELSE 0

(* Under the lock: how many slots go, and which workers are killed for it.  Only
   killing takes time. *)
HandOver(d, g) ==
    /\ target' = [target EXCEPT ![d] = @ - g.slots]
    /\ granted' = [granted EXCEPT ![d][g.to] = g]
    /\ answers' = answers \cup
          {[from |-> d, to |-> g.to, id |-> g.id, slots |-> g.slots]}

GrantTrade(d, m) ==
    /\ m \in atLock[d] /\ LockFree(d)
    /\ \E drained \in {FALSE, queue[d] = 0} :
          LET unbacked == Lesser(m.want, Unbacked(d))
              killed == IF drained THEN Lesser(m.want - unbacked, Idle(d)) ELSE 0
              g == [to |-> m.from, id |-> m.id, slots |-> unbacked + killed]
          IN /\ alive' = [alive EXCEPT ![d] = @ - killed]
             /\ \/ killed = 0 /\ HandOver(d, g) /\ UNCHANGED granting
                \/ /\ killed > 0
                   /\ granting' = [granting EXCEPT ![d] = g]
                   /\ UNCHANGED <<target, granted, answers>>
    /\ atLock' = [atLock EXCEPT ![d] = @ \ {m}]
    /\ UNCHANGED <<place, busy, booting, queue, parked, shedding, pressured,
                   tick, tradeId, lastId, requests, replaceVars, mintVars,
                   ledger, may>>

(* The workers are gone: the slots change hands. *)
TradeSettles(d) ==
    /\ granting[d] # NoGrant
    /\ HandOver(d, granting[d])
    /\ granting' = [granting EXCEPT ![d] = NoGrant]
    /\ UNCHANGED <<place, alive, busy, booting, queue, parked, shedding, pressured,
                   tick, tradeId, lastId, requests, atLock, replaceVars, mintVars,
                   ledger, may>>

(* The answer comes back on the call of the trade that is open. *)
Awaited(a) ==
    tick[a.to].pc = "trade" /\ a.from = tick[a.to].peer /\ a.id = tradeId[a.to]

(* The requester counts what it got and goes on to ask the head for the rest. *)
TradeAnswered(n, a) ==
    /\ a.to = n /\ Awaited(a)
    /\ answers' = answers \ {a}
    /\ tradeId' = [tradeId EXCEPT ![n] = 0]
    /\ target' = [target EXCEPT ![n] = @ + Greater(0, a.slots)]
    /\ LET rest == tick[n].want - a.slots
       IN tick' = [tick EXCEPT ![n] = IF a.slots = NotOnJob \/ rest <= 0 THEN Asleep
                                      ELSE [@ EXCEPT !.pc = "mint", !.want = rest]]
    /\ UNCHANGED <<place, alive, busy, booting, queue, parked, shedding, pressured,
                   lastId, requests, atLock, granting, granted, replaceVars,
                   mintVars, ledger, may>>

(* The call fails: request or answer lost, or still to arrive at the donor.
   The trade id stays. *)
TradeFails(n) ==
    /\ tick[n].pc = "trade" /\ Spend("losses")
    /\ tick' = [tick EXCEPT ![n] = Asleep]
    /\ answers' = {a \in answers : a.to # n}
    /\ \/ UNCHANGED requests
       \/ requests' = {m \in requests : m.from # n}
    /\ UNCHANGED <<place, nodeVars, tradeId, lastId, atLock, granting, granted,
                   replaceVars, mintVars, ledger>>

(* An answer nobody waits for any more. *)
AnswerDropped(a) ==
    /\ a \in answers /\ ~Awaited(a)
    /\ answers' = answers \ {a}
    /\ UNCHANGED <<place, nodeVars, tick, tradeId, lastId, requests, atLock,
                   granting, granted, replaceVars, mintVars, ledger, may>>

-----------------------------------------------------------------------------
(* Replacement nodes *)

Deficit(n) == target[n] - alive[n]

(* The deficit was there for REPLACEMENT_DEFICIT_WINDOW_SEC and the gates were
   red: it is not the work of a trade or of a batch of workers being started. *)
AskReplacement(n) ==
    /\ WatcherRuns(n) /\ LockFree(n) /\ Deficit(n) > booting[n] /\ ~refused[n]
    /\ queue[n] + Parked(n) + busy[n] > alive[n]
    /\ Spend("replacements")
    /\ replaceId' = [replaceId EXCEPT ![n] = IF @ = 0 THEN may["replacements"] ELSE @]
    /\ asked' = [asked EXCEPT ![n] = Deficit(n)]
    /\ UNCHANGED <<place, nodeVars, tradeVars, answered, refused, given, budget, mintVars,
                   ledger>>

(* boot_replacement_nodes: the plan, its record and the budget in one step. *)
Replanned(n) == given[n].id = replaceId[n]

BootReplacement(n) ==
    /\ asked[n] > 0 /\ ~answered[n]
    /\ \/ /\ Replanned(n)
          /\ answered' = [answered EXCEPT ![n] = TRUE]
          /\ UNCHANGED <<place, target, given, budget, refused, replaceId, asked>>
       \/ /\ ~Replanned(n) /\ budget > 0
          /\ \E s \in Nodes :
                LET slots == Lesser(asked[n], budget)
                IN /\ place[s] = "spare"
                   /\ place' = [place EXCEPT ![s] = "booting"]
                   /\ target' = [target EXCEPT ![s] = slots]
                   /\ budget' = budget - slots
                   /\ given' = [given EXCEPT ![n] =
                                  [to |-> s, id |-> replaceId[n], slots |-> slots]]
          /\ answered' = [answered EXCEPT ![n] = TRUE]
          /\ UNCHANGED <<refused, replaceId, asked>>
       \/ /\ ~Replanned(n) /\ budget = 0
          /\ refused' = [refused EXCEPT ![n] = TRUE]
          /\ replaceId' = [replaceId EXCEPT ![n] = 0]
          /\ asked' = [asked EXCEPT ![n] = 0]
          /\ UNCHANGED <<place, target, given, budget, answered>>
    /\ UNCHANGED <<alive, busy, booting, queue, parked, shedding, pressured,
                   tradeVars, mintVars, ledger, may>>

(* The watcher gives up what the head booted. *)
ReplacementAnswered(n) ==
    /\ answered[n]
    /\ target' = [target EXCEPT ![n] = @ - given[n].slots]
    /\ replaceId' = [replaceId EXCEPT ![n] = 0]
    /\ asked' = [asked EXCEPT ![n] = 0]
    /\ answered' = [answered EXCEPT ![n] = FALSE]
    /\ UNCHANGED <<place, alive, busy, booting, queue, parked, shedding, pressured,
                   tradeVars, refused, given, budget, mintVars, ledger, may>>

(* The request or its answer is lost; the id stays for the next attempt. *)
ReplacementFails(n) ==
    /\ asked[n] > 0 /\ Spend("losses")
    /\ asked' = [asked EXCEPT ![n] = 0]
    /\ answered' = [answered EXCEPT ![n] = FALSE]
    /\ UNCHANGED <<place, nodeVars, tradeVars, replaceId, refused, given, budget,
                   mintVars, ledger>>

(* The client finds the booted node and assigns the job to it, or it never
   comes up. *)
ReplacementJoins(s) ==
    /\ place[s] = "booting"
    /\ \/ /\ place' = [place EXCEPT ![s] = "on"]
          /\ alive' = [alive EXCEPT ![s] = target[s]]
          /\ UNCHANGED <<target, ledger, may>>
       \/ /\ Spend("losses")
          /\ place' = [place EXCEPT ![s] = "left"]
          /\ target' = [target EXCEPT ![s] = 0]
          /\ ledger' = ledger - target[s]
          /\ UNCHANGED alive
    /\ UNCHANGED <<busy, booting, queue, parked, shedding, pressured, tradeVars,
                   replaceVars, mintVars>>

-----------------------------------------------------------------------------
(* Mint epochs *)

Workers == Total(alive)

(* round(x / 2) of Python: halves go to the even number. *)
HalfOf(x) == IF x % 4 = 3 THEN (x \div 2) + 1 ELSE x \div 2

(* grant() opens an epoch with its first grant; nobody gets two. *)
Grantable(n) ==
    /\ ~ctl.frozen /\ ctl.allowance > 0 /\ ctl.epoch \in {"none", "open"}
    /\ ctl.grants[n] = 0

Opened ==
    IF ctl.epoch = "open" THEN ctl
    ELSE [ctl EXCEPT !.epoch = "open", !.base = Workers,
                     !.allowance = IF ctl.probing THEN @ ELSE Greater(@, BaseAllowance),
                     !.grants = [n \in Nodes |-> 0]]

AskMint(n) ==
    /\ tick[n].pc = "mint" /\ minted[n] = -1 /\ Grantable(n)
    /\ \/ ctl.epoch = "none" /\ Spend("epochs") /\ unproven' = unproven + 1
       \/ ctl.epoch = "open" /\ UNCHANGED <<may, unproven>>
    /\ \E k \in 1 .. tick[n].want :
          LET slots == Lesser(k, Opened.allowance)
          IN /\ ctl' = [Opened EXCEPT !.allowance = @ - slots, !.grants[n] = slots]
             /\ minted' = [minted EXCEPT ![n] = slots]
             /\ ledger' = ledger + slots
    /\ UNCHANGED <<place, nodeVars, tradeVars, replaceVars, restarts>>

(* No mint this time: the gates, the cadence or the controller say no. *)
SkipMint(n) ==
    /\ tick[n].pc = "mint" /\ minted[n] = -1
    /\ tick' = [tick EXCEPT ![n] = Asleep]
    /\ UNCHANGED <<place, nodeVars, tradeId, lastId, requests, atLock, granting,
                   answers, granted, replaceVars, mintVars, ledger, may>>

(* A lost answer leaks the slots. *)
MintAnswered(n) ==
    /\ minted[n] >= 0
    /\ \/ target' = [target EXCEPT ![n] = @ + minted[n]] /\ UNCHANGED may
       \/ Spend("losses") /\ UNCHANGED target
    /\ minted' = [minted EXCEPT ![n] = -1]
    /\ tick' = [tick EXCEPT ![n] = Asleep]
    /\ UNCHANGED <<place, alive, busy, booting, queue, parked, shedding, pressured,
                   tradeId, lastId, requests, atLock, granting, answers, granted,
                   replaceVars, ctl, unproven, restarts, ledger>>

(* EPOCH_GRANT_WINDOW_SEC are over. *)
WindowCloses ==
    /\ ctl.epoch = "open"
    /\ ctl' = [ctl EXCEPT !.epoch = "closed"]
    /\ UNCHANGED <<place, nodeVars, tradeVars, replaceVars, minted, unproven,
                   restarts, ledger, may>>

Grew == Workers - ctl.base >= MinGrowth
EpochGrants == Total(ctl.grants)

(* What a verdict leaves of the controller.  taken: the grants go back. *)
Frozen(taken) ==
    [ctl EXCEPT !.frozen = TRUE, !.probing = FALSE, !.allowance = 0,
                !.epoch = "none", !.grants = [n \in Nodes |-> 0],
                !.sheds = [n \in Nodes |-> @[n] + IF taken THEN ctl.grants[n] ELSE 0]]

(* The step was too small to prove anything. *)
NoEvidence ==
    /\ ctl.epoch = "closed" /\ ~Grew
    /\ ctl' = Frozen(TRUE)
    /\ unproven' = unproven - 1
    /\ UNCHANGED <<place, nodeVars, tradeVars, replaceVars, minted, restarts, ledger,
                   may>>

(* More workers brought more results: the next step is larger. *)
Verified ==
    /\ ctl.epoch = "closed" /\ Grew
    /\ \E multiplier \in {2, 4} :
          ctl' = [ctl EXCEPT !.probing = FALSE, !.epoch = "none",
                    !.grants = [n \in Nodes |-> 0],
                    !.allowance = Lesser(Greater(BaseAllowance, multiplier * EpochGrants),
                                         HalfOf(Workers))]
    /\ unproven' = 0 /\ restarts' = 0
    /\ UNCHANGED <<place, nodeVars, tradeVars, replaceVars, minted, ledger, may>>

(* They did not.  A harmful step goes back, and so does a probe. *)
TakesBack(harmful) == harmful \/ ctl.probing

FallsShort ==
    /\ ctl.epoch = "closed" /\ Grew
    /\ \E harmful \in BOOLEAN :
          /\ ctl' = Frozen(TakesBack(harmful))
          /\ unproven' = IF TakesBack(harmful) THEN unproven - 1 ELSE unproven
    /\ UNCHANGED <<place, nodeVars, tradeVars, replaceVars, minted, restarts, ledger,
                   may>>

ProbeOpens ==
    /\ ctl.frozen
    /\ ctl' = [ctl EXCEPT !.frozen = FALSE, !.probing = TRUE, !.allowance = ProbeAllowance]
    /\ UNCHANGED <<place, nodeVars, tradeVars, replaceVars, minted, unproven,
                   restarts, ledger, may>>

(* The answer to a push tells a node what to give back, once, or is lost. *)
PushAnswered(n) ==
    /\ place[n] = "on" /\ ctl.sheds[n] > 0
    /\ ctl' = [ctl EXCEPT !.sheds[n] = 0]
    /\ \/ LET applied == Lesser(ctl.sheds[n], target[n])
          IN /\ target' = [target EXCEPT ![n] = @ - applied]
             /\ shedding' = [shedding EXCEPT ![n] = @ + applied]
             /\ ledger' = ledger - applied
             /\ UNCHANGED may
       \/ Spend("losses") /\ UNCHANGED <<target, shedding, ledger>>
    /\ UNCHANGED <<place, alive, busy, booting, queue, parked, pressured, tradeVars,
                   replaceVars, minted, unproven, restarts>>

(* The head restarts: the controller starts over and forgets what it had not
   proved or not handed out to shed; replacement requests and the budget are in
   the history db. *)
HeadRestarts ==
    /\ Spend("shocks")
    /\ ctl' = NewController
    /\ restarts' = restarts + 1
    /\ UNCHANGED <<place, nodeVars, tradeVars, replaceVars, minted, unproven, ledger>>

-----------------------------------------------------------------------------
Next ==
    \/ \E n \in Nodes :
          \/ StartInput(n) \/ FinishInput(n) \/ RetireWorker(n) \/ PressureForgotten(n)
          \/ Readd(n) \/ Readded(n) \/ SettleInput(n)
          \/ \E r \in Nodes : ParkInput(n, r)
          \/ ShedIdle(n) \/ ReclaimStranded(n) \/ LeaveJob(n)
          \/ BeginTrade(n) \/ NobodyToAsk(n) \/ TradeSettles(n) \/ TradeFails(n)
          \/ \E m \in atLock[n] : GrantTrade(n, m)
          \/ \E a \in answers : TradeAnswered(n, a)
          \/ AskReplacement(n) \/ BootReplacement(n) \/ ReplacementAnswered(n)
          \/ ReplacementFails(n) \/ ReplacementJoins(n)
          \/ AskMint(n) \/ SkipMint(n) \/ MintAnswered(n) \/ PushAnswered(n)
    \/ \E m \in requests : TradeArrives(m)
    \/ \E a \in answers : AnswerDropped(a)
    \/ WindowCloses \/ NoEvidence \/ Verified \/ FallsShort \/ ProbeOpens
    \/ HeadRestarts

Spec == Init /\ [][Next]_vars

(* Tasks of the event loops run, calls end.  Gates are sure to turn green only
   where no worker of the node is left to load it; the re-add loop looks at the
   queue once a second, also when inputs come and go in between (SF). *)
Fairness ==
    /\ \A n \in Nodes :
          /\ WF_vars(StartInput(n)) /\ WF_vars(FinishInput(n))
          /\ SF_vars(alive[n] = 0 /\ Readd(n)) /\ WF_vars(Readded(n))
          /\ WF_vars(ReclaimStranded(n))
          /\ WF_vars(SettleInput(n))
          /\ WF_vars(TradeSettles(n))
          /\ WF_vars(BootReplacement(n)) /\ WF_vars(ReplacementAnswered(n))

FairSpec == Spec /\ Fairness

-----------------------------------------------------------------------------
(* Properties *)

(* Every variable keeps its type; no worker is retired by a trade, a shed or a
   killed worker that is not alive or still runs an input. *)
TypeOK ==
    /\ place \in [Nodes -> {"spare", "booting", "on", "left"}]
    /\ target \in [Nodes -> Int]
    /\ alive \in [Nodes -> Nat] /\ busy \in [Nodes -> Nat] /\ booting \in [Nodes -> Nat]
    /\ \A n \in Nodes : busy[n] <= alive[n]
    /\ queue \in [Nodes -> Nat] /\ parked \in [Nodes -> Nodes \cup {NoNode}]
    /\ shedding \in [Nodes -> Int] /\ pressured \in [Nodes -> BOOLEAN]
    /\ tradeId \in [Nodes -> 0 .. lastId]
    /\ minted \in [Nodes -> Nat \cup {-1}]
    /\ budget \in 0 .. GrowBudget
    /\ ctl.allowance \in Nat /\ ctl.sheds \in [Nodes -> Nat]
    /\ may \in [Kinds -> Nat]

(* Booted elsewhere, and the node that asked was not told yet. *)
Owed(n) == IF replaceId[n] # 0 /\ given[n].id = replaceId[n] THEN given[n].slots ELSE 0

(* However trades, mint requests and replacement requests are repeated, delayed
   or lost, the nodes together never own more slots than the job started with,
   minted and reclaimed: at most the slots of a replacement whose requester
   still waits to hear of it are counted twice (trade_slots: "Slots are
   conserved"; record_replacement_request). *)
SlotsNotDuplicated == Total(target) - Total([n \in Nodes |-> Owed(n)]) <= ledger

(* No node owes workers it gave away already: the stranded check, the trade
   loop and the re-add loop all read target_parallelism as a number of workers
   (trade_slots, the shed of push_state and the watcher's replacement request
   each subtract from it on their own). *)
TargetNotNegative == \A n \in Nodes : target[n] >= 0

(* How many mint epochs the head lets stand that throughput has not proved: the
   one in flight or a kept one, a probe beside the kept one, and two more for
   each restart of the head since an epoch was verified, for a new controller
   knows of neither.  Everything else is asked back before the next epoch opens
   (_judge_epoch); that the answer to a push may lose what is asked back
   (PushAnswered) is not counted. *)
BlindGrowthBounded ==
    unproven <= 2 * restarts + (IF ctl.probing /\ ctl.epoch # "none" THEN 2 ELSE 1)

(* The bound mint_controller.py claims: "blind growth is bounded at one in-flight
   epoch above the last verified worker count".  No run checks it: a shortfall
   that did no harm keeps its epoch and the next probe is a second one, and a
   restart of the head forgets either; see the README. *)
OneBlindEpoch == unproven <= 1

(* Slots move between nodes, inputs stay behind, workers are killed for the
   slots: unless some target went negative, every uploaded input is run in the
   end, by the re-add loop, a steal or the stranded check. *)
AllRun == \A n \in Nodes : queue[n] = 0 /\ busy[n] = 0 /\ parked[n] = NoNode
InputsDrain == []TargetNotNegative => <>AllRun

(* The ledger is sound: its counters keep their ranges and no trade, mint or
   replacement, repeated, delayed or lost, makes slots out of nothing. *)
SlotsKept == TypeOK /\ SlotsNotDuplicated
=============================================================================
