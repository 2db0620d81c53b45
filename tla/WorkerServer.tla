---------------------------- MODULE WorkerServer ----------------------------
(* The worker containers of one node, from job to job: the node's half
   (WorkerClient, execute, reset_workers, reboot_containers) and the container's
   half (worker_server.py), with one connection and the shared package directory
   between them.  What an input goes through within a job is WorkerPool's
   matter. *)
EXTENDS Integers, FiniteSets, Sequences

CONSTANTS
    Workers,     \* containers of a node, as numbers: the first one installs
    MaxBoots,    \* how often the containers are replaced, at most
    Jobs,        \* in the order they come, as numbers
    Inputs,      \* per job
    Plans        \* what a run may do, see PlansAssumption

None == "none"
Clients == Workers \X (0..MaxBoots)
Kinds == {"uv", "torn", "dies", "exit", "stuck", "boot", "retire", "request"}

(* pinned: the version of the one package each job brings, 0 for no package;
   baked: the version the image has of it, or 0; broken: the jobs whose function
   cannot be loaded; takes: the workers a job asks for; last: the last job; may:
   how many of each failure there can be. *)
ASSUME PlansAssumption ==
    /\ Workers \subseteq Nat \ {0} /\ Workers # {} /\ MaxBoots \in Nat /\ Jobs \subseteq Nat \ {0}
    /\ Plans \subseteq [pinned : [Jobs -> Nat], baked : Nat, broken : SUBSET Jobs, takes : [Jobs -> Nat \ {0}], last : Jobs,
                       may : [Kinds -> Nat]]

VARIABLES
    plan,      \* what happens in this run
    svc,       \* the node: [at, job, epoch, reboot]; epoch counts REINIT_SELF
    pool,      \* SELF's workers and idle workers
    active,    \* the workers the job was given
    client,    \* WorkerClient objects
    server,    \* their processes: [up, fn, imported, half]
    asked,     \* requests under way or being served, per connection
    answers,   \* answers not read yet, per connection
    env,       \* what the shared directory says is installed, and what is
    queue,     \* SELF's inputs_queue
    results,   \* SELF's results_queue
    may        \* what is left of the failures

node == <<svc, pool, active>>
wire == <<asked, answers>>
data == <<queue, results>>
vars == <<plan, node, client, server, wire, env, data, may>>

(* task: where _process_inputs is; since: the epoch of the queue it waits at;
   waits: the request whose answer the node awaits, or the reconnection. *)
ClientStates == [box : {None, "up", "gone"}, link : BOOLEAN, idle : BOOLEAN, retired : BOOLEAN,
                 task : {None, "get", "call", "put", "over"}, since : Nat,
                 input : Jobs \X Inputs \cup {None}, fn : Jobs \cup {0}, stop : BOOLEAN,
                 waits : {None, "i", "l", "c", "r", "reconnect"}]

TypeOK ==
    /\ plan \in Plans
    /\ svc \in [at : {"READY", "install", "load", "RUNNING", "reset", "reboot", "kill", "boot", "FAILED"},
                job : Jobs \cup {0}, last : Jobs \cup {0}, epoch : Nat, reboot : BOOLEAN]
    /\ pool \subseteq Clients /\ active \subseteq pool
    /\ client \in [Clients -> ClientStates]
    /\ server \in [Clients -> [up : BOOLEAN, fn : Jobs \cup {0}, imported : Nat, half : BOOLEAN]]
    /\ \A c \in Clients : Len(asked[c]) <= 1 /\ Len(answers[c]) <= 1
    /\ env \in [info : Nat, files : Nat]
    /\ queue \subseteq Jobs \X Inputs
    /\ results \subseteq [input : Jobs \X Inputs, fn : Jobs \cup {0}]
    /\ may \in [Kinds -> Nat]

NoClient == [box |-> None, link |-> FALSE, idle |-> TRUE, retired |-> FALSE, task |-> None,
             since |-> 0, input |-> None, fn |-> 0, stop |-> FALSE, waits |-> None]
NewClient == [NoClient EXCEPT !.box = "up", !.link = TRUE]
Relaunched == [up |-> FALSE, fn |-> 0, imported |-> 0, half |-> FALSE]
Fresh == [Relaunched EXCEPT !.up = TRUE]
First(set) == CHOOSE c \in set : \A d \in set : c[1] <= d[1]

(* A node whose containers have just booted, before its first job. *)
Init ==
    /\ plan \in Plans
    /\ svc = [at |-> "READY", job |-> 0, last |-> 0, epoch |-> 0, reboot |-> FALSE]
    /\ pool = Workers \X {0} /\ active = {}
    /\ client = [c \in Clients |-> IF c[2] = 0 THEN NewClient ELSE NoClient]
    /\ server = [c \in Clients |-> IF c[2] = 0 THEN Fresh ELSE Relaunched]
    /\ asked = [c \in Clients |-> << >>] /\ answers = [c \in Clients |-> << >>]
    /\ env = [info |-> 0, files |-> 0]
    /\ queue = {} /\ results = {} /\ may = plan.may

Fails(kind) == may[kind] > 0 /\ may' = [may EXCEPT ![kind] = @ - 1]

Ask(set, cmd) ==
    [c \in Clients |-> IF c \in set /\ client[c].link THEN Append(asked[c], cmd) ELSE asked[c]]
Wait(clients, set, cmd) ==
    [c \in Clients |-> IF c \in set THEN [clients[c] EXCEPT !.waits = cmd] ELSE clients[c]]

(* An answer has come; the connection broke before one did. *)
Heard(c, cmd) == client[c].waits = cmd /\ answers[c] # << >>
Broken(c, cmd) == client[c].waits = cmd /\ ~client[c].link /\ answers[c] = << >>
Answer(c) == Head(answers[c])
TakeAnswer(c) == answers' = [answers EXCEPT ![c] = Tail(@)]

Drop(set, chan) == [c \in Clients |-> IF c \in set THEN << >> ELSE chan[c]]

-----------------------------------------------------------------------------
(* The process in the container. *)

Asked(c, cmd) == server[c].up /\ asked[c] # << >> /\ Head(asked[c]) = cmd
Reply(c, cmd, ok) ==
    /\ asked' = [asked EXCEPT ![c] = Tail(@)]
    /\ answers' = [answers EXCEPT ![c] = Append(@, [to |-> cmd, ok |-> ok, fn |-> server[c].fn])]

(* A package burla installed has a dist-info entry in the directory and is compared
   with the version the job pins.  One it did not install but finds in the image is
   left as it is, whatever its version. *)
Cached(version) == IF env.info = 0 THEN plan.baked # 0 ELSE env.info = version

(* Packages are staged, the replaced ones removed and the staged ones linked
   in, file by file in no particular order.  What fails before the removal changes
   nothing; later, the old ones are gone, or the new ones there in part. *)
InstallCached(c) ==
    /\ Asked(c, "i") /\ ~server[c].half /\ Cached(plan.pinned[svc.last])
    /\ Reply(c, "i", TRUE) /\ UNCHANGED <<plan, node, client, server, env, data, may>>
InstallError(c) ==
    /\ Asked(c, "i") /\ ~server[c].half /\ ~Cached(plan.pinned[svc.last]) /\ Fails("uv")
    /\ env' \in {env, [info |-> 0, files |-> 0]}
    /\ Reply(c, "i", FALSE) /\ UNCHANGED <<plan, node, client, server, data>>
InstallHalf(c) ==
    LET version == plan.pinned[svc.last]
    IN  /\ Asked(c, "i") /\ ~server[c].half /\ ~Cached(version)
        /\ env' \in {[info |-> version, files |-> 0], [info |-> 0, files |-> version]}
        /\ server' = [server EXCEPT ![c].half = TRUE]
        /\ UNCHANGED <<plan, node, client, wire, data, may>>
InstallTorn(c) ==
    /\ Asked(c, "i") /\ server[c].half /\ Fails("torn")
    /\ server' = [server EXCEPT ![c].half = FALSE]
    /\ Reply(c, "i", FALSE) /\ UNCHANGED <<plan, node, client, env, data>>
InstallRest(c) ==
    LET version == plan.pinned[svc.last]
    IN  /\ Asked(c, "i") /\ server[c].half
        /\ env' = [info |-> version, files |-> version]
        /\ server' = [server EXCEPT ![c].half = FALSE]
        /\ Reply(c, "i", TRUE) /\ UNCHANGED <<plan, node, client, data, may>>

(* A module is imported once in a process's life, from the directory before the
   image. *)
Found == IF env.files = 0 THEN plan.baked ELSE env.files
Imported(c) == IF server[c].imported = 0 THEN Found ELSE server[c].imported
Load(c) ==
    /\ Asked(c, "l")
    /\ server' = IF svc.last \in plan.broken THEN server
                 ELSE [server EXCEPT ![c].fn = svc.last, ![c].imported = Imported(c)]
    /\ Reply(c, "l", svc.last \notin plan.broken) /\ UNCHANGED <<plan, node, client, env, data, may>>

(* A call ends: with a value, or with an error of the function's own or of there
   being no function. *)
Call(c) ==
    /\ Asked(c, "c")
    /\ Reply(c, "c", TRUE) /\ UNCHANGED <<plan, node, client, server, env, data, may>>

(* Forget the function, and every process the calls left behind. *)
ServerReset(c) ==
    /\ Asked(c, "r")
    /\ server' = [server EXCEPT ![c].fn = 0]
    /\ Reply(c, "r", TRUE) /\ UNCHANGED <<plan, node, client, env, data, may>>

(* The process ends, of what it calls or killed for memory, at any time; the
   shell in the container starts another. *)
Exit(c) ==
    /\ server[c].up
    /\ Fails(IF svc.at = "RUNNING" /\ (asked[c] = << >> \/ Asked(c, "c")) THEN "exit" ELSE "dies")
    /\ server' = [server EXCEPT ![c] = Relaunched]
    /\ client' = [client EXCEPT ![c].link = FALSE]
    /\ asked' = Drop({c}, asked)
    /\ UNCHANGED <<plan, node, answers, env, data>>
Relaunch(c) ==
    /\ client[c].box = "up" /\ ~server[c].up
    /\ server' = [server EXCEPT ![c] = Fresh]
    /\ UNCHANGED <<plan, node, client, wire, env, data, may>>

ServerStep(c) ==
    \/ InstallCached(c) \/ InstallHalf(c) \/ InstallRest(c) \/ Load(c) \/ Call(c)
    \/ ServerReset(c) \/ Relaunch(c)

-----------------------------------------------------------------------------
(* A job is given to the node. *)

Nth(set, n) == {c \in set : Cardinality({d \in set : d[1] < c[1]}) < n}

(* execute: as many workers as asked for; the first installs the packages. *)
Execute ==
    LET job == svc.last + 1
        chosen == Nth(pool, plan.takes[job])
    IN  /\ svc.at = "READY" /\ job <= plan.last
        /\ active' = chosen
        /\ IF plan.pinned[job] # 0
           THEN /\ svc' = [svc EXCEPT !.at = "install", !.job = job, !.last = job]
                /\ asked' = Ask({First(chosen)}, "i") /\ client' = Wait(client, {First(chosen)}, "i")
           ELSE /\ svc' = [svc EXCEPT !.at = "load", !.job = job, !.last = job]
                /\ asked' = Ask(chosen, "l") /\ client' = Wait(client, chosen, "l")
        /\ UNCHANGED <<plan, pool, server, answers, env, data, may>>

(* An exception that leaves a request handler: the middleware answers 500 and
   has the containers rebooted. *)
Raise == svc' = [svc EXCEPT !.at = "reboot"]

Installed(c) ==
    /\ Heard(c, "i") /\ Answer(c).ok
    /\ svc' = [svc EXCEPT !.at = "load"]
    /\ asked' = Ask(active, "l") /\ client' = Wait(client, active, "l")
    /\ TakeAnswer(c) /\ UNCHANGED <<plan, pool, active, server, env, data, may>>
InstallFails(c) ==
    /\ \/ Heard(c, "i") /\ ~Answer(c).ok /\ TakeAnswer(c)
       \/ Broken(c, "i") /\ UNCHANGED answers
    /\ Raise /\ client' = Wait(client, {c}, None)
    /\ UNCHANGED <<plan, pool, active, server, asked, env, data, may>>

(* The function is loaded: the worker begins to take inputs, from the queue
   there is then.  The last one of the job to load makes the node serve it. *)
LastToLoad(c) == svc.at = "load" /\ \A d \in active : client[d].waits = "l" => d = c
Loaded(c) ==
    /\ Heard(c, "l") /\ Answer(c).ok
    /\ client' = [client EXCEPT ![c].waits = None,
                                ![c].task = IF @ = None THEN "get" ELSE @,
                                ![c].since = svc.epoch]
    /\ IF c \in active /\ LastToLoad(c)
       THEN svc' = [svc EXCEPT !.at = "RUNNING"] /\ queue' = {svc.job} \X Inputs
       ELSE UNCHANGED <<svc, queue>>
    /\ TakeAnswer(c) /\ UNCHANGED <<plan, pool, active, server, asked, env, results, may>>
LoadFails(c) ==
    /\ \/ Heard(c, "l") /\ ~Answer(c).ok /\ TakeAnswer(c)
       \/ Broken(c, "l") /\ UNCHANGED answers
    /\ client' = Wait(client, {c}, None)
    /\ IF svc.at = "load" THEN Raise ELSE UNCHANGED svc
    /\ UNCHANGED <<plan, pool, active, server, asked, env, data, may>>

-----------------------------------------------------------------------------
(* _process_inputs *)

Take(c, input) ==
    /\ client[c].task = "get" /\ client[c].since = svc.epoch /\ input \in queue
    /\ queue' = queue \ {input}
    /\ client' = [client EXCEPT ![c].task = "call", ![c].input = input, ![c].idle = FALSE,
                                ![c].waits = "c"]
    /\ asked' = Ask({c}, "c")
    /\ UNCHANGED <<plan, node, server, answers, env, results, may>>

(* The call's answer is read, then handed on; the two are steps of their own. *)
Answered(c) ==
    /\ Heard(c, "c") /\ client[c].task = "call"
    /\ client' = [client EXCEPT ![c].task = "put", ![c].fn = Answer(c).fn, ![c].waits = None]
    /\ TakeAnswer(c) /\ UNCHANGED <<plan, node, server, asked, env, data, may>>
(* No answer will come.  A worker whose process ended gives its error and stops,
   one whose container is gone gives its error and goes on; a retired one gives
   nothing. *)
CallLost(c) ==
    /\ Broken(c, "c") /\ client[c].task = "call"
    /\ client' = [client EXCEPT ![c].task = IF client[c].retired THEN "over" ELSE "put",
                                ![c].fn = client[c].input[1], ![c].stop = client[c].box = "up", ![c].waits = None]
    /\ UNCHANGED <<plan, node, server, wire, env, data, may>>
Put(c) ==
    /\ client[c].task = "put"
    /\ results' = results \cup {[input |-> client[c].input, fn |-> client[c].fn]}
    /\ client' = [client EXCEPT ![c].task = IF client[c].stop THEN "over" ELSE "get",
                                ![c].idle = ~client[c].stop, ![c].input = None,
                                ![c].since = svc.epoch]
    /\ UNCHANGED <<plan, node, server, wire, env, queue, may>>

(* Pressure retires a worker: its input goes back and its container is removed;
   the node remembers that it lacks one. *)
Retire(c) ==
    /\ svc.at = "RUNNING" /\ c \in active /\ ~client[c].retired /\ client[c].task \in {"get", "call"}
    /\ Fails("retire")
    /\ client' = [client EXCEPT ![c] = [NoClient EXCEPT !.box = "gone", !.retired = TRUE, !.task = "over"]]
    /\ queue' = IF client[c].task = "call" THEN queue \cup {client[c].input} ELSE queue
    /\ server' = [server EXCEPT ![c] = Relaunched]
    /\ asked' = Drop({c}, asked) /\ answers' = Drop({c}, answers)
    /\ svc' = [svc EXCEPT !.reboot = TRUE]
    /\ UNCHANGED <<plan, pool, active, env, results>>

-----------------------------------------------------------------------------
(* The job ends: done, canceled, failed, or its client has gone. *)

(* MUTANT: the tasks are left to end by themselves. *)
NoneCanceled(c) == client[c]

(* A canceled task leaves the worker as it found it, busy or idle. *)
Canceled(c) ==
    IF client[c].task = None THEN client[c]
    ELSE [client[c] EXCEPT !.task = None, !.retired = TRUE, !.input = None, !.stop = FALSE, !.waits = None]

(* Only a worker between calls can hear a reset. *)
Askable == {c \in active : client[c].idle}

(* Every input task is canceled; then idle workers are asked to reset, and the
   processes of busy ones killed, or all containers rebooted if some died. *)
EndJob ==
    LET killed == active \ Askable
    IN  /\ svc.at = "RUNNING"
        /\ IF svc.reboot
           THEN /\ svc' = [svc EXCEPT !.at = "reboot"]
                /\ client' = [c \in Clients |-> IF c \in pool THEN Canceled(c) ELSE client[c]]
                /\ UNCHANGED <<server, wire>>
           ELSE /\ svc' = [svc EXCEPT !.at = "reset"]
                /\ client' = [c \in Clients |->
                      IF c \in killed
                      THEN [Canceled(c) EXCEPT !.link = FALSE, !.waits = "reconnect"]
                      ELSE IF c \in Askable THEN [Canceled(c) EXCEPT !.waits = "r"]
                      ELSE IF c \in pool THEN Canceled(c) ELSE client[c]]
                /\ server' = [c \in Clients |-> IF c \in killed THEN Relaunched ELSE server[c]]
                /\ asked' = [c \in Clients |-> IF c \in killed THEN << >> ELSE Ask(Askable, "r")[c]]
                /\ answers' = Drop(killed, answers)
        /\ UNCHANGED <<plan, pool, active, env, data, may>>

WasReset(c) ==
    /\ Heard(c, "r") /\ svc.at = "reset"
    /\ client' = Wait(client, {c}, None)
    /\ TakeAnswer(c) /\ UNCHANGED <<plan, node, server, asked, env, data, may>>
Reconnected(c) ==
    /\ client[c].waits = "reconnect" /\ server[c].up
    /\ client' = [client EXCEPT ![c].waits = None, ![c].link = TRUE, ![c].idle = TRUE]
    /\ UNCHANGED <<plan, node, server, wire, env, data, may>>

(* MUTANT: a reset that fails is written to the log and no more. *)
ResetLogged(c) == svc.at = "reset" /\ c \in active /\ Broken(c, "r") /\ UNCHANGED vars

(* A worker that cannot be reset, or takes too long, has all of them rebooted. *)
ResetFails(c) ==
    /\ svc.at = "reset" /\ c \in active
    /\ \/ Broken(c, "r") /\ UNCHANGED may
       \/ client[c].waits \in {"r", "reconnect"} /\ Fails("stuck")
    /\ Raise /\ UNCHANGED <<plan, pool, active, client, server, wire, env, data>>

UnRetired(c) == [client[c] EXCEPT !.retired = FALSE, !.idle = TRUE]

Reinit ==
    /\ svc.at = "reset" /\ \A c \in active : client[c].waits = None
    /\ svc' = [svc EXCEPT !.at = "READY", !.job = 0, !.epoch = @ + 1]
    /\ client' = [c \in Clients |-> IF c \in pool THEN UnRetired(c) ELSE client[c]]
    /\ active' = {} /\ queue' = {} /\ results' = {}
    /\ UNCHANGED <<plan, pool, server, wire, env, may>>

-----------------------------------------------------------------------------
(* reboot_containers *)

(* Another request of the job's fails. *)
RequestFails ==
    /\ svc.at = "RUNNING" /\ Fails("request") /\ Raise
    /\ UNCHANGED <<plan, pool, active, client, server, wire, env, data>>

(* The node forgets the job; users are fetched and containers listed next. *)
RebootForgets ==
    /\ svc.at = "reboot"
    /\ svc' = [svc EXCEPT !.at = "kill", !.job = 0, !.epoch = @ + 1, !.reboot = FALSE]
    /\ pool' = {} /\ active' = {} /\ queue' = {} /\ results' = {}
    /\ UNCHANGED <<plan, client, server, wire, env, may>>
Boots == Cardinality({b \in 1..MaxBoots : client[<<1, b>>].box # None})
RebootKills ==
    LET old == {c \in Clients : client[c].box = "up"}
    IN  /\ svc.at = "kill" /\ Boots < MaxBoots
        /\ svc' = [svc EXCEPT !.at = "boot"]
        /\ pool' = Workers \X {Boots + 1}
        /\ client' = [c \in Clients |-> IF c \in old THEN [client[c] EXCEPT !.box = "gone", !.link = FALSE]
                                        ELSE client[c]]
        /\ server' = [c \in Clients |-> IF c \in old THEN Relaunched ELSE server[c]]
        /\ asked' = Drop(old, asked) /\ answers' = Drop(old, answers)
        /\ UNCHANGED <<plan, active, env, data, may>>
(* One container first, to set up what all of them use. *)
Boot(c) ==
    /\ svc.at = "boot" /\ c \in pool /\ client[c].box = None
    /\ c = First(pool) \/ client[First(pool)].box = "up"
    /\ client' = [client EXCEPT ![c] = NewClient]
    /\ server' = [server EXCEPT ![c] = Fresh]
    /\ UNCHANGED <<plan, node, wire, env, data, may>>
BootFails ==
    /\ svc.at = "boot" /\ Fails("boot")
    /\ svc' = [svc EXCEPT !.at = "FAILED"]
    /\ UNCHANGED <<plan, pool, active, client, server, wire, env, data>>
Booted ==
    /\ svc.at = "boot" /\ \A c \in pool : client[c].box = "up"
    /\ svc' = [svc EXCEPT !.at = "READY"]
    /\ UNCHANGED <<plan, pool, active, client, server, wire, env, data, may>>

NodeStep ==
    \/ EndJob \/ Reinit \/ RebootForgets \/ RebootKills \/ Booted
    \/ \E c \in Clients :
          \/ Installed(c) \/ InstallFails(c) \/ Loaded(c) \/ LoadFails(c)
          \/ Answered(c) \/ CallLost(c) \/ Put(c) \/ WasReset(c) \/ Reconnected(c) \/ ResetFails(c)
          \/ Boot(c) \/ \E input \in queue : Take(c, input)
Failure ==
    \/ RequestFails \/ BootFails
    \/ \E c \in Clients : InstallError(c) \/ InstallTorn(c) \/ Exit(c) \/ Retire(c)

Next == Execute \/ NodeStep \/ Failure \/ \E c \in Clients : ServerStep(c)

Spec == Init /\ [][Next]_vars
(* Awaits end when what they wait for is there, processes get to run, and a job
   ends at some time: its watcher sees to that. *)
FairSpec ==
    /\ Spec /\ WF_vars(EndJob) /\ WF_vars(Reinit)
    /\ WF_vars(RebootForgets) /\ WF_vars(RebootKills) /\ WF_vars(Booted)
    /\ \A c \in Clients :
          /\ WF_vars(ServerStep(c)) /\ WF_vars(Installed(c) \/ InstallFails(c))
          /\ WF_vars(Loaded(c) \/ LoadFails(c)) /\ WF_vars(WasReset(c) \/ ResetFails(c))
          /\ WF_vars(Reconnected(c)) /\ WF_vars(Boot(c))

-----------------------------------------------------------------------------
(* Properties *)

(* Requests and answers stay in step over jobs that end in the middle of calls,
   workers whose process ends and workers that are reset: what the node reads is
   the answer to what it asked. *)
InStep ==
    \A c \in Clients : answers[c] # << >> /\ client[c].waits # None => Answer(c).to = client[c].waits

(* The results a job's client can fetch are of its inputs, by its function. *)
OwnResults ==
    svc.job # 0 => \A r \in results : r.input[1] = svc.job /\ r.fn = svc.job

(* An input of the job is in the hands of a worker of the job. *)
TakenByWorkers ==
    \A c \in Clients : client[c].task = "call" /\ client[c].input[1] = svc.job => c \in active

(* A node that takes jobs has workers without a past: none retired, none still
   at work, none that owes an answer or keeps a function; and no other container
   runs. *)
CleanSlate ==
    svc.at = "READY" =>
        /\ \A c \in pool :
             /\ client[c].idle /\ ~client[c].retired /\ client[c].task = None
             /\ client[c].waits = None /\ asked[c] = << >> /\ answers[c] = << >>
             /\ server[c].fn = 0
        /\ {c \in Clients : client[c].box = "up"} = pool

(* The packages a job brought are there, whole, when its function is loaded,
   whatever earlier jobs installed and whatever became of their installs; or
   the image has them, and nothing was put over it. *)
EnvironmentOnDisk ==
    svc.at \in {"load", "RUNNING"} /\ plan.pinned[svc.job] # 0 =>
        LET whole(version) == env = [info |-> version, files |-> version]
        IN  IF plan.baked = 0 THEN whole(plan.pinned[svc.job]) ELSE whole(0)

(* worker_server.py:376: "the client's entire environment, pinned exactly".
   No run checks it: a package an earlier job imported breaks it, and one the image
   has in another version (see the README). *)
PinnedEnvironment ==
    svc.at = "RUNNING" /\ plan.pinned[svc.job] # 0 =>
        \A c \in active : server[c].fn = svc.job => server[c].imported = plan.pinned[svc.job]

(* A node that took a job takes another one some day, or reports FAILED. *)
NodeComesBack == svc.at # "READY" ~> svc.at \in {"READY", "FAILED"}

(* One job leaves nothing for the next in the worker processes they share: calls
   and answers stay in step, inputs, functions and results are the running job's
   own, and its packages are whole on the disk. *)
JobsApart ==
    TypeOK /\ InStep /\ OwnResults /\ TakenByWorkers /\ CleanSlate /\ EnvironmentOnDisk
=============================================================================
