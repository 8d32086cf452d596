# Maple Gateway: a verification project

TLA+ models of the concurrent core of Maple Gateway, the TLC configurations that
check them, and proofs that TLAPS checks. Everything is translated from the Go
sources under `src/server`. Paths below are relative to `src/server/internal`
unless they start with `cmd/`.

Contents: [the system](#1-the-system) - [modules](#2-the-modules-and-the-code) -
[runs](#3-the-runs) - [fairness](#4-fairness) - [proofs](#5-the-proofs) -
[disagreements with the code's own words](#6-where-the-code-and-its-words-disagree) -
[not modelled](#7-what-is-not-modelled) - [plan](#8-plan) -
[running the checks](#9-running-the-checks).

## 1. The system

Three programs. The **gateway** (`cmd/server`) is the data plane (a multi-tenant
reverse proxy) and the management API over PostgreSQL; several instances may run.
The **container manager**, CM (`cmd/containermanager`), keeps the deployments the
gateway pushes to it running on nodes. A **node agent** (`cmd/nodeagent`) on each
node drives Docker and holds one WebSocket to the CM.

    administrator --HTTP--> gateway --intents, proxied calls--> CM <==WebSocket==> agents --> docker
                               ^                                 |
                               +----- instances, health ---------+

### Components

| Component | State | Operations | Interacts by |
|---|---|---|---|
| **Task system** `containermanager/tasksys` | table of tasks (status, node, done channel), rows `cm_tasks` | Dispatch, Call, Probe, Retry, Cancel, AdminCancel, Sweep, OnAck, OnProgress, OnResult, Load | envelopes through a sender the hub finds; saves after the lock is given up |
| **Agent sessions** `containermanager/agentconn` | hub: node -> session; per session a queue, a done channel, a handler goroutine | hello, Add, kick, ready, read loop, write pump, Remove | callbacks into the task system, node records, log streams |
| **Node agent** `nodeagent/wsclient`, `exec`, `docker` | connection, registry of executions, containers | execute, cancel, reconnect | result on the connection the task came by |
| **Reconciler** `containermanager/reconciler`, `rollout`, `scheduler` | pending replicas, failure counts | a round every few seconds: recycle, plan, create, drain, settle phases | reads desired state and snapshot; calls agents, a minute each |
| **Desired state and control** `containermanager/desired`, `control`, `api` | one state per deployment, phase, paused instances | put, stop, forget, remove a version, stop/start/restart/remove an instance | pushed by the gateway, read by the reconciler |
| **Observer** `containermanager/observer` | snapshot of all containers, reported instances | a tick: list each node, replace the snapshot, report | probes to agents; calls to the gateway |
| **Release** `release` | rows of releases, weights of versions | create, start, pause, resume, weight, promote, rollback, switch, delete; the automatic executors | transactions at read committed; the route cache reads the weights |
| **High availability** `ha` | Redis lock, lease in the instance's row, `isLeader` | tick: renew, acquire; release | its `isLeader` gates the push to the CM and the certificate loop |
| **Network pools** `containermanager/netpools`, `ipam`, and **applications** | pools, project networks, twice: memory and rows; Docker networks | deploy (allocate, create, up), remove (down, delete, release), create, change and delete pools | one transaction per allocation, then the memory copy; tasks to the agent |
| **Certificates** `certificate` | rows, operations, SNI cache | issue, renew (loop and by hand), upload, delete | cache reloads after the row is written |
| **Route cache and resolver** `cache`, `router`, `loadbalancer`, `traffic`, `ratelimit` | table behind an atomic pointer, balancer states, buckets | rebuild, resolve | every request reads the table; rebuilds read the rows |
| **Health checker, nodes, discovery** `health`, `node`, `discovery`, `instance` | counters, rows of nodes and instances | probe, heartbeat, register, deregister | decide what the pools hold |
| **Node records, enrolment** `containermanager/nodes`, `enrollment` | last seen, state, credentials, tokens | touch, evaluate, consume a token | fed by sessions, read by the observer and the scheduler |

The rest (tenants, domains, services, templates, projects, accounts, settings,
logs, metrics) is CRUD of single rows, configuration, or input and output;
PROJECT.json lists every part with the reason.

### Hard behaviours and what would make a component correct

* **Task system.** A task is touched by its caller, by the read loop of its
  node, by the sweeper, by administrators, and by a save that runs after the
  lock is released. It should be handed out at most once, settled once and for
  all, its caller told that outcome, success never be made up, and a crash of
  the CM leave nothing open.
* **Sessions and agents.** Sessions are replaced while their handlers still run.
  One live session per node must be what senders find; a cancel must not be lost
  to a reconnect; an execute must not run twice or elsewhere.
* **Reconciler.** A round acts for minutes on what it read at its start, the
  snapshot is old and may miss a node, a created container shows up late, calls
  time out but take effect. It must not create too many, must not give two
  containers one name, and must end up with what is asked for or say that it
  gave up.
* **Release.** Concurrent requests and one executor per gateway instance read
  and write the same rows in transactions that do not lock what they read. One
  release may be active, the weights must be those its phase says, a promotion
  must not be taken back.
* **High availability.** At most one leader, and soon one, over expiry, restart
  and the loss of Redis.
* **Network pools.** An allocation commits its row and then copies it into memory,
  a release does the reverse, calls to Docker lie in between, may time out and take
  effect later. No subnet twice, no containers without their network, one binding
  per project, released subnets usable again.
* **From container to route.** The observer reports old lists over calls that are
  lost or answered in vain, a checker compares with what it listed, administrators
  write whole rows back, rebuilds read in several statements and may overtake each
  other. Nothing may be routed to that has not proved itself, and when things calm
  down the table must have exactly what is well, at its port.
* **Certificates.** Uploads, jobs, two renewals and the reconciliation write rows
  and caches in any order; jobs and gateways die. One issuing job of a hostname at a
  time (a renewal may order beside it, [6](#6-where-the-code-and-its-words-disagree)),
  nothing served that was not stored, caches that catch up, no operation in the way for
  ever.
* **Requests.** Concurrent requests hold different tables and share buckets, round
  robin states and counts. Each must be routed by the entry it looked up, turns
  shared by weight, quotas kept over resets and sweeps.

"hazards" in PROJECT.json lists where each of these bites, by line, with the
properties that watch over it. Four have none: the code breaks the promise that
could be held against it there, which is shown in [6](#6-where-the-code-and-its-words-disagree).

## 2. The modules and the code

### TaskManager, TaskPromise, TaskRefinement

`TaskManager` is `tasksys`. Every goroutine is a thread; a critical section of
`Task.mu` is one step, a save two more (`TakeSnapshot` when `Save` takes the lock
again, `WriteRow` for the statement), because `persist` runs after the unlock and
two saves may cross. `deliver` is four steps, `Route`, `Send`, then
`MarkDispatched` or `MarkBounced`: the envelope leaves *before* the status says
so, which is what most of the module's behaviour turns on. `Restart` is a crash
at any point followed by `Load`; the rows survive, everything else goes.

Agents and connections are open here: a sender may be found or not, may refuse,
and any node may report anything about a task that was sent (identifiers are
random, so not before). Payloads, percentages, deadlines (a sweep may come at any
time after creation) and paging are abstracted. `Load` takes every row here; the code
reads the newest 1000 (`store.go:62`), so a task still open behind as many newer ones
would be missed. A node's frames come one at a time: the read loop of a replaced session,
which may overlap the next one's, is TaskSystem's.

`TaskPromise` is the abstract specification: a task is opened, handed to an agent
at most once, settled once, its caller told an outcome or an error; a crash
leaves nothing open. `TaskRefinement` maps the one to the other. Two places of
the promise are weaker than one might wish, and must be, because of the race in
`deliver`: a task whose delivery is not over counts as open whatever its status,
and a caller who is told a status that is not terminal counts as sent away with an
error.

### AgentSessions, TaskSystem

`AgentSessions` is the hub, the handler goroutine of each session from admission
to its end, the queues and the agent's connection loop, for any set of frames.
What is under way to a side that has left is lost. `TaskSystem` extends TaskManager,
whose actions it takes as they are, by an instance `Link` of AgentSessions and by the
agents' executions: `RouteToHub` asks the hub, `SendToSession` fills a queue, `Receive`
feeds the read loop, `AgentExecute`, `AgentFinish` and `AgentCancel` are `handleTask`
and `handleCancel`. So what TaskManager leaves open is decided here, and its theorems
hold here too (`SystemImplements`). An execution outlives the connection it was asked on but reports
on that connection only. CM and agents crash independently.

### Release, ReleasePromise, ReleaseRefinement

An action is a transaction at read committed: `Ask` (or `AutoAsk`) reads the
release, `start` also reads the baseline weight in a statement of its own
(`Baseline`), and `Commit` is everything after. That this last part is one step
is an argument, not a convenience: the first write locks the row until the
commit, all writes become visible with it, the guard of the release row
(`phase = <as read>`) is evaluated on the latest committed row, and the partial
unique index makes a second activation wait for, and then fail on, the first.
Executors (`Judge`, then `AutoAsk`) list, think and ask later; each gateway
instance runs one (`cmd/server/main.go:252-262`), so there may be several.

The step and the target of an executor are configuration that `Update` changes at
any time, so the next weight is any larger one. Events, names, the status column
of versions and weights edited by hand through the version API are left out.

`ReleasePromise` is the abstract specification: no transactions, executors, strategies
or recorded weights, only the phase of each release and the weights of the versions,
and operations that take effect one at a time, each guarded by the phase its release is
in *then*. `ReleaseRefinement` maps the rows to it, so everything a transaction has read
disappears: that Release implements it says that the interleaved, read-committed
transactions are serialisable as far as phases, pairs and weights go. The promise is
weaker than one might wish in three places, which are those where a check is made on
what was read and not made again: `Start` does not ask for a primary version at 100 %,
`Remove` takes a canary in any phase, and recorded weights are not in it
([6](#6-where-the-code-and-its-words-disagree)).

### Reconciler

One deployment, its containers at the agents, the observer's tick, the
reconciler's round, and one operation of an administrator at a time. The round's
`Begin` takes the three reads (desired states, snapshot, pauses), which follow one
another without a call in between, as one step; each call to an agent is a step of
its own, after which anything may have happened. The two halves of a tick, `List`
and `Install`, are apart: what `Install` puts in place is already old. `lost` and
`revived` are history: they record that the CM may have lost sight of a container
(a node skipped by the observer, a timeout, a restart), or that a stopped one was
started by hand, cases in which the code makes no promise to count right and from
which it only has to recover (`Converges`).

Abstractions: placement is any node; an instance id is a number (a uuid in the
code; `newestFirst` says how new ones sort, since drain removes in order of id),
reusable once nobody remembers it; listing all nodes is one step; a stop or a
removal that takes effect after its timeout is left out, a late *create* is not;
the call that asks the gateway to drain is left out, since nothing waits for it;
writes of the desired state succeed, as the code ignores their errors.

### Leadership

Package `ha`: each gateway instance ticks, and each call of a tick (`GET`, `EXPIRE`,
`SETNX`, the two lease statements, the row's heartbeat) is a step of its own that
may fail. There are no clocks. A key or a lease may run out at any time; if its
instance is still renewing it, that is a trouble (the instance was late), counted
like a lost answer, a failing database, or the end of a process. `calm` is history:
Redis has answered so far and no key was lost while it was needed. `Get` keeps a
detail of the client the code depends on: a missing key is an error, which the code
takes for a failure of Redis. A process that is told to stop calls `releaseLeader`
with a context already cancelled, so none of its calls takes effect and the key
stays until it expires; `Exit` is therefore both crash and shutdown. Left out: the
mode without coordination, `Stop` and `MarkOffline`, which nothing calls.

### NetPools

Package `netpools` and the controller of compose applications that calls it. `pools`
and `nets` are the tables in memory, `poolRows` and `netRows` the rows. A worker is a
request; its steps are lock sections, statements and calls of the agent: a deployment
is `Deploy`, `TryPool` for each pool (one transaction: it locks the pool's row, reads
what is used, and inserts), `Adopt` (the copy into memory, outside the transaction),
`SaveActive`, `CreateNet`, `Created`, `SaveCreated`, `Up`; a removal is `Remove`,
`Down`, `Release`, `DeleteNet`, `Deleted` and its saves, `Drop`; pools are created,
changed, checked and deleted beside them. The indexes of migration 0031 are `Refused`
and `Referenced`. A save writes what its worker set earlier, so two saves may cross,
and a call that is given up may still be executed (`late`, `AgentLate`). `Restart`
loses memory and workers and loads the rows.

A subnet is a number and a pool an interval of them, so that pools may overlap. The
CIDR arithmetic of `ipam` and the reserved addresses are thereby left out; the order
of the pools is any order, the cool-down (`cooling`) ends at any time.

### Routing

From a container to the route table and back out of it, through five packages:
`observer` (round, lists, back-off, reports), `discovery` with `instance` and `node`
(the rows and what the reports do to them), `node/watchdog`, `health` (rounds over a
list, counts, thresholds, grace period), and `cache` (rebuilds). Each call and each
statement is a step. A report (`Report`, `Register`, `Mark`, `Deregister`,
`HeartbeatReads` and `HeartbeatWrites`) may be lost, or done without its answer
arriving; the chain "heartbeat, else register, else mark" is therefore three steps
with every outcome. Updates by administrators read the whole row and write it back
(`UpdateReads`, `UpdateWrites`). Two builders per gateway, the ticker's and the API's,
each read the instances and the nodes in one step each and swap in a third; a builder
that starts early may swap late. `proven` is history: who has once answered as many
probes in a row as the threshold asks.

The constants allow several gateways; each has its own checker and tables, all share
the rows. Left out: the other statements of a rebuild (domains, tenants, versions,
policies, limits), creation and deletion of nodes, a health or port set by hand, and
`Sync`, which nothing calls.

### Certificates

One hostname: its rows (two at a time), the operations, and the cache of each
gateway. A goroutine (`hand`) is a request, the job of an operation, the renewal or the
reconciliation; what it has read and not yet used is in its hand while others work.
Uploads, reloads and deletions write the row and then the cache in steps of their
own; `IssueAsync` looks for an open operation, creates one under the unique index
(`Admits`) and starts a job, which orders, writes and finishes; `RenewTick` lists what
is due and goes through it; `ReloadTick` reads the rows and `ReplaceAll` replaces the
cache. `Finish` may fail to write, after which only `ExpireStale` can end the
operation; `Stale` has that the clean-up leaves alone what somebody works at, since
the deadline of a job (10 minutes) is shorter than that of the clean-up (15).
`Crash` ends all goroutines of a gateway. A renewal orders too, but has no operation and
looks for none, so it may run beside a job or another renewal. `Touch` is a write that
leaves the certificate as it is, of the expiry scan or of a binding: it decides which of
two rows is the older. An order at the CA is one step that
succeeds or fails; a certificate is a number, and when it ends is left open.

### Requests

The data plane for one host: `resolver.go` with the limiter in memory, the balancer and
the counts of requests under way. A request looks up its entry once (`Arrive`) and keeps
it; `Install` replaces the table at any time, by Routing's leave. Critical sections are
steps: a rule (`Limit`), a turn (`Takes`), each look of `LeastConnections` at a count
(`Scan`), and the counting itself (`Forward`, `Finish`). A client is the set of policies
it meets, a session key is any member of the pool; the clock is ages. `passed` and
`shares` are history, for the quotas and the turns. The fingerprint of a state that was
never used is the empty list, as it is the empty string in the code.

### Mutants

Each module also defines altered versions of some of its actions, each marked
`Mutant of ...`: a dropped guard, a missing save, an identity check left out.
They are in no `Next`. PROJECT.json pairs every property of a passing run with
one that breaks it.

## 3. The runs

| Run | Instance | Asks |
|---|---|---|
| TaskManager | 1 task, 2 nodes, database, 1 restart | all invariants, `SettledIsFinal`, `CallersReturn`, `EveryTaskSettles` |
| TaskRefinement | 2 tasks, 1 node, no database, 1 restart | TaskManager implements TaskPromise |
| TaskSystem | 1 task, 2 nodes, 2 sessions, queue of 2, 1 crash of either side | table, sessions and agents together |
| Release | 2 versions, 2 releases, 2 requests, 1 executor, 3 weights | all invariants, `CompletedIsFinal`; Release implements ReleasePromise |
| Reconciler | up to 1 replica, 3 instances, 1 node, 2 operations or troubles | all invariants, `NoSurplus`, `Converges` |
| Leadership | 3 instances, Redis, 3 troubles | all invariants, `LeadsToItsEnd`, `SomebodyLeads` |
| NetPools | 2 projects, 2 overlapping pools of one node, 2 workers, 4 requests, 1 trouble | `IInv`, `NoCollision`, `RunningHasNetwork`, `BindingKept` |
| Routing | 1 instance, 1 node, 2 ports, 1 gateway, thresholds 2 and 1, 2 events | `IInv`, `Converges` |
| Certificates | 1 gateway, 2 requests, 2 certificates, 2 operations, 1 event | `IInv`, `Converges` |
| Requests | 2 requests, 2 clients, 5 entries, sweep every unit | `RoutedAsAsked`, `ShareKept`, `LimitKept` |
| LeadershipTwo, NetPoolsReuse | the smallest that shows it | what the code's comments say and the code does not do ([6](#6-where-the-code-and-its-words-disagree)) |

"All invariants" are those listed in PROJECT.json; `IInv` contains the type invariant
in every module that has it. The inductive invariants of TaskSystem (`SystemInv`) and
Requests (`RequestsInv`), which contain theirs, have configurations of their own:
TaskSystemInv.cfg, a smaller instance that also checks that the composed system is one
of TaskManager (`Spec` as a property), and RequestsInv.cfg, the instance of the run.

Why these bounds are enough to mean something:

* **TaskManager.** Tasks meet in one place only, `Retry`, so all that threads
  can do to each other over a task shows with one; the second node is the one
  that reports what is not its own. One restart is enough for a crash at every
  point; a second would start from rows of the same kinds. The retry itself is
  covered by TaskRefinement with two tasks (without the database, for size).
* **TaskSystem.** Two sessions are the least at which one replaces the other or
  a node reconnects, a queue of two the least at which a cancel waits behind an
  execute; both agents exist, so that an execute could go to the wrong one. A
  task is asked for by `Dispatch`; `Call` and `Probe` differ only in the caller,
  whom TaskManager has.
* **Release.** Three weights (none, some, all) are all the properties tell apart.
  Two requests and an executor are the least with which a stale transaction meets
  a change *and* a third party; two releases the least that compete.
* **Reconciler.** Ids are reusable, so three suffice for one replica: the one
  running, the one created in its place, the one that is lost. Two events allow
  every pair of troubles and operations, also during the recovery from the
  first. Larger instances (up to two replicas and four ids with one event, and
  the safety properties with two) were run while the model was built, without
  other results; the run here is the largest that also checks liveness quickly.
* **Leadership.** Three instances: one leads, one is about to acquire, one competes
  with it. Three troubles reach every kind of pair (a lost answer, then an expired
  key) and one more during the recovery.
* **NetPools.** Two workers for two projects are the least that cross; the pools
  overlap in one subnet, one of them has two, so that pools are exhausted, passed
  over and reopened. Four requests are a deployment and a removal of each project,
  or an administrator's changes between them. More nodes add only that an
  application may move, which is where `NoCollision` ends
  ([6](#6-where-the-code-and-its-words-disagree)).
* **Routing.** Instances do not influence each other but for being in one list; what
  can go wrong is between the many writers of one row. Two ports tell a restarted
  container from its predecessor. A threshold of two for success is the least at
  which proof takes several probes. Any two changes or troubles, such as a lost answer
  and an administrator's write, are followed by whatever the loops make of them.
* **Certificates.** Two requests and a job, both loops and one trouble on one gateway
  have every crossing on one cache; two gateways differ from this only in whose cache
  lags, and the jobs exclude each other through the database (the theorem is for any
  number). Two certificates tell old from new; two rows let a deletion uncover
  another.
* **Requests.** Two requests are what can share a turn or a bucket. The entries are
  chosen for their transitions: a canary at weight 1 whose policies direct one client
  by least connections and draw the other, the same host without its canary, with
  only a stopped canary, one with a limit, one that is empty. With a sweep every
  unit, a window of 3 is the longest that the sweep never cuts short.

`CHECK_DEADLOCK FALSE` stands where the system may stop: identifiers are used at
most once, and requests and restarts are bounded, so a run of tasks, releases or
applications ends. The other modules have no such line: their tickers never stop.

What the deeper properties say, each with its code in the module's comment:

* `SettledIsFinal`: after its delivery, no frame, cancellation or sweep changes
  an ended task. `ToldIsKept`: what `await` returned stays true.
  `SuccessIsReported` / `SuccessWasExecuted`: success in memory, in the row or at
  the caller has been reported by the task's own node, and executed there.
  `SentIsRecorded`: write-ahead, unless the database refused a write.
  `OrphansAreSettled`: nothing is open after a restart.
* `CancelCatches`: a cancel that leaves after the delivery and reaches the agent
  stops the execution. `HubKeepsTheLive`: a live session is the one senders
  find, whatever the handler of the old one still does.
* `TrafficFollowsPhase`, `SplitIsOwned`, `CompletedIsFinal`, and `OneActive` in
  `IInv`: a transaction that read an old phase neither activates a second release
  nor splits the traffic again. `Implements`: it does nothing that an operation on
  the present phase would not do.
* `EveryReplicaCounts`: a replica that lives is counted by whatever round comes
  next. `NoSurplus`: a round creates only where there are too few *now*, however
  old what it read. `IndexesDiffer`: no two containers of a version with one
  name. `Converges`: when troubles end, so does the work, with the right number
  running and `ready` shown, or openly given up.
* `OneLeader` and `LeadsToItsEnd`: two instances between their look at the key and
  what they do next cannot both lead, and a failing database or another's attempt
  does not depose the one that does. `SomebodyLeads`: neither a lost answer to a
  `SETNX` that took effect, nor a key left by an instance that ended, nor an expired
  lease keeps the instances without a leader for ever.
* `NoCollision`: a deployment that is about to create its network never meets another
  project's on the same subnet, including one left behind by a release that crossed a
  deployment. `RunningHasNetwork`: no removal takes the network from under containers
  that a crossing deployment has brought up. `BindingKept`: two deployments of one
  project, each of which found it without a network, do not replace each other's.
* `IInv` of Routing has `ProvenOnly`: no table ever has an instance that has not
  answered the threshold of probes in a row, whichever stale row, list or rebuild was
  written last. `Converges`: whatever was lost or overwritten is corrected, without
  anybody's help, and a crashed, vanished, drained or unreachable instance leaves the
  table.
* `IInv` of Certificates has `OneJob` (one open operation, one job, and the job's is
  open; of renewals it says nothing) and `ServedWasStored`. `Converges`: caches catch up although a reload that read
  before a write replaces the cache after it; an operation whose job died ends.
* `ShareKept`: in any run of turns since the weights or members changed, nobody is a
  whole turn ahead, nor further behind than there are others, and all are even when the
  turns are as many as the weights add up to. That nobody is a whole turn behind, which
  smaller weights suggest, is false: with the weights 1, 1, 1, 1, 4, 4 somebody is, after
  nine turns. `LimitKept`: twice the quota, the price of fixed windows,
  is never exceeded by a rule alone of its scope, though the sweep forgets buckets, as
  long as windows are not longer than the time they are remembered. `RoutedAsAsked`: the
  version is one a policy or a positive weight asked for, in the entry that was looked
  up, and the counts are those of requests under way.

## 4. Fairness

* **TaskManager.** Weak fairness of the caller's own steps, of saves, and of the
  sweep of each task: the Go runtime schedules every runnable goroutine, and the
  sweeper's ticker keeps firing until the process ends (`RunSweeper`). Nothing
  is assumed of agents, contexts, administrators or crashes; that is the point of
  `CallersReturn`: the sweeper alone must wake a caller. (A probe is not saved,
  but swept like the rest.)
* **Reconciler.** Weak fairness of the round's step, of the observer's complete
  tick, of the administrator's half-done operation, of each agent's step and of
  time passing: two tickers that never stop, calls that end by answer or timeout,
  agents that carry out what they accepted. Troubles and operations are bounded by
  `MaxEvents` and never required; `Converges` is a statement about what happens
  after the last of them.
* **Leadership.** Weak fairness of each running instance (its ticker, and calls that
  end), and of expiry: what nobody renews runs out. Instances need not start, and
  may end; `SomebodyLeads` is about the time after the last trouble.
* **Routing.** Weak fairness of the observer's, checkers' and rebuilds' steps, of the
  watchdog, of an administrator's request that has begun, of the end of a back-off, and
  of the ageing of heartbeats of nodes without a session: tickers, calls with
  deadlines, and time. Nothing is assumed of containers, sessions and administrators,
  whose changes are bounded and never required; an API rebuild need not be asked for.
* **Certificates.** Weak fairness of each goroutine once it is under way, of the ticks of
  renewal and reconciliation, and of the clean-up: three tickers. Requests, orders and
  crashes are never required.
* Release, TaskSystem, NetPools and Requests are checked for safety only.

## 5. The proofs

All proofs are for every value of the constants under the `ASSUME`s of the
modules, each of which TLC evaluates in a run: threads have different names,
bounds are naturals, weights run from 0 to `Full` with `Initial` between, the sets
of instances, of requests and of rules are finite, `None` is nothing else, pools are not
empty, thresholds, limits and windows are positive. The last is what the creation of a
rule demands; a `PATCH` does not ([6](#6-where-the-code-and-its-words-disagree)), and of
a rule with no limit or no window `LimitKept` says nothing.

| Module | Proves |
|---|---|
| TaskProofs, of TaskManager | `IInv` inductive; `TypeOK`, `SuccessIsReported`, `ToldIsKept`, `ProbeLeavesNoTrace`, `ExecuteSentOnce`, `SentIsRecorded`, `OrphansAreSettled`; `SettledIsFinal` |
| TaskProofs, of TaskRefinement | `Spec => Implements`: TaskManager implements TaskPromise |
| TaskProofs, of TaskSystem | `SystemInv` inductive; `SystemTypeOK`, `SuccessWasExecuted`, `RunsOnceOnItsNode`, `CancelCatches`, `HubKeepsTheLive`; `SystemSpec => Spec`: the composed system implements TaskManager |
| ReleaseProofs | `IInv` inductive; `TypeOK`, `OneActive`, `TrafficFollowsPhase`, `SplitIsOwned`; `CompletedIsFinal` |
| ReleaseProofs, of ReleaseRefinement | `Spec => Implements`: Release implements ReleasePromise |
| ReconcilerProofs | `IInv` inductive; `TypeOK`, `EveryReplicaCounts`, `IndexesDiffer`; `NoSurplus` |
| LeadershipProofs | `IInv` inductive; `TypeOK`, `OneLeader`; `LeadsToItsEnd` |
| NetPoolsProofs | `IInv` inductive; `RunningHasNetwork`; `BindingKept`; `NoCollision` for one node |
| RoutingProofs | `IInv` inductive; `ProvenOnly` |
| CertificatesProofs | `IInv` inductive; `OneJob`, `ServedWasStored` |
| RequestsProofs | `RequestsInv` inductive; `TypeOK`, `RoutedAsAsked`, `ShareKept`, `LimitKept` |

**TaskManager.** None of the safety properties is inductive alone. Success must
not be made up *by a stale save*, so `SaveInv` says what a goroutine may hold in
its hands: a task of this process, saved if it may be, with a snapshot of success
only if success was reported. `FirstSaveInv` says that the row is there before the
sender is looked up (from which `SentIsRecorded`), `NotSentYet` that the envelope
is not out before `Send` (from which `ExecuteSentOnce`), `ToldOnReturn` that only
a caller whose delivery is over was told anything, so that the race in `deliver`
cannot reach `ToldIsKept`. The step is proved action by action, under each the
conjuncts it can disturb.

**Refinement.** Initial states map to initial states, and each action to a step
of TaskPromise or a stutter: a frame of a task under delivery is a stutter or a
`Report`, the end of a delivery whose task was already cancelled is a `Settle`,
`Restart` is `Crash`. The inductive invariant is cited throughout.

**TaskSystem.** What one wants to know, that no task runs twice or at another node and
that a cancel is not lost, is about frames that are on their way, so the invariant is
about queues of any length and what they hold. `ExecuteIsFirst`: an execute on its way is
for a task that was sent, has not run and whose agent has read no late cancel;
`OneExecute`: there is one of a task in all queues together; `LateIsLater`: a cancel that
was sent after the delivery is behind it; `AnswersAreTrue`: what comes back is as it
ended. These are kept by putting a frame at the end, taking one from the front, and
losing a queue: the lemmas on queues that grow (`DownGrows`) or lose frames from the
front (`DownShrinks`), which every step then cites. They need to know where queues are: a session that was not
dialled is known to nobody (`FreshIsUnknown`), sessions are known under their own node
(`SessionsAreOf`), and only the one that an agent is connected by has frames for it
(`DownIsHeld`), so that a cancel sent to the new session of a node cannot meet an execute
left in the old one. `HubKeepsTheLive` needs nothing of the tasks: it follows from what a
handler holds at each of its stages, of which the kick under `replaced` is the point.
Each step of the composed system is also a step of TaskManager, or leaves its variables
alone (`SystemStep`); so `IInv` is had from the first proof, and `SystemImplements` says
that everything proved of TaskManager holds of it with hub, queues and agents in place.

**Release.** The point is `TxIsSound`: what a transaction read may be old, but it
was a sound row of the same release, with the strategy and versions the row still
has, and it allowed the action. With the commit's check that the phase has not
changed, this is enough for the weights to be those of the phase. `last` (who
wrote weights last) carries the argument from one release to the next. The refinement
needs the same facts: reads, verdicts and refusals change nothing of the promise; a
commit moves the stage of its release to the phase of the new row and splits the
traffic between the pair it is still about (`CommitIsSerial`), and is then, action by
action, the operation it was asked for (`CommitImplements`); a deletion that comes late
finds a canary or nothing (`DeleteImplements`).

**Reconciler.** `Known` says that a container that is there is pending, or in the
snapshot *and* in what is about to replace it, or being created; `Counted` that
the same holds of its place among those that run, unless one was started by hand;
`LeftFits` that what a round still means to create has free indexes and places,
although the round's view is old, because only the round creates and everything
else only takes away. The proof first shows that all steps that create nothing
leave these alone (`StaysInvariant`: containers only move on, pending replicas
stay, the round goes on with less), and then takes `Begin`, `Create`, the two
halves of the tick and `Restart` one by one; the counting in `Begin` needs that
what it counts covers all that lives.

**Leadership.** `OneLeader` needs that the key belongs to who leads *or has won and
is not yet leader* (`LeaderHasKey`), and that no tick comes to the leases of the
database while Redis answers (`NoFallback`): there nothing would keep two instances
apart. History only loses its calm (`CalmStays`), so it is enough to look at steps
that leave it.

**NetPools.** Rows of networks are never deleted and never change what they bind, so a
binding once in a row stays. `RowsApart` comes from the two unique indexes;
`MemoryBound`, `HandsBound` and `HostsBound` say that memory, requests, Docker networks
and late orders hold only what some row binds. From these, two projects on one node
never share a subnet, wherever they are. `BindingKept` adds that the project's row is the
only one memory can be made from. The case split is by who writes rows (`RowsStep`,
`PoolsStep`), memory (`MemoryStep`) or hosts (`HostsStep`).

**Routing.** A row, or a copy of one in somebody's hand, that says healthy is of an
instance in `proven`; registration and heartbeats do not say healthy, a checker does so
after `SuccessThreshold` answers, which puts the instance into `proven`, and that only
grows. So no order of writes, lists and swaps can matter, and `ProvenOnly` follows from
what builders may hold.

**Certificates.** What a goroutine may have in hand (`Sound`) is stable as `stored` only
grows. `OneJob` rests on the unique index when an operation is created, on a job being
started with its operation only, and on the clean-up's patience when one is ended by
somebody else.

**Requests.** Four arguments that meet only in the order of the requests
(`RequestsInOrder`: what a request holds at each stage, of which `VersionAsAsked` and the
members of the pool it was given; an entry it holds may have left the table).
*Counts*: `CountsAreLive` is kept because a request's instance does not change while it is
served. *Turns*: a state of the round robin is history in disguise. `TurnsAreOwed` says
that the current value of each member is what it is owed, its weight times the turns taken
less its turns times the sum of the weights, and that this stays above minus one whole
turn: the turn goes to the greatest, values add up to nothing before it, so the
greatest is positive once weights have been added (`OneTurn`). When as many turns are
taken as the weights add up to, what is owed is a multiple of their sum that is greater
than minus it, hence not negative for anybody, hence nothing: all are even, and the
period ends. `ShareKept` is what that says of turns. A pool that changes resets state and
history together, because both compare the same fingerprint. *Limits*: `BucketsRemember`
says that a bucket counts all that its rule has let through since it began, and that what
was let through in a window before that is within one quota; two quotas are then the bound
over any stretch, since a stretch as long as the window meets two buckets at most. A
missing bucket is sound only if the sweep came before anything of its time unit
(`SweepIsFirst`) and the bucket was older than the time that counts.

Sums over pools and over time are recursive functions (`Sum`). That they are what their
recursion says (`SumDef`), and what is proved of them by induction, is had from the
library's theorem that a well-founded relation has least elements: a set of numbers that
has 0 and is closed under successor is all of them (`Least`, `Induct`). So are the
candidates of a version's choice (`CandidatesAre`).

**Only model-checked**: liveness (`CallersReturn`, `EveryTaskSettles`, `SomebodyLeads`,
the three `Converges`), which under fairness is beyond this prover. Every safety invariant
and every action property that a run checks is a theorem.

## 6. Where the code and its words disagree

Two are runs that TLC refutes; the quotations are under "findings".

* **LeadersBecomeOne** (run LeadershipTwo, `ha/repository.go:163`): the lease in the
  database compares the instance's own row only, and a missing key counts as a failure
  of Redis: two instances may lead, and renew, for ever.
* **RefusedWhenFull** (run NetPoolsReuse, `netpools/allocator.go:147`): a released subnet is
  offered again after its cool-down and then refused by the unique index, because its
  old row is still there; for the same reason a project can never be deployed again
  after its removal.

The others are stated in their modules, with a comment that says that they do not hold,
and each has a configuration with which TLC refutes it, in an instance as small as shows
it:

| Property | Configuration | What the code says | What it does |
|---|---|---|---|
| `TerminalIsFinal` (TaskManager) | TaskManagerFinal.cfg, TaskManager | `tasksys/task.go:27`: a terminal state does not change any more | `manager.go:194`, `:172`, `:186`: the rest of a delivery sets a task that has ended back to dispatching or to failed, and its caller is told `dispatching` |
| `ActiveIsPrimary` (Release) | ReleaseActive.cfg, Release | `release/model.go:71`: the primary version is the active one of a blue-green release | `strategy.go:287`: a switch moves the traffic and leaves the primary version, so neither a roll-back nor a switch back is possible |
| `RunningIsNotDeleted` (Release) | ReleaseDelete.cfg, Release | `release/service.go:78`: a running release must not be deleted | `service.go:79`: a delete that read a terminal phase removes a release started since |
| `StartsFromFull` (Release) | ReleaseBaseline.cfg, Release | `release/strategy.go:126`: the stable version must be at 100 %, a canary is not put on top of another split | `strategy.go:127`: the weight is read in a statement before the start commits; a release that was created, started and promoted in between loses the traffic it was given |
| `RecordIsTrue` (Release) | ReleaseRecord.cfg, Release | `release/strategy.go:154`, `docs/plan-phase2.md:398`: a pause freezes the weights | `repository.go:248`: a pause or a resume writes back the recorded weights it read; a weight set in between stays in effect and is gone from the record, from which the executor takes its next step |
| `NoneCreatedAfterStop` (Reconciler) | ReconcilerStop.cfg, Reconciler | `api/deployments.go:52`: from here on no replicas are created for the deployment | `reconciler.go:118`: a round that has read the desired state goes on creating; the new container is owned by nobody |
| `OldVersionLeaves` (Reconciler) | ReconcilerRollout.cfg, Reconciler | `rollout/rollout.go:3`: when the new version is ready the old one is removed | `rollout.go:56`: one state per deployment replaces the old version's, so the plan never drains it |
| `NoCollision` on two nodes (NetPools) | NetPoolsMove.cfg, MCNetPools | the plan of the IP pools, lines 1772-1776: on the target node a new subnet is applied for, as addresses are local to a node | `allocator.go:64`: a project deployed on another node gets the network of the old one, whose subnet is somebody else's there |
| `SetAsideIsKept` (Routing) | RoutingMaintenance.cfg, MCRouting | `docs/plan-phase2.md:358`: maintenance and disabled stop new traffic | `node/repository.go:192`: a heartbeat takes maintenance for online, and overwrites a status set between its read and its write |
| `Deregistered` (Routing) | RoutingVanish.cfg, MCRouting | `docs/plan-phase7.md:353`, `observer.go:429`: what vanishes is deregistered | `observer.go:425`: a container that vanishes while its node is not observed is in no later set of reported ones |
| `PendingEnds` (Certificates) | CertificatesPending.cfg, Certificates | `issue_async.go:57`, `:119`: pending shows an order in progress, a failure does not degrade a domain that has a certificate | the failure of such an order leaves the domain pending, and so does the death of its gateway |
| `OneOrder` (Certificates) | CertificatesOrders.cfg, Certificates | migration 0017, lines 8 and 18: an operation is `issue / renew`, and one of a hostname is in progress, so that the CA does not limit it | `renew.go:144`: a renewal orders without an operation, beside a job or another renewal; only issuing jobs exclude each other (`OneJob`) |
| `StrictestCounts` (Requests) | RequestsStrictest.cfg, MCRequests | `cache/route.go:326`: of the rules that apply the strictest counts | `limiter.go:62`: rules of one scope share a key and each begins the other's bucket again: neither limits anything |
| `WindowSlides` (Requests) | RequestsSliding.cfg, MCRequests | `docs/plan-phase2.md:482`, `ratelimit/model.go:3`: the window slides, and no burst gets more through | `limiter.go:66`: a window is fixed and begins with a request; across its end twice the quota gets through |

Smaller observations that no property states: a retry accepts a successful task
though the comment speaks of failed ones; `removeDead` recycles a pending
instance that an administrator stopped, though its comment excludes paused ones;
a task envelope can reach an agent before `agent.ready` and so fail its handshake;
the pauses of instances removed with a whole deployment stay behind until a
restart; the failure mark of a deployment is not cleared by a new push; replicas
that become ready and crash are created again without end, and their exited
containers are left; on a restart of the CM the snapshot is empty until the first
tick, so a round before it creates too many, which are drained later; an executor
raises the weight of a canary that was paused after it was listed, though the plan
(`plan-phase4.md:353`) says it leaves a paused one alone; a leader whose `EXPIRE` fails logs the error of the
`GET` before it, which is nil, and panics (`ha/coordinator.go:158`); without a Redis an
instance whose lease has run out can neither renew nor acquire until it restarts
(`SomebodyLeads` does not hold with `Redis = FALSE`).

Of the newer modules: the copy of a pool that an allocation took at its start undoes a
status set meanwhile (`netpools/allocator.go:157`), the upsert of a pool's save brings a
deleted pool back, and two concurrent creations may make pools that overlap; a network
whose Docker network is already gone can never be released (it stays failed); at its
limit of attempts a renewal says that it stops, but the list of what is due looks at
neither the attempts nor the time of the next one (`certificate/renew.go:200`); a renewal
under way overwrites a manual certificate uploaded meanwhile; certificates that have
expired are never renewed automatically; two concurrent creations make two rows of a
hostname, and the older is then the one that is found; on shutdown a job writes its end
with a context already cancelled, so the operation stays open until the clean-up; the
comment on the expiry scan (`cmd/server/main.go:381`) says that it takes certificates
from the cache, which it does not; buckets are swept after 120 s, so longer windows are
forgotten midway; the instances of a pool come in no fixed order, so that a rebuild may
reset the round robin and move header sessions; the latency that the automatic executors
compare is measured before the request is forwarded (`proxy/proxy.go:198`); a request
that a later rule refuses has used the quota of the earlier one; the `PATCH` of a
limit is not validated as its creation is (`ratelimit/handler.go:78`), and with a limit or
a window of zero or less the rule refuses everything or nothing; `global` limits count per
domain; the fingerprint of the versions' turns has their weights only, so one version that
replaces another of the same weight takes over its turn; the end of a replaced session marks a
node disconnected that has just connected (`cmd/containermanager/main.go:173`), until its
next heartbeat.

## 7. What is not modelled

PROJECT.json gives the reason for every part. In short: the ACME exchange, Docker,
compose and TLS are others' work; generated code, the frontend and CRUD have no
behaviour of several steps, and `ent/`, generated, is most of the repository's lines; the
ports and the enrolment work under one lock or on one row. Of what is modelled: the
credential renewal and the streams of the agent, the limiter on Redis, the CIDR arithmetic
of the pools, versions and statuses of applications, when certificates end and
what the scan for it finds, wildcards, the domains' and versions' part of a rebuild, and the static resolver
are left out.

## 8. Plan

Done, in this order:

1. **TaskManager / TaskPromise / TaskRefinement**, with proofs.
2. **AgentSessions, TaskSystem** over 1.
3. **Release / ReleasePromise / ReleaseRefinement**, with proofs.
4. **Reconciler**, with proofs.
5. **Leadership** (`ha`), with proofs.
6. **NetPools** (`netpools`, `applications`), with proofs.
7. **Routing** (`observer`, `discovery`, `instance`, `node`, `health`, `cache`), with proofs.
8. **Certificates** (`certificate`), with proofs.
9. **Requests** (`resolver`, `loadbalancer`, `ratelimit`, `proxy`), with proofs.
10. **TaskSystem**: its proofs, and that it implements TaskManager.

Left, most valuable first: the node records
(`nodes`, `agentregistry`) between AgentSessions and Routing; the versions' part of the
route table, which would join Release to Requests; the operators of `ipam` against a
reference definition.

## 9. Running the checks

In this directory, with `tlc` and `tlapm`:

    tlc -workers 2 -config Reconciler.cfg Reconciler.tla
    tlapm ReconcilerProofs.tla

A run's module and configuration are in PROJECT.json; `MCTaskSystem`, `MCRelease`,
`MCNetPools`, `MCRouting` and `MCRequests` give the instances and the symmetry sets. The
configurations of [6](#6-where-the-code-and-its-words-disagree) end with a counterexample.
With two workers the longest runs are Release (3.5 million distinct states) and
Certificates (0.75 million, with liveness), more than two and a half minutes each,
Routing (1.1 million) and Reconciler (1.3 million), about two; then come TaskSystem (1.7 million), Requests (0.6
million) and NetPools (1.5 million), each under a minute and a half.
