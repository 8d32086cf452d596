------------------------------ MODULE Reconciler ------------------------------
(***************************************************************************)
(* The reconciliation of one deployment by the container manager (CM): the *)
(* desired state that the gateway pushes, the observer's snapshot of the   *)
(* containers on the nodes, the round of the reconciler that compares the  *)
(* two and creates or drains replicas, the operations of an administrator  *)
(* on the deployment and on single instances, and the node agents.         *)
(*                                                                         *)
(* The four run concurrently.  A round works on what it read at its start: *)
(* its calls to the agents, each up to a minute, come after, while the     *)
(* desired state, the pauses and the snapshot go on changing.              *)
(*                                                                         *)
(* A trouble is anything that goes wrong: a container that ends, a node    *)
(* that does not answer the observer or a call, an answer that is lost, no *)
(* node to place a replica on, a CM that restarts.                         *)
(***************************************************************************)
EXTENDS Naturals, FiniteSets

CONSTANTS
  Instances,    \* instance ids, given out in ascending order; free ones are reused
  Nodes,        \* nodes with an agent
  Versions,     \* versions of the deployment
  Replicas,     \* the numbers of replicas that are asked for
  Indexes,      \* replica indexes, enough of them
  MaxFailures,  \* maxFailures, 5
  MaxEvents,    \* bound: operations and troubles
  None          \* no desired state, no instance, every version

ASSUME InstanceAssumption == Instances \subseteq Nat /\ IsFiniteSet(Instances)
ASSUME BoundAssumption ==
  /\ Replicas \subseteq Nat /\ Indexes \subseteq Nat
  /\ Indexes # {} /\ Nodes # {} /\ Versions # {}
  /\ MaxFailures \in Nat \ {0} /\ MaxEvents \in Nat
ASSUME NoneAssumption == None \notin Versions \cup Instances \cup [version : Versions, replicas : Replicas]

VARIABLES
  newestFirst, \* where a new id, a random uuid, sorts: before the others, or after
  want,      \* desired.Store: the state of the deployment, None when stopped
  phase,     \* desired.Store: its phase
  paused,    \* desired.Store: instances that an administrator has stopped
  cont,      \* the container of each instance, at its node
  snap,      \* Observer.snapshot
  tick,      \* the observer's tick: the lists answered, not yet the snapshot
  pending,   \* Reconciler.pending, and whether past pendingTTL
  failures,  \* Reconciler.failures of the deployment, up to MaxFailures
  failed,    \* Reconciler.failedDeploys of the deployment
  round,     \* the round of the reconciler
  order,     \* the administrator's operation in progress
  events,    \* operations and troubles so far
  lost,      \* history: the CM may have lost sight of a container
  revived    \* history: a stopped container has been started again

vars == <<newestFirst, want, phase, paused, cont, snap, tick, pending, failures, failed,
          round, order, events, lost, revived>>
desiredVars  == <<newestFirst, want, phase, paused>>
observerVars == <<snap, tick>>
failureVars  == <<failures, failed>>
historyVars  == <<lost, revived>>

States  == [version : Versions, replicas : Replicas]
Phases  == {"unknown", "pending", "reconciling", "ready", "stopped", "failed"}
Views   == {"unseen", "created", "running", "exited"}
Unseen  == [i \in Instances |-> "unseen"]
\* asked: the create is on its way; failed: it came to nothing; gone: removed.
Container == [at : {"free", "asked", "created", "running", "exited", "failed", "gone"},
              version : Versions, node : Nodes, index : Indexes]
NoContainer == [at |-> "free", version |-> CHOOSE v \in Versions : TRUE,
                node |-> CHOOSE n \in Nodes : TRUE, index |-> CHOOSE k \in Indexes : TRUE]

Round == [pc : {"idle", "recycle", "surge", "creating", "stop", "remove", "settle"},
          want    : States \cup {None},        \* the desired state as read
          used    : SUBSET Indexes,            \* usedIndexes of the version
          dead    : SUBSET Instances,          \* dead replicas to recycle
          victims : SUBSET Instances,          \* surplus replicas to remove
          left    : Nat,                       \* replicas to create
          cur     : Instances \cup {None},     \* the replica being created or removed
          counted : Nat, healthy : Nat]        \* effective and running of the version
Idle == [pc |-> "idle", want |-> None, used |-> {}, dead |-> {},
         victims |-> {}, left |-> 0, cur |-> None, counted |-> 0, healthy |-> 0]

Order == [op : {"none", "pause", "restart", "resume", "list", "reclaim"},
          who : SUBSET Instances, version : Versions \cup {None}]
NoOrder == [op |-> "none", who |-> {}, version |-> None]

TypeOK ==
  /\ want \in States \cup {None} /\ phase \in Phases /\ paused \in SUBSET Instances
  /\ cont \in [Instances -> Container]
  /\ snap \in [Instances -> Views]
  /\ tick \in [busy : BOOLEAN, saw : [Instances -> Views]]
  /\ pending \in [Instances -> {"none", "young", "old"}]
  /\ failures \in 0..MaxFailures /\ failed \in BOOLEAN
  /\ round \in Round /\ order \in Order
  /\ events \in 0..MaxEvents
  /\ lost \in BOOLEAN /\ revived \in BOOLEAN /\ newestFirst \in BOOLEAN

Init ==
  /\ want \in States \cup {None} /\ phase = "unknown" /\ paused = {}
  /\ cont = [i \in Instances |-> NoContainer]
  /\ snap = Unseen /\ tick = [busy |-> FALSE, saw |-> Unseen]
  /\ pending = [i \in Instances |-> "none"] /\ failures = 0 /\ failed = FALSE
  /\ round = Idle /\ order = NoOrder /\ events = 0
  /\ lost = FALSE /\ revived = FALSE /\ newestFirst \in BOOLEAN

Exists(i) == cont[i].at \in {"created", "running", "exited"}
Live(i)   == cont[i].at \in {"asked", "created", "running"}
Holds(i)  == Exists(i) \/ Live(i)
\* Mutant: what is there runs.
ViewRunning(i) == IF Exists(i) THEN "running" ELSE "unseen"
View(i)   == IF Exists(i) THEN cont[i].at ELSE "unseen"

\* Nobody remembers the id: it stands for a new uuid.
Fresh(i) ==
  /\ ~Holds(i) /\ pending[i] = "none" /\ i \notin paused
  /\ snap[i] = "unseen" /\ tick.saw[i] = "unseen"
  /\ i \notin order.who \cup round.dead \cup round.victims \cup {round.cur}

Event  == events < MaxEvents /\ events' = events + 1
Smooth == UNCHANGED events
\* A call has its effect, or troubles keep it from the agent.
Becomes(i, state) ==
  \/ cont' = [cont EXCEPT ![i].at = IF Exists(i) THEN state ELSE @] /\ Smooth
  \/ UNCHANGED cont /\ Event

------------------------------------------------------------------------------
(* Node agents.                                                            *)

\* Ensure, which creates the container and starts it.
AgentCreate(i) ==
  /\ cont[i].at = "asked"
  /\ cont' = [cont EXCEPT ![i].at = "created"]
  /\ UNCHANGED <<desiredVars, observerVars, pending, failureVars, round, order, events, historyVars>>

AgentStart(i) ==
  /\ cont[i].at = "created"
  /\ cont' = [cont EXCEPT ![i].at = "running"]
  /\ UNCHANGED <<desiredVars, observerVars, pending, failureVars, round, order, events, historyVars>>

\* The image, the name or the start is refused: nothing is left behind.
AgentFails(i) ==
  /\ cont[i].at \in {"asked", "created"}
  /\ cont' = [cont EXCEPT ![i].at = "failed"]
  /\ Event
  /\ UNCHANGED <<desiredVars, observerVars, pending, failureVars, round, order, historyVars>>

\* Containers have no restart policy.
Crash(i) ==
  /\ cont[i].at = "running"
  /\ cont' = [cont EXCEPT ![i].at = "exited"]
  /\ Event
  /\ UNCHANGED <<desiredVars, observerVars, pending, failureVars, round, order, historyVars>>

------------------------------------------------------------------------------
(* The observer: tick lists the containers of every node that answers and  *)
(* then replaces the snapshot by what it got.                              *)

List(skipped) ==
  /\ ~tick.busy
  /\ tick' = [busy |-> TRUE, saw |-> [i \in Instances |-> IF cont[i].node \in skipped THEN "unseen" ELSE View(i)]]
  /\ IF skipped = {} THEN Smooth /\ UNCHANGED lost ELSE Event /\ lost' = TRUE
  /\ UNCHANGED <<desiredVars, cont, snap, pending, failureVars, round, order, revived>>

Install ==
  /\ tick.busy
  /\ snap' = tick.saw
  /\ tick' = [busy |-> FALSE, saw |-> Unseen]
  /\ cont' = [i \in Instances |-> IF Fresh(i) /\ snap'[i] = "unseen" THEN NoContainer ELSE cont[i]]
  /\ UNCHANGED <<desiredVars, pending, failureVars, round, order, events, historyVars>>

------------------------------------------------------------------------------
(* The round of the reconciler.                                            *)

\* What the round does next: recycle, then create or remove, then settle.
Onward(r) ==
  [r EXCEPT !.pc = IF r.dead # {} THEN "recycle"
                   ELSE IF r.left > 0 THEN "surge"
                   ELSE IF r.victims # {} THEN "stop" ELSE "settle"]

NoteFailures(n) ==
  /\ failures' = IF failures + n < MaxFailures THEN failures + n ELSE MaxFailures
  /\ failed' = (failed \/ (n > 0 /\ failures + n >= MaxFailures))

Pending == {i \in Instances : pending[i] # "none"}
\* Mutants: those not seen yet are dropped at once; they are never dropped.
WaitingSeen    == {i \in Pending : snap[i] = "created"}
WaitingForever == {i \in Pending : snap[i] \in {"created", "unseen"}}
\* Of the replicas pending, those that stay so.
Waiting == {i \in Pending : snap[i] = "created" \/ (snap[i] = "unseen" /\ pending[i] = "young")}
Dead    == {i \in Pending : snap[i] = "exited"}
Expired == {i \in Pending : snap[i] = "unseen" /\ pending[i] = "old"}
Of(goal) == {i \in Instances : goal # None /\ cont[i].version = goal.version}
\* The running replicas that are not paused: they count, and may be drained.
Ready == {i \in Of(want) \ paused : snap[i] = "running"}
\* Replicas that count: ready, on their way, or stopped by an administrator.
Effective == Cardinality(Ready) + Cardinality(Waiting \cap Of(want)) + Cardinality(paused \cap Of(want))
\* Mutant: a container that has ended gives its index back.
UsedUnended == {cont[i].index : i \in {j \in Of(want) : snap[j] \in {"created", "running"} \/ j \in Pending}}
Used == {cont[i].index : i \in {j \in Of(want) : snap[j] # "unseen" \/ j \in Pending}}
\* Plan: how many replicas to create, and to remove.
Missing(counted, target) == IF counted < target THEN target - counted ELSE 0
Surplus(counted, target) == IF target < counted THEN counted - target ELSE 0
\* The first n of a set of instances, as they are sorted by id.
Sorts(i, j) == IF newestFirst THEN i > j ELSE i < j
FirstOf(set, n) == {i \in set : Cardinality({j \in set : Sorts(j, i)}) < n}

\* All, Snapshot and PausedInstances are read one right after the other.
Begin ==
  /\ round.pc = "idle"
  /\ LET counted == Effective
         target  == IF want = None THEN counted ELSE want.replicas
     IN  /\ NoteFailures(Cardinality(Expired \cup Dead))
         /\ pending' = [i \in Instances |-> IF i \in Waiting THEN pending[i] ELSE "none"]
         /\ round' = Onward([Idle EXCEPT
              !.want    = want,
              !.used    = Used,
              !.dead    = Dead,
              !.left    = IF failed' THEN 0 ELSE Missing(counted, target),
              !.victims = FirstOf(Ready, Surplus(counted, target)),
              !.counted = counted,
              !.healthy = Cardinality(Ready)])
  /\ UNCHANGED <<desiredVars, cont, observerVars, order, events, historyVars>>

\* removeDead
Recycle(i) ==
  /\ round.pc = "recycle" /\ i \in round.dead
  /\ Becomes(i, "gone")
  /\ round' = Onward([round EXCEPT !.dead = @ \ {i}])
  /\ UNCHANGED <<desiredVars, observerVars, pending, failureVars, order, historyVars>>

\* No node is online, or none has the labels asked for.
NoNode ==
  /\ round.pc = "surge"
  /\ Event
  /\ round' = Onward([round EXCEPT !.left = 0])
  /\ UNCHANGED <<desiredVars, cont, observerVars, pending, failureVars, order, historyVars>>

\* createReplica, up to the call: the lowest index that is not in use.
Create(i, n) ==
  /\ round.pc = "surge" /\ Fresh(i) /\ \A j \in Instances : Fresh(j) => i <= j
  /\ \E k \in Indexes \ round.used :
       /\ \A j \in Indexes : j < k => j \in round.used
       /\ cont' = [cont EXCEPT ![i] = [at |-> "asked", version |-> round.want.version, node |-> n, index |-> k]]
       /\ round' = [round EXCEPT !.pc = "creating", !.cur = i, !.used = @ \cup {k}, !.left = @ - 1]
  /\ UNCHANGED <<desiredVars, observerVars, pending, failureVars, order, events, historyVars>>

\* Mutant: the new replica is not registered as pending.
CreateOkUntracked ==
  /\ round.pc = "creating"
  /\ cont[round.cur].at \in {"running", "exited", "gone"}
  /\ round' = Onward([round EXCEPT !.cur = None])
  /\ UNCHANGED <<desiredVars, cont, observerVars, pending, failureVars, order, events, historyVars>>

CreateOk ==
  /\ round.pc = "creating"
  /\ cont[round.cur].at \in {"running", "exited", "gone"}
  /\ pending' = [pending EXCEPT ![round.cur] = "young"]
  /\ round' = Onward([round EXCEPT !.cur = None])
  /\ UNCHANGED <<desiredVars, cont, observerVars, failureVars, order, events, historyVars>>

CreateErr ==
  /\ round.pc = "creating"
  /\ cont[round.cur].at \in {"failed", "gone"}
  /\ NoteFailures(1)
  /\ round' = Onward([round EXCEPT !.cur = None])
  /\ UNCHANGED <<desiredVars, cont, observerVars, pending, order, events, historyVars>>

\* No answer in time: the agent may or may not create the container.
CreateTimeout ==
  /\ round.pc = "creating"
  /\ Event
  /\ NoteFailures(1)
  /\ lost' = TRUE
  /\ round' = Onward([round EXCEPT !.cur = None])
  /\ UNCHANGED <<desiredVars, cont, observerVars, pending, order, revived>>

\* removeReplica: stop and then remove, whatever becomes of the stop.
DrainStop(i) ==
  /\ round.pc = "stop" /\ i \in round.victims /\ \A j \in round.victims : ~Sorts(j, i)
  /\ Becomes(i, "exited")
  /\ round' = [round EXCEPT !.pc = "remove", !.cur = i, !.victims = @ \ {i}]
  /\ UNCHANGED <<desiredVars, observerVars, pending, failureVars, order, historyVars>>

\* A node that is not registered is left alone, as if both calls had failed; a
\* victim is ready, and so not pending.
DrainRemove ==
  /\ round.pc = "remove"
  /\ Becomes(round.cur, "gone")
  /\ pending' = [pending EXCEPT ![round.cur] = "none"]
  /\ round' = Onward([round EXCEPT !.cur = None])
  /\ UNCHANGED <<desiredVars, observerVars, failureVars, order, historyVars>>

\* settlePhases: of a deployment that had a desired state when the round began.
Settle ==
  /\ round.pc = "settle"
  /\ IF round.want # None /\ round.healthy >= round.want.replicas
     THEN failures' = 0 /\ failed' = FALSE
     ELSE UNCHANGED failureVars
  /\ phase' = IF round.want = None THEN phase
              ELSE IF failed' THEN "failed"
              ELSE IF round.counted = round.want.replicas THEN "ready" ELSE "reconciling"
  /\ round' = Idle
  /\ UNCHANGED <<newestFirst, want, paused, cont, observerVars, pending, order, events, historyVars>>

\* A pending replica is not seen for pendingTTL; while it exists, that is a trouble.
Age(i) ==
  /\ pending[i] = "young"
  /\ pending' = [pending EXCEPT ![i] = "old"]
  /\ IF Holds(i) THEN Event /\ lost' = TRUE ELSE Smooth /\ UNCHANGED lost
  /\ UNCHANGED <<desiredVars, cont, observerVars, failureVars, round, order, revived>>

------------------------------------------------------------------------------
(* The gateway and the administrator.                                      *)

Operation == order = NoOrder /\ Event

Put(state) ==
  /\ Operation
  /\ want' = state /\ phase' = "pending"
  /\ UNCHANGED <<newestFirst, paused, cont, observerVars, pending, failureVars, round, order, historyVars>>

\* stop withdraws the desired state and then reclaims what the observer knows;
\* forget only does the first, the removal of a version only the second.
Stop(reclaims) ==
  /\ Operation
  /\ want' = None /\ phase' = "stopped"
  /\ order' = IF reclaims THEN [NoOrder EXCEPT !.op = "list"] ELSE NoOrder
  /\ UNCHANGED <<newestFirst, paused, cont, observerVars, pending, failureVars, round, historyVars>>

RemoveVersion(v) ==
  /\ Operation
  /\ order' = [NoOrder EXCEPT !.op = "list", !.version = v]
  /\ UNCHANGED <<desiredVars, cont, observerVars, pending, failureVars, round, historyVars>>

ReclaimList ==
  /\ order.op = "list"
  /\ LET known == {i \in Instances : snap[i] # "unseen" /\ order.version \in {None, cont[i].version}}
     IN  order' = IF known = {} THEN NoOrder ELSE [NoOrder EXCEPT !.op = "reclaim", !.who = known]
  /\ UNCHANGED <<desiredVars, cont, observerVars, pending, failureVars, round, events, historyVars>>

Reclaim(i) ==
  /\ order.op = "reclaim" /\ i \in order.who
  /\ Becomes(i, "gone")
  /\ order' = IF order.who = {i} THEN NoOrder ELSE [order EXCEPT !.who = @ \ {i}]
  /\ UNCHANGED <<desiredVars, observerVars, pending, failureVars, round, historyVars>>

\* The calls of the controller on an instance of the snapshot: the agent acts, and
\* the pause is marked, or taken back, when its answer has come.
Control(i, op) ==
  /\ Operation /\ snap[i] # "unseen" /\ Exists(i)
  /\ \/ /\ op = "stop"
        /\ cont' = [cont EXCEPT ![i].at = IF @ = "running" THEN "exited" ELSE @]
        /\ order' = [NoOrder EXCEPT !.op = "pause", !.who = {i}]
        /\ UNCHANGED revived
     \/ /\ op = "start"
        /\ cont' = [cont EXCEPT ![i].at = "running"]
        /\ order' = [NoOrder EXCEPT !.op = "resume", !.who = {i}]
        /\ revived' = TRUE
     \/ /\ op = "restart"
        /\ cont' = [cont EXCEPT ![i].at = "exited"]
        /\ order' = [NoOrder EXCEPT !.op = "restart", !.who = {i}]
        /\ UNCHANGED revived
     \/ /\ op = "remove"
        /\ cont' = [cont EXCEPT ![i].at = "gone"]
        /\ order' = [NoOrder EXCEPT !.op = "resume", !.who = {i}]
        /\ UNCHANGED revived
  /\ UNCHANGED <<desiredVars, observerVars, pending, failureVars, round, lost>>

\* The second half of a restart.
RestartStart ==
  /\ order.op = "restart"
  /\ cont' = [i \in Instances |-> IF i \in order.who /\ Exists(i) THEN [cont[i] EXCEPT !.at = "running"] ELSE cont[i]]
  /\ order' = [order EXCEPT !.op = "resume"]
  /\ revived' = TRUE
  /\ UNCHANGED <<desiredVars, observerVars, pending, failureVars, round, events, lost>>

\* The answer of the agent; when it is lost, nothing is marked.
Mark ==
  /\ order.op \in {"pause", "resume"}
  /\ \/ /\ paused' = IF order.op = "pause" THEN paused \cup order.who ELSE paused \ order.who
        /\ Smooth
     \/ UNCHANGED paused /\ Event
  /\ order' = NoOrder
  /\ UNCHANGED <<newestFirst, want, phase, cont, observerVars, pending, failureVars, round, historyVars>>

\* The CM restarts: only the desired state and the phase are in the database.
Restart ==
  /\ Event
  /\ paused' = {} /\ snap' = Unseen /\ tick' = [busy |-> FALSE, saw |-> Unseen]
  /\ pending' = [i \in Instances |-> "none"] /\ failures' = 0 /\ failed' = FALSE
  /\ round' = Idle /\ order' = NoOrder
  /\ lost' = TRUE
  /\ UNCHANGED <<newestFirst, want, phase, cont, revived>>

------------------------------------------------------------------------------
AgentStep(i) == AgentCreate(i) \/ AgentStart(i)

RoundStep ==
  \/ Begin \/ NoNode \/ CreateOk \/ CreateErr \/ CreateTimeout
  \/ DrainRemove \/ Settle
  \/ \E i \in Instances : Recycle(i) \/ DrainStop(i) \/ \E n \in Nodes : Create(i, n)

Answer == ReclaimList \/ RestartStart \/ Mark \/ \E i \in Instances : Reclaim(i)

Next ==
  \/ RoundStep \/ Answer \/ Install \/ Restart
  \/ \E skipped \in SUBSET Nodes : List(skipped)
  \/ \E i \in Instances : AgentStep(i) \/ AgentFails(i) \/ Crash(i) \/ Age(i)
  \/ \E state \in States : Put(state)
  \/ \E reclaims \in BOOLEAN : Stop(reclaims)
  \/ \E v \in Versions : RemoveVersion(v)
  \/ \E i \in Instances, op \in {"stop", "start", "restart", "remove"} : Control(i, op)

\* The tickers of the reconciler and the observer never stop, calls end by their
\* timeout, agents do what they were asked, and time passes.
Fairness ==
  /\ WF_vars(RoundStep) /\ WF_vars(Answer) /\ WF_vars(List({})) /\ WF_vars(Install)
  /\ \A i \in Instances : WF_vars(AgentStep(i)) /\ WF_vars(Age(i))

Spec == Init /\ [][Next]_vars
FairSpec == Spec /\ Fairness

------------------------------------------------------------------------------
(* Properties.                                                             *)

\* Unless the CM has lost sight of a container or one was started by hand, every
\* replica that runs or may come to run counts: it is being created, pending, or
\* running in the snapshot.  A replica that does not count is created once more.
EveryReplicaCounts ==
  ~lost /\ ~revived =>
    \A i \in Instances : Live(i) => (round.pc = "creating" /\ round.cur = i) \/ pending[i] # "none" \/ snap[i] = "running"

\* Two containers of a version never have the same index, and so the same name,
\* unless the CM has lost sight of one.
IndexesDiffer ==
  ~lost => \A i, j \in Instances :
    Holds(i) /\ Holds(j) /\ i # j /\ cont[i].version = cont[j].version
      => cont[i].index # cont[j].index

\* A replica is only created where the version has fewer than the replicas asked
\* for, those stopped by the administrator included, however old what the round has
\* read, unless a container was lost sight of or started by hand.
NoSurplus ==
  [][\A i \in Instances :
       cont[i].at # "asked" /\ cont'[i].at = "asked" /\ ~lost /\ ~revived =>
         Cardinality({j \in Of(round.want) : Live(j)}) < round.want.replicas]_vars

\* When operations and troubles are over, the version asked for comes to have as many
\* running replicas as are asked for, less the paused ones, and is shown as ready, and
\* so it stays, unless its creation was given up, which is shown as failed.
Converges ==
  LET held == Cardinality(paused \cap Of(want))
      runs == Cardinality({i \in Of(want) \ paused : cont[i].at = "running"})
  IN  <>[](\/ want = None
           \/ failed /\ phase = "failed"
           \/ runs + held = want.replicas /\ phase = "ready"
           \/ runs = 0 /\ held > want.replicas)

\* deployments.go: once the desired state is withdrawn the reconciler creates no
\* more replicas for the deployment.  It does not hold of a round that has begun.
NoneCreatedAfterStop ==
  [][\A i \in Instances : cont[i].at # "asked" /\ cont'[i].at = "asked" => want # None]_vars

\* rollout.go: when the containers of the new version are ready the old version is
\* removed.  It does not hold: the old version has no desired state any more.
OldVersionLeaves ==
  <>[](want = None \/ failed \/ \A i \in Instances : cont[i].at = "running" => cont[i].version = want.version)
------------------------------------------------------------------------------
(* What the safety properties rest on.                                     *)

\* What the round needs for its next step.
RoundIsReady ==
  /\ round.left > 0 => round.want # None
  /\ round.pc = "surge" => round.left > 0
  /\ round.pc \in {"creating", "remove"} => round.cur \in Instances

\* The round is about to remove the replica.
Leaving(i) == i \in round.victims \/ (round.pc = "remove" /\ round.cur = i)

\* What was seen of a container is what it is or was; none is seen before it is there.
SeenWas(saw) ==
  \A i \in Instances :
    /\ saw[i] # "unseen" => cont[i].at \in {"created", "running", "exited", "failed", "gone"}
    /\ saw[i] = "running" => cont[i].at \in {"running", "exited", "gone"}
    /\ saw[i] = "exited" /\ ~revived => ~Live(i)

\* A replica that is there or on its way stays known: pending, or in the snapshot and
\* in what will replace it.  One given up for its age never came to be.
Known ==
  ~lost => \A i \in Instances : Holds(i) =>
    /\ pending[i] # "old"
    /\ pending[i] # "none" \/ snap[i] # "unseen" \/ (round.pc = "creating" /\ round.cur = i)
    /\ snap[i] # "unseen" /\ tick.busy => tick.saw[i] # "unseen"
    /\ Leaving(i) => snap[i] # "unseen"

\* So does, unless one was started by hand, its place among those that run.
Counted ==
  ~lost /\ ~revived => \A i \in Instances : Live(i) =>
    /\ snap[i] = "running" /\ tick.busy => tick.saw[i] = "running"
    /\ Leaving(i) => snap[i] = "running"

\* The replicas still to create have free indexes and a place.
LeftFits ==
  round.left > 0 =>
    /\ ~lost => \A i \in Of(round.want) : Holds(i) => cont[i].index \in round.used
    /\ ~lost /\ ~revived =>
         Cardinality({i \in Of(round.want) : Live(i)}) + round.left <= round.want.replicas

IInv ==
  /\ TypeOK /\ RoundIsReady /\ SeenWas(snap) /\ SeenWas(tick.saw)
  /\ Known /\ Counted /\ EveryReplicaCounts /\ IndexesDiffer /\ LeftFits
==============================================================================
