------------------------------- MODULE NetPools -------------------------------
(***************************************************************************)
(* The networks of the compose applications, package netpools and its      *)
(* caller, applications.Controller: every project gets a subnet from a     *)
(* pool of its node, a Docker network on it, and gives both back when the  *)
(* application is removed.                                                  *)
(*                                                                         *)
(* Pools and networks live twice, as rows and as tables in memory; a       *)
(* status is set in memory under a lock and saved after it, so saves of    *)
(* two requests cross.  Only Allocate works on the rows first, in one      *)
(* transaction.  Requests run concurrently: each is a worker that takes    *)
(* its steps one lock section, transaction or call of the agent at a time. *)
(* The order of the pools by priority, which may be changed at any time,   *)
(* is any order; the nodes' choice (the application's, or any online one)  *)
(* is any node.  Statuses nothing sets (creating, deleting, conflict and   *)
(* drift of a network) are left out; draining counts as disabled.          *)
(***************************************************************************)
EXTENDS Integers, FiniteSets

CONSTANTS
  Workers,      \* requests served at a time
  Nodes, Projects, Pools,
  NodeOf,       \* the node of a pool
  Base, Size,   \* a pool's first subnet, as a number, and how many it has
  MaxRequests,  \* bound: requests
  MaxEvents,      \* bound: restarts, failures, answers that do not come in time
  None          \* no record

ASSUME PoolAssumption ==
  /\ NodeOf \in [Pools -> Nodes]
  /\ Base \in [Pools -> Nat] /\ Size \in [Pools -> Nat \ {0}]
ASSUME BoundAssumption == MaxRequests \in Nat /\ MaxEvents \in Nat

VARIABLES
  pools,    \* PoolStore.pools: the pools in memory
  poolRows, \* cm_node_network_pools
  nets,     \* NetworkStore.nets: the networks in memory, by project
  netRows,  \* cm_project_networks
  cooling,  \* projects whose released network has its reuse_after ahead
  apps,     \* applications.Store: the registered applications
  docker,   \* the Docker networks on the nodes
  up,       \* the nodes and projects whose containers run
  late,     \* orders given up by their callers that the agent may still execute
  pc, job,  \* a worker's next step, and what its request has in hand
  requests, \* requests so far
  events    \* troubles so far

vars == <<pools, poolRows, nets, netRows, cooling, apps, docker, up, late, pc, job,
          requests, events>>
stores == <<pools, poolRows, nets, netRows, cooling>>
hosts  == <<docker, up, late>>

Subnets  == UNION {Base[k]..(Base[k] + Size[k] - 1) : k \in Pools}
PoolStatus == {"active", "disabled", "exhausted", "conflict"}
PoolRec  == [status : PoolStatus, next : Nat, reuse : BOOLEAN]
NetRec   == [proj : Projects, node : Nodes, pool : Pools, sub : Subnets,
             status : {"reserved", "active", "failed", "released"}]
Order    == [do : {"create", "delete", "up", "down"}, proj : Projects, node : Nodes,
             sub : Subnets \cup {None}]
Standing == [proj : Projects, node : Nodes, sub : Subnets]
\* Where a worker may be: serving an application, with a network in hand or not,
\* or a pool.  The save-steps write the row of what the step before set.
Networked == {"adopt", "saveActive", "create", "created", "notCreated", "saveCreated",
              "saveReserved", "up", "delete", "deleted", "notDeleted", "saveReleased",
              "saveFailed", "reopen", "saveReopened"}
Serving == Networked \cup {"try", "saveFull", "down", "release", "drop"}
Saving  == {"saveFull", "adopt", "saveActive", "saveReopened", "insertPool", "addPool",
            "savePool", "check"}
Pooled  == Saving \cup {"default", "deletePool", "forgetPool"}
PC == {"idle"} \cup Serving \cup Pooled
Job == [proj : Projects \cup {None}, node : Nodes \cup {None}, pool : Pools \cup {None},
        todo : SUBSET Pools, view : [Pools -> PoolRec \cup {None}],
        net : NetRec \cup {None}, save : PoolRec \cup {None}]
NoJob == [proj |-> None, node |-> None, pool |-> None, todo |-> {},
          view |-> [k \in Pools |-> None], net |-> None, save |-> None]

ASSUME NoneAssumption ==
  /\ None \notin Projects /\ None \notin Nodes /\ None \notin Pools
  /\ None \notin PoolRec /\ None \notin NetRec /\ None \notin Subnets

TypeOK ==
  /\ pools \in [Pools -> PoolRec \cup {None}] /\ poolRows \in [Pools -> PoolRec \cup {None}]
  /\ nets \in [Projects -> NetRec \cup {None}] /\ netRows \subseteq NetRec
  /\ cooling \subseteq Projects /\ apps \subseteq Projects
  /\ docker \subseteq Standing /\ up \subseteq Nodes \X Projects /\ late \subseteq Order
  /\ pc \in [Workers -> PC] /\ job \in [Workers -> Job]
  /\ requests \in 0..MaxRequests /\ events \in 0..MaxEvents

NewPool == [status |-> "active", next |-> 0, reuse |-> TRUE]

Overlap(k, l) ==
  /\ NodeOf[k] = NodeOf[l]
  /\ Base[k] < Base[l] + Size[l] /\ Base[l] < Base[k] + Size[k]

\* Some pools have been created before.
Init ==
  /\ \E made \in SUBSET Pools :
       /\ \A k, l \in made : Overlap(k, l) => k = l
       /\ pools = [k \in Pools |-> IF k \in made THEN NewPool ELSE None]
  /\ poolRows = pools
  /\ nets = [p \in Projects |-> None] /\ netRows = {} /\ cooling = {}
  /\ apps = Projects
  /\ docker = {} /\ up = {} /\ late = {}
  /\ pc = [w \in Workers |-> "idle"] /\ job = [w \in Workers |-> NoJob]
  /\ requests = 0 /\ events = 0

Event == events < MaxEvents /\ events' = events + 1
Goto(w, to) == pc' = [pc EXCEPT ![w] = to]
With(w, j)  == job' = [job EXCEPT ![w] = j]
Finish(w)   == Goto(w, "idle") /\ With(w, NoJob)

------------------------------------------------------------------------------
(* The agents: an order is executed, or refused without effect.            *)

\* Docker knows a network by its name, which is the project's.
Stands(p, n) == \E d \in docker : d.proj = p /\ d.node = n

\* Mutant of Accepts: a network is deleted under the containers on it.
AcceptsInUse(o) ==
  CASE o.do = "create" -> \A d \in docker : d.node = o.node /\ (d.proj = o.proj \/ d.sub = o.sub)
                                              => d.proj = o.proj /\ d.sub = o.sub
    [] o.do \in {"delete", "up"} -> Stands(o.proj, o.node)
    [] OTHER -> TRUE

\* A create is idempotent for the same subnet; Docker refuses one that is taken.
Accepts(o) ==
  CASE o.do = "create" -> \A d \in docker : d.node = o.node /\ (d.proj = o.proj \/ d.sub = o.sub)
                                              => d.proj = o.proj /\ d.sub = o.sub
    [] o.do = "delete" -> Stands(o.proj, o.node) /\ <<o.node, o.proj>> \notin up
    [] o.do = "up"     -> Stands(o.proj, o.node)
    [] OTHER -> TRUE

Execute(o) ==
  /\ docker' = CASE o.do = "create" -> docker \cup {[proj |-> o.proj, node |-> o.node, sub |-> o.sub]}
                 [] o.do = "delete" -> {d \in docker : ~(d.proj = o.proj /\ d.node = o.node)}
                 [] OTHER -> docker
  /\ up' = CASE o.do = "up"   -> up \cup {<<o.node, o.proj>>}
             [] o.do = "down" -> up \ {<<o.node, o.proj>>}
             [] OTHER -> up

\* The order of a worker whose next step is a call.
OrderOf(w) ==
  [do |-> pc[w], proj |-> job[w].proj, node |-> job[w].node,
   sub |-> IF pc[w] = "create" THEN job[w].net.sub ELSE None]

\* The call is answered; or the node is offline; or the caller gives up, and
\* the agent may still execute the order.
Answered(w, ok) ==
  LET o == OrderOf(w) IN
  IF ok THEN Accepts(o) /\ Execute(o) /\ UNCHANGED <<late, events>>
        ELSE /\ UNCHANGED <<docker, up>>
             /\ \/ ~Accepts(o) /\ UNCHANGED <<late, events>>
                \/ late' \in {late, late \cup {o}} /\ Event

AgentLate(o) ==
  /\ o \in late /\ late' = late \ {o}
  /\ IF Accepts(o) THEN Execute(o) ELSE UNCHANGED <<docker, up>>
  /\ UNCHANGED <<stores, apps, pc, job, events>>

------------------------------------------------------------------------------
(* Saving what a step before has set in memory.                            *)

\* An upsert: it also brings back the row of a pool deleted meanwhile.
SavePool(w, ok) ==
  /\ IF ok THEN poolRows' = [poolRows EXCEPT ![job[w].pool] = job[w].save] /\ UNCHANGED events
           ELSE UNCHANGED poolRows /\ Event
  /\ UNCHANGED <<pools, nets, netRows, cooling>>

\* The request is done with the pool.
Saved(w) == [job[w] EXCEPT !.pool = None, !.save = None]

SameNet(r, n) == r.proj = n.proj /\ r.node = n.node /\ r.sub = n.sub

SaveNet(w, ok) ==
  /\ IF ok THEN netRows' = {r \in netRows : ~SameNet(r, job[w].net)} \cup {job[w].net} /\ UNCHANGED events
           ELSE UNCHANGED netRows /\ Event
  /\ UNCHANGED <<pools, poolRows, nets, cooling>>

\* PoolStore.SetStatus, in memory; what is to be saved stays in hand.
SetPool(w, j, k, status, to) ==
  LET rec == [pools[k] EXCEPT !.status = status] IN
  /\ pools' = [pools EXCEPT ![k] = rec]
  /\ With(w, [j EXCEPT !.pool = k, !.save = rec])
  /\ Goto(w, to)

\* NetworkStore.SetStatus, in memory.
SetNet(w, status, to) ==
  LET p == job[w].proj
      n == [nets[p] EXCEPT !.status = status]
  IN /\ nets[p] # None
     /\ nets' = [nets EXCEPT ![p] = n]
     /\ With(w, [job[w] EXCEPT !.net = n])
     /\ Goto(w, to)
     /\ UNCHANGED <<pools, poolRows, netRows>>

------------------------------------------------------------------------------
(* Deploy: Ensure, then compose up.                                        *)

\* The application is put back as the request has it, removed or not.
DeployFails(w) == Finish(w) /\ apps' = apps \cup {job[w].proj}

\* Allocate is idempotent for a network that is not released; otherwise the
\* request takes a copy of the pools of the node, those open to allocation.
Deploy(w, p, n) ==
  LET open == {k \in Pools : /\ NodeOf[k] = n /\ pools[k] # None
                             /\ pools[k].status \in {"active", "exhausted"}}
      j == [NoJob EXCEPT !.proj = p, !.node = n]
  IN
  /\ pc[w] = "idle" /\ p \in apps
  /\ IF nets[p] # None /\ nets[p].status # "released"
     THEN With(w, [j EXCEPT !.net = nets[p]]) /\ Goto(w, "create")
     ELSE With(w, [j EXCEPT !.todo = open, !.view = pools]) /\ Goto(w, "try")
  /\ UNCHANGED <<stores, apps, hosts, events>>

\* The places of a pool that are free by its rows: unused, or released, cooled
\* down and open to reuse.
FreeAt(k, reuse) ==
  {i \in 0..(Size[k] - 1) :
     \A r \in netRows : r.pool = k /\ r.sub = Base[k] + i
                          => r.status = "released" /\ reuse /\ r.proj \notin cooling}

\* Mutant of Refused: no unique index on the subnets of a node.
RefusedBySubnetOnly(n) == \E r \in netRows : r.node = n.node /\ r.sub = n.sub
\* Mutant of Refused: no unique index on projects.
RefusedByProjectOnly(n) == \E r \in netRows : r.proj = n.proj

\* The unique indexes refuse a second row of a project, or of a subnet of a node.
Refused(n) == \E r \in netRows : r.proj = n.proj \/ (r.node = n.node /\ r.sub = n.sub)

\* allocateInPool: one transaction under the lock of the pool's row.  The first
\* free place from next_index on is taken.
TryPool(w, k) ==
  LET j    == job[w]
      free == FreeAt(k, j.view[k].reuse)
      Ahead(i) == (i - poolRows[k].next) % Size[k]
      row(i)   == [proj |-> j.proj, node |-> j.node, pool |-> k, sub |-> Base[k] + i, status |-> "reserved"]
      next(i)  == (i + 1) % Size[k]
  IN
  /\ pc[w] = "try" /\ k \in j.todo
  /\ \/ /\ poolRows[k] # None /\ free = {}
        /\ IF j.view[k].status = "exhausted" \/ pools[k] = None
           THEN /\ With(w, [j EXCEPT !.todo = @ \ {k}]) /\ UNCHANGED <<pc, pools>>
           ELSE SetPool(w, [j EXCEPT !.todo = @ \ {k}], k, "exhausted", "saveFull")
        /\ UNCHANGED <<poolRows, netRows, apps, events>>
     \/ /\ poolRows[k] # None
        /\ \E i \in free :
             /\ \A h \in free : Ahead(i) <= Ahead(h)
             /\ IF Refused(row(i)) THEN DeployFails(w) /\ UNCHANGED <<netRows, poolRows>>
                ELSE /\ netRows'  = netRows \cup {row(i)}
                     /\ poolRows' = [poolRows EXCEPT ![k].next = next(i)]
                     /\ With(w, [j EXCEPT !.pool = k, !.net = row(i),
                                          !.save = [j.view[k] EXCEPT !.next = next(i)]])
                     /\ Goto(w, "adopt") /\ UNCHANGED apps
        /\ UNCHANGED <<pools, events>>
     \/ /\ poolRows[k] = None \* deleted meanwhile
        /\ DeployFails(w) /\ UNCHANGED <<pools, poolRows, netRows, events>>
     \/ /\ DeployFails(w) /\ Event \* the transaction fails
        /\ UNCHANGED <<pools, poolRows, netRows>>
  /\ UNCHANGED <<nets, cooling, hosts>>

SaveFull(w) ==
  /\ pc[w] = "saveFull" /\ (\E ok \in BOOLEAN : SavePool(w, ok)) /\ Goto(w, "try")
  /\ With(w, Saved(w)) /\ UNCHANGED <<apps, hosts>>

NoPoolLeft(w) ==
  /\ pc[w] = "try" /\ job[w].todo = {} /\ DeployFails(w)
  /\ UNCHANGED <<stores, hosts, events>>

\* After the commit memory takes the network, and the pool as it was in the
\* copy; success in an exhausted pool opens it.
Adopt(w) ==
  LET j == job[w]
      rec  == [j.save EXCEPT !.status = "active"]
      done == [NoJob EXCEPT !.proj = j.proj, !.node = j.node, !.net = j.net]
  IN
  /\ pc[w] = "adopt"
  /\ nets' = [nets EXCEPT ![j.proj] = j.net]
  /\ IF j.save.status = "exhausted"
     THEN /\ pools' = [pools EXCEPT ![j.pool] = rec]
          /\ With(w, [done EXCEPT !.pool = j.pool, !.save = rec]) /\ Goto(w, "saveActive")
     ELSE /\ pools' = [pools EXCEPT ![j.pool] = j.save]
          /\ With(w, done) /\ Goto(w, "create")
  /\ UNCHANGED <<poolRows, netRows, cooling, apps, hosts, events>>

SaveActive(w) ==
  /\ pc[w] = "saveActive" /\ (\E ok \in BOOLEAN : SavePool(w, ok)) /\ Goto(w, "create")
  /\ With(w, Saved(w)) /\ UNCHANGED <<apps, hosts>>

CreateNet(w) ==
  /\ pc[w] = "create"
  /\ \E ok \in BOOLEAN : Answered(w, ok) /\ Goto(w, IF ok THEN "created" ELSE "notCreated")
  /\ UNCHANGED <<stores, apps, job>>

\* A network that is not made keeps its subnet, reserved, for the next try.
Created(w) ==
  /\ \/ pc[w] = "created"    /\ SetNet(w, "active", "saveCreated")
     \/ pc[w] = "notCreated" /\ SetNet(w, "reserved", "saveReserved")
  /\ UNCHANGED <<cooling, apps, hosts, events>>

SaveCreated(w) ==
  /\ pc[w] \in {"saveCreated", "saveReserved"}
  /\ \E ok \in BOOLEAN :
       /\ SaveNet(w, ok)
       /\ IF pc[w] = "saveCreated" /\ ok THEN Goto(w, "up") /\ UNCHANGED <<job, apps>> ELSE DeployFails(w)
  /\ UNCHANGED hosts

\* compose up; the application is put back, running or failed.
Up(w) ==
  /\ pc[w] = "up"
  /\ \E ok \in BOOLEAN : Answered(w, ok)
  /\ Finish(w) /\ apps' = apps \cup {job[w].proj}
  /\ UNCHANGED stores

------------------------------------------------------------------------------
(* Remove: compose down, then Release, then the record.                    *)

Remove(w, p, n) ==
  /\ pc[w] = "idle" /\ p \in apps
  /\ With(w, [NoJob EXCEPT !.proj = p, !.node = n]) /\ Goto(w, "down")
  /\ UNCHANGED <<stores, apps, hosts, events>>

Down(w) ==
  /\ pc[w] = "down"
  /\ \E ok \in BOOLEAN : Answered(w, ok) /\ IF ok THEN Goto(w, "release") /\ UNCHANGED job ELSE Finish(w)
  /\ UNCHANGED <<stores, apps>>

Release(w) ==
  /\ pc[w] = "release"
  /\ LET n == nets[job[w].proj] IN
     IF n = None THEN Goto(w, "drop") /\ UNCHANGED job
     ELSE With(w, [job[w] EXCEPT !.node = n.node, !.net = n]) /\ Goto(w, "delete")
  /\ UNCHANGED <<stores, apps, hosts, events>>

\* An offline node changes nothing; a delete the agent refuses, that of a
\* network that is gone already included, makes the network failed.
DeleteNet(w) ==
  /\ pc[w] = "delete"
  /\ \/ Answered(w, TRUE)  /\ Goto(w, "deleted")
     \/ Answered(w, FALSE) /\ Goto(w, "notDeleted")
     \/ UNCHANGED hosts /\ Event /\ Goto(w, "drop")
  /\ UNCHANGED <<stores, apps, job>>

Deleted(w) ==
  /\ \/ /\ pc[w] = "deleted" /\ SetNet(w, "released", "saveReleased")
        /\ cooling' = cooling \cup {job[w].proj}
     \/ pc[w] = "notDeleted" /\ SetNet(w, "failed", "saveFailed") /\ UNCHANGED cooling
  /\ UNCHANGED <<apps, hosts, events>>

SaveReleased(w) ==
  /\ pc[w] = "saveReleased"
  /\ \E ok \in BOOLEAN : SaveNet(w, ok) /\ Goto(w, IF ok THEN "reopen" ELSE "drop")
  /\ UNCHANGED <<apps, hosts, job>>

SaveFailed(w) ==
  /\ pc[w] = "saveFailed"
  /\ \E ok \in BOOLEAN : SaveNet(w, ok)
  /\ Goto(w, "drop")
  /\ UNCHANGED <<apps, hosts, job>>

\* The pool has a place again.
Reopen(w) ==
  LET k == job[w].net.pool IN
  /\ pc[w] = "reopen"
  /\ IF pools[k] # None /\ pools[k].status = "exhausted"
     THEN SetPool(w, job[w], k, "active", "saveReopened")
     ELSE Goto(w, "drop") /\ UNCHANGED <<pools, job>>
  /\ UNCHANGED <<poolRows, nets, netRows, cooling, apps, hosts, events>>

SaveReopened(w) ==
  /\ pc[w] = "saveReopened" /\ (\E ok \in BOOLEAN : SavePool(w, ok)) /\ Goto(w, "drop")
  /\ With(w, Saved(w)) /\ UNCHANGED <<apps, hosts>>

\* Whatever became of the network, the application's record goes.
Drop(w) ==
  /\ pc[w] = "drop" /\ Finish(w) /\ apps' = apps \ {job[w].proj}
  /\ UNCHANGED <<stores, hosts, events>>

------------------------------------------------------------------------------
(* The administrator, and the end of a node's first session.               *)

InHand(k) == \E w \in Workers : job[w].pool = k \/ job[w].view[k] # None

\* The overlap is checked against memory, and the pool comes there last.
CreatePool(w, k) ==
  /\ pc[w] = "idle"
  /\ pools[k] = None /\ poolRows[k] = None /\ ~InHand(k) \* a new identifier
  /\ \A l \in Pools : pools[l] # None => ~Overlap(k, l)
  /\ With(w, [NoJob EXCEPT !.pool = k, !.save = NewPool])
  /\ Goto(w, "insertPool")
  /\ UNCHANGED <<stores, apps, hosts, events>>

InsertPool(w) ==
  /\ pc[w] = "insertPool"
  /\ \E ok \in BOOLEAN :
       SavePool(w, ok) /\ IF ok THEN Goto(w, "addPool") /\ UNCHANGED job ELSE Finish(w)
  /\ UNCHANGED <<apps, hosts>>

\* A pool the administrator creates is checked; the default pool that a node's
\* first session creates is set to the defaults of the system.
AddPool(w) ==
  /\ pc[w] = "addPool" /\ (Goto(w, "check") \/ Goto(w, "default"))
  /\ pools' = [pools EXCEPT ![job[w].pool] = job[w].save]
  /\ UNCHANGED <<poolRows, nets, netRows, cooling, apps, hosts, events, job>>

\* PoolStore.Update, in memory.
Update(w, k, status, reuse) ==
  LET rec == [pools[k] EXCEPT !.status = status, !.reuse = reuse] IN
  /\ pools[k] # None
  /\ pools' = [pools EXCEPT ![k] = rec]
  /\ With(w, [NoJob EXCEPT !.pool = k, !.save = rec])
  /\ Goto(w, "savePool")

DefaultPool(w) ==
  LET k == job[w].pool IN
  /\ pc[w] = "default"
  /\ \/ \E reuse \in BOOLEAN : Update(w, k, "active", reuse)
     \/ pools[k] = None /\ Finish(w) /\ UNCHANGED pools
  /\ UNCHANGED <<poolRows, nets, netRows, cooling, apps, hosts, events>>

\* A status the request does not name is written back.
UpdatePool(w, k, status, reuse) ==
  /\ pc[w] = "idle" /\ Update(w, k, status, reuse)
  /\ status \in {"active", "disabled", pools[k].status}
  /\ UNCHANGED <<poolRows, nets, netRows, cooling, apps, hosts, events>>

SaveUpdate(w) ==
  /\ pc[w] = "savePool" /\ (\E ok \in BOOLEAN : SavePool(w, ok)) /\ Finish(w)
  /\ UNCHANGED <<apps, hosts>>

\* Check asks the node about conflicts and sets the status by the answer and
\* by what the pool was before.
CheckPool(w, k) ==
  /\ pc[w] = "idle" /\ pools[k] # None
  /\ With(w, [NoJob EXCEPT !.pool = k, !.save = pools[k]]) /\ Goto(w, "check")
  /\ UNCHANGED <<stores, apps, hosts, events>>

Checked(w) ==
  LET k == job[w].pool IN
  /\ pc[w] = "check"
  /\ \/ pools[k] # None /\ SetPool(w, job[w], k, "conflict", "savePool")
     \/ pools[k] # None /\ job[w].save.status = "conflict" /\ SetPool(w, job[w], k, "active", "savePool")
     \/ Finish(w) /\ UNCHANGED pools
  /\ UNCHANGED <<poolRows, nets, netRows, cooling, apps, hosts, events>>

DeletePool(w, k) ==
  /\ pc[w] = "idle" /\ pools[k] # None
  /\ \A p \in Projects : nets[p] # None /\ nets[p].pool = k => nets[p].status = "released"
  /\ With(w, [NoJob EXCEPT !.pool = k]) /\ Goto(w, "deletePool")
  /\ UNCHANGED <<stores, apps, hosts, events>>

\* Mutant of Referenced: a row that is released does not hold its pool.
ReferencedInUse(k) == \E r \in netRows : r.pool = k /\ r.status # "released"

\* The foreign key of the networks' rows.
Referenced(k) == \E r \in netRows : r.pool = k

DeletePoolRow(w) ==
  /\ pc[w] = "deletePool"
  /\ IF Referenced(job[w].pool) THEN Finish(w) /\ UNCHANGED poolRows
     ELSE poolRows' = [poolRows EXCEPT ![job[w].pool] = None] /\ Goto(w, "forgetPool") /\ UNCHANGED job
  /\ UNCHANGED <<pools, nets, netRows, cooling, apps, hosts, events>>

ForgetPool(w) ==
  /\ pc[w] = "forgetPool" /\ Finish(w)
  /\ pools' = [pools EXCEPT ![job[w].pool] = None]
  /\ UNCHANGED <<poolRows, nets, netRows, cooling, apps, hosts, events>>

------------------------------------------------------------------------------
\* An application removed before is put again.
Register(p) ==
  /\ p \notin apps /\ apps' = apps \cup {p}
  /\ UNCHANGED <<stores, hosts, pc, job, events>>

\* Time passes reuse_after.
CoolDown(p) ==
  /\ p \in cooling /\ cooling' = cooling \ {p}
  /\ UNCHANGED <<pools, poolRows, nets, netRows, apps, hosts, pc, job, events>>

\* PoolStore.Load and NetworkStore.Load.
Load ==
  /\ pools' = poolRows
  /\ nets' = [p \in Projects |-> IF \E r \in netRows : r.proj = p
                                 THEN CHOOSE r \in netRows : r.proj = p ELSE None]

\* The manager restarts; an agent may still execute what was under way.
Restart ==
  /\ Event /\ Load
  /\ late' \in {late \cup {OrderOf(w) : w \in sent} :
                  sent \in SUBSET {w \in Workers : pc[w] \in {"create", "delete", "up", "down"}}}
  /\ pc' = [w \in Workers |-> "idle"] /\ job' = [w \in Workers |-> NoJob]
  /\ UNCHANGED <<poolRows, netRows, cooling, apps, docker, up>>

Deploying(w) ==
  \/ \E k \in Pools : TryPool(w, k)
  \/ NoPoolLeft(w) \/ SaveFull(w) \/ Adopt(w) \/ SaveActive(w)
  \/ CreateNet(w) \/ Created(w) \/ SaveCreated(w) \/ Up(w)

Removing(w) ==
  \/ Down(w) \/ Release(w) \/ DeleteNet(w) \/ Deleted(w) \/ SaveReleased(w)
  \/ SaveFailed(w) \/ Reopen(w) \/ SaveReopened(w) \/ Drop(w)

Managing(w) ==
  \/ InsertPool(w) \/ AddPool(w) \/ DefaultPool(w) \/ SaveUpdate(w) \/ Checked(w)
  \/ DeletePoolRow(w) \/ ForgetPool(w)

Requests(w) ==
  \/ \E p \in Projects, n \in Nodes : Deploy(w, p, n) \/ Remove(w, p, n)
  \/ \E k \in Pools : CreatePool(w, k) \/ CheckPool(w, k) \/ DeletePool(w, k)
  \/ \E k \in Pools, status \in PoolStatus, reuse \in BOOLEAN :
        UpdatePool(w, k, status, reuse)
  \/ \E p \in Projects : Register(p)

Working ==
  \/ \E w \in Workers : Deploying(w) \/ Removing(w) \/ Managing(w)
  \/ \E p \in Projects : CoolDown(p)
  \/ \E o \in late : AgentLate(o)
  \/ Restart

Next ==
  \/ Working /\ UNCHANGED requests
  \/ /\ requests < MaxRequests /\ requests' = requests + 1
     /\ \E w \in Workers : Requests(w)

Spec == Init /\ [][Next]_vars

------------------------------------------------------------------------------
(* Properties.                                                             *)

\* What the request of a worker has in hand fits its next step.
Fits(step, j) ==
  /\ step \in Serving => j.proj \in Projects /\ j.node \in Nodes
  /\ step \in Networked => j.net # None
  /\ step \in Pooled => j.pool # None
  /\ step \in Saving => j.save # None
  /\ step \in {"try", "saveFull"} => \A k \in j.todo : j.view[k] # None
HandsShaped == \A w \in Workers : Fits(pc[w], job[w])

\* One row per project, and one per subnet of a node.
RowsApart ==
  \A r, s \in netRows : r.proj = s.proj \/ (r.node = s.node /\ r.sub = s.sub) => r = s

\* Some row binds the network's project to its subnet.
Bound(n) == \E r \in netRows : SameNet(r, n) /\ r.pool = n.pool
\* What is in memory, or in the hand of a request, is bound in the rows.
MemoryBound == \A p \in Projects : nets[p] # None => nets[p].proj = p /\ Bound(nets[p])
HandsBound  == \A w \in Workers : job[w].net # None => job[w].net.proj = job[w].proj /\ Bound(job[w].net)

\* So is what stands on the nodes, and what agents may still create.
BoundSubnet(p, s) == \E r \in netRows : r.proj = p /\ r.sub = s
HostsBound ==
  /\ \A d \in docker : BoundSubnet(d.proj, d.sub)
  /\ \A o \in late : o.do = "create" => BoundSubnet(o.proj, o.sub)

\* The row of a network finds the row of its pool, whoever deletes pools.
PoolsStay == \A r \in netRows : poolRows[r.pool] # None

IInv == TypeOK /\ HandsShaped /\ RowsApart /\ MemoryBound /\ HandsBound /\ HostsBound /\ PoolsStay

\* No node is ever asked for a network on a subnet that another project's
\* network stands on, whatever requests, restarts and late orders cross: the
\* subnet of a network left behind by a release that crossed a deploy included.
NoCollision ==
  \A w \in Workers : pc[w] = "create" =>
    \A d \in docker : d.node = job[w].node /\ d.sub = job[w].net.sub => d.proj = job[w].proj

\* The containers of an application have the network under them.
RunningHasNetwork == \A x \in up : Stands(x[2], x[1])

\* Project, pool and subnet stay bound until the network is released, over
\* requests for one project that cross, and over restarts.
BindingKept ==
  [][\A p \in Projects : nets[p] # None /\ nets[p].status # "released" =>
       nets'[p] # None /\ SameNet(nets'[p], nets[p]) /\ nets'[p].pool = nets[p].pool]_vars

\* IPAM_ALL_POOLS_EXHAUSTED: an allocation is refused only when the pools of
\* the node have no place that is free and open to reuse.  It does not hold: the
\* indexes refuse a subnet that was released (TryPool, Refused).
RefusedWhenFull ==
  [][\A w \in Workers : pc[w] = "try" /\ pc'[w] = "idle" /\ events' = events =>
       \A k \in job[w].todo : FreeAt(k, job[w].view[k].reuse) = {}]_vars
==============================================================================
