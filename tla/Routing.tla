-------------------------------- MODULE Routing --------------------------------
(***************************************************************************)
(* From containers to the route table: what has to happen before a request *)
(* reaches a container, and before none does any more.                     *)
(*                                                                         *)
(* The observer of the container manager lists the containers of the nodes *)
(* round by round and reports nodes and instances to the gateway's         *)
(* internal API, one call at a time.  The gateway keeps both as rows.  Its *)
(* health checker probes the instances and writes their health, a watchdog *)
(* takes nodes without heartbeats offline, administrators write statuses,  *)
(* and every few seconds the route table is rebuilt from several           *)
(* statements.  Each gateway of an HA pair has its own checker and table.  *)
(*                                                                         *)
(* Domains, tenants, versions, weights and limits, which a rebuild reads   *)
(* too, do not change here: a table is the set of its endpoints.  The      *)
(* nodes' rows stay, every container belongs to a service, and nobody sets *)
(* a health or a port by hand.                                             *)
(***************************************************************************)
EXTENDS Integers

CONSTANTS
  Instances,
  Nodes,
  On,                \* the node of an instance
  Ports,             \* host ports
  Gateways,
  SuccessThreshold, FailureThreshold,
  MaxEvents,         \* bound: changes from outside, failures, restarts, requests
  None               \* no row, no endpoint, nothing under way

ASSUME RoutingAssumption ==
  /\ On \in [Instances -> Nodes]
  /\ Ports \subseteq Nat \ {0}
  /\ SuccessThreshold \in Nat \ {0} /\ FailureThreshold \in Nat \ {0}
  /\ MaxEvents \in Nat

VARIABLES
  cont,      \* the containers
  session,   \* nodes whose agent is connected
  backoff,   \* nodes the observer leaves alone after a failure
  obs,       \* the round of the observer
  reported,  \* Observer.reported: the instances reported in its last round
  node,      \* the nodes' rows
  fresh,     \* nodes whose last heartbeat is younger than the watchdog's timeout
  row,       \* the instances' rows
  adm,       \* an administrator's request that has read its row
  chk,       \* the round of each gateway's checker
  oks, fails, \* its counts, up to the thresholds they are compared with
  proven,    \* instances that have once answered SuccessThreshold probes in a row
  reb,       \* each gateway's rebuilds under way
  table,     \* each gateway's route table
  events     \* events so far

vars == <<cont, session, backoff, obs, reported, node, fresh, row, adm, chk, oks, fails,
          proven, reb, table, events>>
hosts    == <<cont, session>>
manager  == <<backoff, obs, reported>>
rows     == <<node, fresh, row, adm>>
checkers == <<chk, oks, fails, proven>>
tables   == <<reb, table>>

NoPort   == 0
AnyPort  == Ports \cup {NoPort}
Cont     == [state : {"gone", "exited"}, port : {NoPort}] \cup [state : {"sick", "well"}, port : Ports]
View     == [state : {"gone", "exited", "running"}, port : AnyPort]
Health   == {"unknown", "healthy", "unhealthy"}
Status   == {"enabled", "disabled", "draining"}
Row      == [status : Status, health : Health, port : AnyPort]
NodeStatus == {"online", "offline", "maintenance", "disabled"}
Routes   == [Instances -> AnyPort \cup {None}]
Round    == [pc : {"nodes", "beat", "report", "register", "mark", "vanish"},
             todo : SUBSET Nodes, observed : SUBSET Nodes, seen : SUBSET Instances,
             at : Nodes \cup {None}, beat : NodeStatus \cup {None},
             view : [Instances -> View], left : SUBSET Instances,
             cur : Instances \cup {None}]
Check    == [pc : {"probe", "set"}, list : [Instances -> Row \cup {None}],
             alive : SUBSET Instances, cur : Instances \cup {None}, health : Health]
Rebuild  == [pc : {"idle", "nodes", "swap"}, pool : Routes]
Builders == {"auto", "api"}

ASSUME NoneAssumption == None \notin Nodes /\ None \notin Instances /\ None \notin Row

Unseen    == [i \in Instances |-> [state |-> "gone", port |-> NoPort]]
NewRound  == [pc |-> "nodes", todo |-> Nodes, observed |-> {}, seen |-> {}, at |-> None,
              beat |-> None, view |-> Unseen, left |-> {}, cur |-> None]
NoCheck   == [pc |-> "probe", list |-> [i \in Instances |-> None], alive |-> {},
              cur |-> None, health |-> "unknown"]
NoRoutes  == [i \in Instances |-> None]
NoRebuild == [pc |-> "idle", pool |-> NoRoutes]
Zero      == [i \in Instances |-> 0]

TypeOK ==
  /\ cont \in [Instances -> Cont] /\ session \subseteq Nodes /\ backoff \subseteq Nodes
  /\ obs \in Round /\ reported \subseteq Instances
  /\ node \in [Nodes -> NodeStatus] /\ fresh \subseteq Nodes
  /\ row \in [Instances -> Row \cup {None}]
  /\ adm \in [inst : Instances, row : Row] \cup {None}
  /\ chk \in [Gateways -> Check]
  /\ oks \in [Gateways -> [Instances -> 0..SuccessThreshold]]
  /\ fails \in [Gateways -> [Instances -> 0..FailureThreshold]]
  /\ proven \subseteq Instances
  /\ reb \in [Gateways -> [Builders -> Rebuild]]
  /\ table \in [Gateways -> Routes]
  /\ events \in 0..MaxEvents

\* The first instances are still to be reported; what the hosts are at is open.
Init ==
  /\ cont \in [Instances -> Cont] /\ session \in SUBSET Nodes
  /\ backoff = {} /\ obs = NewRound /\ reported = {}
  /\ node = [n \in Nodes |-> "online"] /\ fresh = Nodes
  /\ row = [i \in Instances |-> None] /\ adm = None
  /\ chk = [g \in Gateways |-> NoCheck]
  /\ oks = [g \in Gateways |-> Zero] /\ fails = [g \in Gateways |-> Zero]
  /\ proven = {}
  /\ reb = [g \in Gateways |-> [b \in Builders |-> NoRebuild]]
  /\ table = [g \in Gateways |-> NoRoutes]
  /\ events = 0

Event == events < MaxEvents /\ events' = events + 1

\* Something goes wrong, at the cost of an event, or does not.
Costs(trouble) == IF trouble THEN Event ELSE UNCHANGED events

------------------------------------------------------------------------------
(* The hosts.                                                              *)

Running(i) == cont[i].state \in {"sick", "well"}

\* A container is created, starts on a host port, falls ill or recovers, exits
\* or is removed.
ContainerChanges(i, c) ==
  /\ Event /\ c # cont[i] /\ cont' = [cont EXCEPT ![i] = c]
  /\ UNCHANGED <<session, manager, rows, checkers, tables>>

SessionChanges(n) ==
  /\ Event /\ session' = IF n \in session THEN session \ {n} ELSE session \cup {n}
  /\ UNCHANGED <<cont, manager, rows, checkers, tables>>

------------------------------------------------------------------------------
(* The observer.  Each call to the gateway takes effect or not, and its    *)
(* answer arrives or not.                                                  *)

Skip(n) ==
  /\ obs.pc = "nodes" /\ n \in obs.todo
  /\ n \notin session \/ n \in backoff
  /\ obs' = [obs EXCEPT !.todo = @ \ {n}]
  /\ UNCHANGED <<hosts, backoff, reported, rows, checkers, tables, events>>

\* The containers of a node as its agent lists them; a port may not be known yet.
Listed(n, early) ==
  [i \in Instances |->
     IF On[i] # n THEN Unseen[i]
     ELSE [state |-> IF Running(i) THEN "running" ELSE cont[i].state,
           port  |-> IF i \in early THEN NoPort ELSE cont[i].port]]

Observe(n, early) ==
  LET view   == Listed(n, early)
      listed == {i \in Instances : view[i].state # "gone"}
  IN
  /\ obs.pc = "nodes" /\ n \in obs.todo /\ n \in session /\ n \notin backoff
  /\ Costs(early # {})
  /\ obs' = [obs EXCEPT !.pc = "beat", !.todo = @ \ {n}, !.observed = @ \cup {n},
                        !.seen = @ \cup listed, !.at = n, !.view = view, !.left = listed]
  /\ UNCHANGED <<hosts, backoff, reported, rows, checkers, tables>>

ObserveFails(n) ==
  /\ obs.pc = "nodes" /\ n \in obs.todo /\ n \in session /\ n \notin backoff
  /\ Event /\ backoff' = backoff \cup {n} /\ obs' = [obs EXCEPT !.todo = @ \ {n}]
  /\ UNCHANGED <<hosts, reported, rows, checkers, tables>>

BackoffEnds(n) ==
  /\ n \in backoff /\ backoff' = backoff \ {n}
  /\ UNCHANGED <<hosts, obs, reported, rows, checkers, tables, events>>

\* Node.Heartbeat reads the status and then writes: any but disabled is online.
Beat(status) == IF status = "disabled" THEN "disabled" ELSE "online"

HeartbeatReads ==
  /\ obs.pc = "beat" /\ obs.beat = None
  /\ obs' = [obs EXCEPT !.beat = Beat(node[obs.at])]
  /\ UNCHANGED <<hosts, backoff, reported, rows, checkers, tables, events>>

HeartbeatWrites(done) ==
  /\ obs.pc = "beat" /\ obs.beat # None /\ Costs(~done)
  /\ IF done THEN /\ node' = [node EXCEPT ![obs.at] = obs.beat]
                  /\ fresh' = fresh \cup {obs.at}
             ELSE UNCHANGED <<node, fresh>>
  /\ obs' = [obs EXCEPT !.pc = "report", !.beat = None]
  /\ UNCHANGED <<hosts, backoff, reported, row, adm, checkers, tables>>

\* The call on an instance is done with, or leads to another.
Reported(i)   == [obs EXCEPT !.pc = "report", !.left = @ \ {i}, !.cur = None]
Then(pc, i)   == [obs EXCEPT !.pc = pc, !.cur = i]

\* An instance's heartbeat brings its row to the port the container has now.
Synced(i, port) == IF port = NoPort THEN row[i] ELSE [row[i] EXCEPT !.port = port]
SickRow(i) == [row[i] EXCEPT !.health = "unhealthy"]

\* HeartbeatInstance of a running container, ReportHealth of one that is not.
Report(i, done, answered) ==
  LET v == obs.view[i] IN
  /\ obs.pc = "report" /\ i \in obs.left
  /\ done \/ ~answered
  /\ Costs(~done \/ ~answered)
  /\ row' = IF done /\ row[i] # None
            THEN [row EXCEPT ![i] = IF v.state = "running" THEN Synced(i, v.port) ELSE SickRow(i)]
            ELSE row
  /\ obs' = IF answered /\ row[i] # None THEN Reported(i) ELSE Then("register", i)
  /\ UNCHANGED <<hosts, backoff, reported, node, fresh, adm, checkers, tables>>

\* Mutant of Registered: an instance is believed until a probe says otherwise.
RegisteredHealthy(port) == [status |-> "enabled", health |-> "healthy", port |-> port]
Registered(port) == [status |-> "enabled", health |-> "unknown", port |-> port]

\* A row that exists is a conflict.
Register(done, answered) ==
  LET i == obs.cur
      v == obs.view[i]
      created == answered /\ row[i] = None
  IN
  /\ obs.pc = "register" /\ (done \/ ~answered) /\ Costs(~done \/ ~answered)
  /\ row' = IF done /\ row[i] = None THEN [row EXCEPT ![i] = Registered(v.port)] ELSE row
  /\ obs' = IF created /\ v.state = "exited" THEN Then("mark", i) ELSE Reported(i)
  /\ UNCHANGED <<hosts, backoff, reported, node, fresh, adm, checkers, tables>>

Mark(done) ==
  LET i == obs.cur IN
  /\ obs.pc = "mark" /\ Costs(~done)
  /\ row' = IF done /\ row[i] # None THEN [row EXCEPT ![i] = SickRow(i)] ELSE row
  /\ obs' = Reported(i)
  /\ UNCHANGED <<hosts, backoff, reported, node, fresh, adm, checkers, tables>>

NodeReported ==
  /\ obs.pc = "report" /\ obs.left = {}
  /\ obs' = [obs EXCEPT !.pc = "nodes", !.at = None, !.view = Unseen]
  /\ UNCHANGED <<hosts, backoff, reported, rows, checkers, tables, events>>

\* What the last round reported and this one misses on a node it observed.
Vanished == {i \in reported \ obs.seen : On[i] \in obs.observed}

RoundSwaps ==
  /\ obs.pc = "nodes" /\ obs.todo = {}
  /\ reported' = obs.seen
  /\ obs' = [NewRound EXCEPT !.pc = "vanish", !.todo = {}, !.left = Vanished]
  /\ UNCHANGED <<hosts, backoff, rows, checkers, tables, events>>

Deregister(i, done) ==
  /\ obs.pc = "vanish" /\ i \in obs.left /\ Costs(~done)
  /\ row' = IF done THEN [row EXCEPT ![i] = None] ELSE row
  /\ obs' = [obs EXCEPT !.left = @ \ {i}]
  /\ UNCHANGED <<hosts, backoff, reported, node, fresh, adm, checkers, tables>>

TickStarts ==
  /\ obs.pc = "vanish" /\ obs.left = {} /\ obs' = NewRound
  /\ UNCHANGED <<hosts, backoff, reported, rows, checkers, tables, events>>

\* The manager restarts and knows of no round before.
ManagerRestarts ==
  /\ Event /\ backoff' = {} /\ obs' = NewRound /\ reported' = {}
  /\ UNCHANGED <<hosts, rows, checkers, tables>>

------------------------------------------------------------------------------
(* The gateway's rows.                                                     *)

\* The heartbeat grows old: while the node is heard of, only by mischance.
HeartbeatAges(n) ==
  /\ n \in fresh /\ fresh' = fresh \ {n}
  /\ Costs(n \in session \ backoff)
  /\ UNCHANGED <<hosts, manager, node, row, adm, checkers, tables>>

Overdue(n) == n \notin fresh /\ node[n] \notin {"disabled", "offline"}

\* MarkOffline, one statement.
Watchdog ==
  /\ \E n \in Nodes : Overdue(n)
  /\ node' = [n \in Nodes |-> IF Overdue(n) THEN "offline" ELSE node[n]]
  /\ UNCHANGED <<hosts, manager, fresh, row, adm, checkers, tables, events>>

SetNode(n, status) ==
  /\ Event /\ status \in {"online", "maintenance", "disabled"}
  /\ node' = [node EXCEPT ![n] = status]
  /\ UNCHANGED <<hosts, manager, fresh, row, adm, checkers, tables>>

\* Instance.Update reads the row and writes all of its columns back.
UpdateReads(i, status) ==
  /\ Event /\ adm = None /\ row[i] # None
  /\ adm' = [inst |-> i, row |-> [row[i] EXCEPT !.status = status]]
  /\ UNCHANGED <<hosts, manager, node, fresh, row, checkers, tables>>

UpdateWrites ==
  /\ adm # None /\ adm' = None
  /\ row' = IF row[adm.inst] = None THEN row ELSE [row EXCEPT ![adm.inst] = adm.row]
  /\ UNCHANGED <<hosts, manager, node, fresh, checkers, tables, events>>

\* The manager drains an instance before it removes the container.
Drain(i) ==
  /\ Event /\ row[i] # None /\ row' = [row EXCEPT ![i].status = "draining"]
  /\ UNCHANGED <<hosts, manager, node, fresh, adm, checkers, tables>>

DeleteRow(i) ==
  /\ Event /\ row[i] # None /\ row' = [row EXCEPT ![i] = None]
  /\ UNCHANGED <<hosts, manager, node, fresh, adm, checkers, tables>>

------------------------------------------------------------------------------
(* The health checker: it lists the rows once a round and compares with    *)
(* the health it listed.                                                   *)

\* A round ends, prune forgetting what it had not listed, and the next lists.
CheckStarts(g) ==
  LET Keep(count) == [i \in Instances |-> IF i \in chk[g].alive THEN count[i] ELSE 0] IN
  /\ chk[g].pc = "probe" /\ \A i \in Instances : chk[g].list[i] = None
  /\ chk' = [chk EXCEPT ![g] = [NoCheck EXCEPT !.list = row,
                                               !.alive = {i \in Instances : row[i] # None}]]
  /\ oks' = [oks EXCEPT ![g] = Keep(@)] /\ fails' = [fails EXCEPT ![g] = Keep(@)]
  /\ UNCHANGED <<hosts, manager, rows, proven, tables, events>>

\* Port 0, no port, is never where an instance listens: nothing is at the default
\* port of the scheme, which is then probed.
Answers(i, port) == cont[i].state = "well" /\ cont[i].port = port

Up(count, threshold) == IF count < threshold THEN count + 1 ELSE threshold

\* Mutant of Due: the row is written when the count reaches the threshold only.
DueOnce(before, count, threshold, listed, health) ==
  before < threshold /\ count = threshold /\ listed # health
Due(before, count, threshold, listed, health) == count = threshold /\ listed # health

\* In the grace period after its first sight an instance is not probed.
Spare(g, i) ==
  /\ chk[g].pc = "probe" /\ chk[g].list[i] # None
  /\ oks[g][i] = 0 /\ fails[g][i] = 0 /\ Event
  /\ chk' = [chk EXCEPT ![g].list[i] = None]
  /\ UNCHANGED <<hosts, manager, rows, oks, fails, proven, tables>>

Probe(g, i) ==
  LET r  == chk[g].list[i]
      up == Answers(i, r.port)
      count == IF up THEN Up(oks[g][i], SuccessThreshold) ELSE Up(fails[g][i], FailureThreshold)
      health == IF up THEN "healthy" ELSE "unhealthy"
      due == IF up THEN Due(oks[g][i], count, SuccessThreshold, r.health, health)
                   ELSE Due(fails[g][i], count, FailureThreshold, r.health, health)
  IN
  /\ chk[g].pc = "probe" /\ r # None
  /\ oks'   = [oks EXCEPT ![g][i] = IF up THEN count ELSE 0]
  /\ fails' = [fails EXCEPT ![g][i] = IF up THEN 0 ELSE count]
  /\ proven' = IF up /\ count = SuccessThreshold THEN proven \cup {i} ELSE proven
  /\ chk' = [chk EXCEPT ![g] = IF due THEN [@ EXCEPT !.pc = "set", !.list[i] = None, !.cur = i, !.health = health]
                                      ELSE [@ EXCEPT !.list[i] = None]]
  /\ UNCHANGED <<hosts, manager, rows, tables, events>>

SetHealth(g, done) ==
  LET c == chk[g] IN
  /\ c.pc = "set" /\ Costs(~done)
  /\ row' = IF done /\ row[c.cur] # None THEN [row EXCEPT ![c.cur].health = c.health] ELSE row
  /\ chk' = [chk EXCEPT ![g] = [@ EXCEPT !.pc = "probe", !.cur = None, !.health = "unknown"]]
  /\ UNCHANGED <<hosts, manager, node, fresh, adm, oks, fails, proven, tables>>

------------------------------------------------------------------------------
(* The route table.                                                        *)

IsRoutable(r) == r # None /\ r.status = "enabled" /\ r.health = "healthy"

ReadInstances(g, b) ==
  /\ reb[g][b].pc = "idle" /\ Costs(b = "api")
  /\ reb' = [reb EXCEPT ![g][b] =
       [pc |-> "nodes", pool |-> [i \in Instances |-> IF IsRoutable(row[i]) THEN row[i].port ELSE None]]]
  /\ UNCHANGED <<hosts, manager, rows, checkers, table>>

ReadNodes(g, b) ==
  /\ reb[g][b].pc = "nodes"
  /\ reb' = [reb EXCEPT ![g][b] =
       [pc |-> "swap", pool |-> [i \in Instances |-> IF node[On[i]] = "online" THEN @.pool[i] ELSE None]]]
  /\ UNCHANGED <<hosts, manager, rows, checkers, table, events>>

Swap(g, b) ==
  /\ reb[g][b].pc = "swap"
  /\ table' = [table EXCEPT ![g] = reb[g][b].pool]
  /\ reb' = [reb EXCEPT ![g][b] = NoRebuild]
  /\ UNCHANGED <<hosts, manager, rows, checkers, events>>

\* On an error the table stays.
RebuildFails(g, b) ==
  /\ reb[g][b].pc # "idle" /\ Event
  /\ reb' = [reb EXCEPT ![g][b] = NoRebuild]
  /\ UNCHANGED <<hosts, manager, rows, checkers, table>>

GatewayRestarts(g) ==
  /\ Event
  /\ chk' = [chk EXCEPT ![g] = NoCheck]
  /\ oks' = [oks EXCEPT ![g] = Zero] /\ fails' = [fails EXCEPT ![g] = Zero]
  /\ reb' = [reb EXCEPT ![g] = [b \in Builders |-> NoRebuild]]
  /\ table' = [table EXCEPT ![g] = NoRoutes]
  /\ UNCHANGED <<hosts, manager, rows, proven>>

------------------------------------------------------------------------------
Observing ==
  \/ HeartbeatReads \/ NodeReported \/ RoundSwaps \/ TickStarts
  \/ \E n \in Nodes : Skip(n) \/ ObserveFails(n)
  \/ \E n \in Nodes : \E early \in SUBSET {i \in Instances : On[i] = n /\ Running(i)} : Observe(n, early)
  \/ \E done \in BOOLEAN : HeartbeatWrites(done) \/ Mark(done)
  \/ \E done, answered \in BOOLEAN :
       Register(done, answered) \/ \E i \in Instances : Report(i, done, answered)
  \/ \E i \in Instances, done \in BOOLEAN : Deregister(i, done)

Checking(g) ==
  \/ CheckStarts(g)
  \/ \E i \in Instances : Spare(g, i) \/ Probe(g, i)
  \/ \E done \in BOOLEAN : SetHealth(g, done)

Building(g, b) == ReadInstances(g, b) \/ ReadNodes(g, b) \/ Swap(g, b) \/ RebuildFails(g, b)

Administering ==
  \/ UpdateWrites
  \/ \E n \in Nodes, status \in NodeStatus : SetNode(n, status)
  \/ \E i \in Instances, status \in Status : UpdateReads(i, status)
  \/ \E i \in Instances : Drain(i) \/ DeleteRow(i)

Changing ==
  \/ \E i \in Instances, c \in Cont : ContainerChanges(i, c)
  \/ \E n \in Nodes : SessionChanges(n) \/ BackoffEnds(n) \/ HeartbeatAges(n)
  \/ ManagerRestarts \/ Watchdog \/ \E g \in Gateways : GatewayRestarts(g)

Next ==
  \/ Observing \/ Administering \/ Changing
  \/ \E g \in Gateways : Checking(g) \/ \E b \in Builders : Building(g, b)

Spec == Init /\ [][Next]_vars

\* The loops run, requests are served, and time passes.
Fairness ==
  /\ WF_vars(Observing) /\ WF_vars(UpdateWrites) /\ WF_vars(Watchdog)
  /\ \A g \in Gateways :
       /\ WF_vars(Checking(g)) /\ WF_vars(Building(g, "auto"))
       /\ WF_vars(reb[g]["api"].pc # "idle" /\ Building(g, "api"))
  /\ \A n \in Nodes : WF_vars(BackoffEnds(n)) /\ WF_vars(n \notin session /\ HeartbeatAges(n))

FairSpec == Spec /\ Fairness

------------------------------------------------------------------------------
(* Properties.                                                             *)

\* A row in hand of the observer's and the checker's steps is where they need it.
Shapes ==
  /\ obs.pc = "beat" => obs.at # None
  /\ obs.pc \in {"register", "mark"} => obs.cur # None
  /\ \A g \in Gateways : chk[g].pc = "set" => chk[g].cur # None

\* Whoever is called healthy, in its row or in a copy of it, has proved it.
Believed(r, i) == r # None /\ r.health = "healthy" => i \in proven
HealthProven ==
  /\ \A i \in Instances : Believed(row[i], i)
  /\ adm # None => Believed(adm.row, adm.inst)
  /\ \A g \in Gateways :
       /\ \A i \in Instances : oks[g][i] = SuccessThreshold => i \in proven
       /\ chk[g].pc = "set" /\ chk[g].health = "healthy" => chk[g].cur \in proven
       /\ \A i \in Instances, b \in Builders : reb[g][b].pool[i] # None => i \in proven

\* No request goes to an instance that has not once answered SuccessThreshold
\* probes in a row: not by a registration, a heartbeat, an administrator's
\* write of an old row, a stale list of the checker or an old rebuild.
ProvenOnly == \A g \in Gateways, i \in Instances : table[g][i] # None => i \in proven

IInv == TypeOK /\ Shapes /\ HealthProven /\ ProvenOnly

\* What the table ought to say of an instance.
Serves(i) ==
  /\ cont[i].state = "well" /\ On[i] \in session
  /\ node[On[i]] \notin {"maintenance", "disabled"}
  /\ row[i] # None => row[i].status = "enabled"
TableRight(g) ==
  \A i \in Instances : table[g][i] = IF Serves(i) THEN cont[i].port ELSE None

\* Changes in containers, statuses, sessions and heartbeats take effect without
\* a restart: once they cease, every table comes to hold exactly the healthy
\* containers of the nodes heard of, unless a person has taken them or the node
\* out, at their present ports.
Converges == \A g \in Gateways : <>[]TableRight(g)

\* A container that vanishes is deregistered (plan-phase7.md).  It does not hold:
\* what vanishes on a node that a round does not observe is forgotten.
Deregistered == \A i \in Instances : [](cont[i].state = "gone" => <>(row[i] = None \/ cont[i].state # "gone"))

\* Maintenance and disabling stop new traffic until a person ends them: no
\* heartbeat puts such a node online (plan-phase2.md).  It does not hold: Beat takes
\* maintenance for online, and the status may be set between its two statements.
SetAsideIsKept ==
  [][events' = events => \A n \in Nodes : node[n] \in {"maintenance", "disabled"} => node'[n] # "online"]_vars
==============================================================================
