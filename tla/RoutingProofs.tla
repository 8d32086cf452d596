----------------------------- MODULE RoutingProofs -----------------------------
(* The invariant of Routing, for any instances, nodes, gateways and thresholds. *)
EXTENDS Routing, TLAPS

\* The values the model starts from have their types.
LEMMA Blank ==
  /\ NewRound \in Round /\ NoCheck \in Check /\ NoRebuild \in Rebuild
  /\ NoRoutes \in Routes
  /\ Zero \in [Instances -> 0..SuccessThreshold] /\ Zero \in [Instances -> 0..FailureThreshold]
<1>1. NoPort \in AnyPort
  BY DEF AnyPort, NoPort
<1>2. Unseen \in [Instances -> View]
  BY <1>1 DEF Unseen, View
<1>3. NewRound \in Round
  BY <1>2 DEF NewRound, Round
<1>4. NoCheck \in Check
  BY DEF NoCheck, Check, Health
<1>5. NoRoutes \in Routes
  BY DEF NoRoutes, Routes
<1>6. NoRebuild \in Rebuild
  BY <1>5 DEF NoRebuild, Rebuild
<1>7. Zero \in [Instances -> 0..SuccessThreshold] /\ Zero \in [Instances -> 0..FailureThreshold]
  BY RoutingAssumption DEF Zero
<1> QED BY <1>3, <1>4, <1>5, <1>6, <1>7

\* The initial states satisfy the invariant.
LEMMA InitInv == Init => IInv
<1> SUFFICES ASSUME Init PROVE IInv
  OBVIOUS
<1>1. TypeOK
  <2>1. events \in 0..MaxEvents
    BY RoutingAssumption DEF Init
  <2>2. [g \in Gateways |-> [b \in Builders |-> NoRebuild]] \in [Gateways -> [Builders -> Rebuild]]
    BY Blank
  <2> QED BY Blank, <2>1, <2>2 DEF Init, TypeOK, NodeStatus
<1>2. Shapes
  BY DEF Init, Shapes, NewRound, NoCheck
<1>3. HealthProven
  <2>1. \A i \in Instances : Zero[i] # SuccessThreshold
    BY RoutingAssumption DEF Zero
  <2> QED BY <2>1 DEF Init, HealthProven, Believed, NoCheck, NoRebuild, NoRoutes
<1>4. ProvenOnly
  BY DEF Init, ProvenOnly, NoRoutes
<1> QED BY <1>1, <1>2, <1>3, <1>4 DEF IInv

------------------------------------------------------------------------------
\* What the helpers of the observer's steps return.
LEMMA EventType == ASSUME TypeOK, NEW t \in BOOLEAN, Costs(t) PROVE events' \in 0..MaxEvents
  BY RoutingAssumption DEF TypeOK, Costs, Event

LEMMA EventUp == ASSUME TypeOK, Event PROVE events' \in 0..MaxEvents
  BY RoutingAssumption DEF TypeOK, Event

LEMMA ReportedType == ASSUME TypeOK, NEW i PROVE Reported(i) \in Round
  BY DEF TypeOK, Reported, Round

LEMMA ThenType ==
  ASSUME TypeOK, NEW i \in Instances, NEW pc \in {"register", "mark"} PROVE Then(pc, i) \in Round
  BY DEF TypeOK, Then, Round

LEMMA SyncedType ==
  ASSUME TypeOK, NEW i \in Instances, row[i] # None, NEW p \in AnyPort
  PROVE Synced(i, p) \in Row /\ Synced(i, p).health = row[i].health
  BY DEF TypeOK, Synced, Row

LEMMA SickType ==
  ASSUME TypeOK, NEW i \in Instances, row[i] # None
  PROVE SickRow(i) \in Row /\ SickRow(i).health = "unhealthy"
  BY DEF TypeOK, SickRow, Row, Health

LEMMA RegisteredType ==
  ASSUME NEW p \in AnyPort PROVE Registered(p) \in Row /\ Registered(p).health = "unknown"
  BY DEF Registered, Row, Health, Status

LEMMA ViewType ==
  ASSUME TypeOK, NEW i \in Instances
  PROVE obs.view[i] \in View /\ obs.view[i].port \in AnyPort
  BY DEF TypeOK, Round, View

LEMMA ListedType ==
  ASSUME TypeOK, NEW n \in Nodes, NEW early \in SUBSET {i \in Instances : On[i] = n /\ Running(i)}
  PROVE Listed(n, early) \in [Instances -> View]
<1> SUFFICES ASSUME NEW i \in Instances PROVE Listed(n, early)[i] \in View
  BY DEF Listed
<1>1. Unseen[i] \in View
  BY DEF Unseen, View, AnyPort, NoPort
<1>2. /\ cont[i].state \in {"gone", "exited", "sick", "well"} /\ cont[i].port \in AnyPort
  BY DEF TypeOK, Cont, AnyPort, NoPort
<1>3. (IF Running(i) THEN "running" ELSE cont[i].state) \in {"gone", "exited", "running"}
  BY <1>2 DEF Running
<1>4. (IF i \in early THEN NoPort ELSE cont[i].port) \in AnyPort
  BY <1>2 DEF AnyPort, NoPort
<1> QED BY <1>1, <1>3, <1>4 DEF Listed, View

------------------------------------------------------------------------------
\* Steps that leave rows, checkers and tables alone keep what is proved of them.
LEMMA Untouched ==
  ASSUME IInv, UNCHANGED <<row, adm, checkers, tables>> PROVE HealthProven' /\ ProvenOnly'
  BY DEF IInv, HealthProven, ProvenOnly, Believed, checkers, tables

LEMMA HostsStep ==
  ASSUME IInv,
         \/ \E i \in Instances, c \in Cont : ContainerChanges(i, c)
         \/ \E n \in Nodes : SessionChanges(n) \/ BackoffEnds(n) \/ HeartbeatAges(n) \/ ObserveFails(n) \/ Skip(n)
         \/ HeartbeatReads \/ NodeReported \/ RoundSwaps \/ TickStarts \/ ManagerRestarts \/ Watchdog
         \/ \E done \in BOOLEAN : HeartbeatWrites(done)
         \/ \E n \in Nodes, status \in NodeStatus : SetNode(n, status)
         \/ \E n \in Nodes : \E early \in SUBSET {i \in Instances : On[i] = n /\ Running(i)} : Observe(n, early)
  PROVE  IInv'
<1> USE DEF hosts, manager, rows, checkers, tables
<1>1. TypeOK /\ Shapes
  BY DEF IInv
<1>2. ASSUME NEW i \in Instances, NEW c \in Cont, ContainerChanges(i, c) PROVE IInv'
  <2>1. TypeOK'
    BY <1>1, <1>2, EventUp DEF ContainerChanges, TypeOK
  <2>2. Shapes'
    BY <1>1, <1>2 DEF ContainerChanges, Shapes
  <2> QED BY <1>2, <2>1, <2>2, Untouched DEF ContainerChanges, IInv
<1>3. ASSUME NEW n \in Nodes, SessionChanges(n) PROVE IInv'
  <2>1. TypeOK'
    BY <1>1, <1>3, EventUp DEF SessionChanges, TypeOK
  <2>2. Shapes'
    BY <1>1, <1>3 DEF SessionChanges, Shapes
  <2> QED BY <1>3, <2>1, <2>2, Untouched DEF SessionChanges, IInv
<1>4. ASSUME NEW n \in Nodes, BackoffEnds(n) PROVE IInv'
  <2>1. TypeOK'
    BY <1>1, <1>4 DEF BackoffEnds, TypeOK
  <2>2. Shapes'
    BY <1>1, <1>4 DEF BackoffEnds, Shapes
  <2> QED BY <1>4, <2>1, <2>2, Untouched DEF BackoffEnds, IInv
<1>5. ASSUME NEW n \in Nodes, HeartbeatAges(n) PROVE IInv'
  <2>0. events' \in 0..MaxEvents
    <3>1. (n \in session \ backoff) \in BOOLEAN
      OBVIOUS
    <3> QED BY <1>1, <1>5, <3>1, EventType DEF HeartbeatAges
  <2>1. TypeOK'
    BY <1>1, <1>5, <2>0 DEF HeartbeatAges, TypeOK
  <2>2. Shapes'
    BY <1>1, <1>5 DEF HeartbeatAges, Shapes
  <2> QED BY <1>5, <2>1, <2>2, Untouched DEF HeartbeatAges, IInv
<1>6. ASSUME NEW n \in Nodes, ObserveFails(n) PROVE IInv'
  <2>0. obs' \in Round
    BY <1>1, <1>6 DEF ObserveFails, TypeOK, Round
  <2>1. TypeOK'
    BY <1>1, <1>6, <2>0, EventUp DEF ObserveFails, TypeOK
  <2>2. Shapes'
    BY <1>1, <1>6 DEF ObserveFails, Shapes, TypeOK, Round
  <2> QED BY <1>6, <2>1, <2>2, Untouched DEF ObserveFails, IInv
<1>7. ASSUME NEW n \in Nodes, Skip(n) PROVE IInv'
  <2>0. obs' \in Round
    BY <1>1, <1>7 DEF Skip, TypeOK, Round
  <2>1. TypeOK'
    BY <1>1, <1>7, <2>0 DEF Skip, TypeOK
  <2>2. Shapes'
    BY <1>1, <1>7 DEF Skip, Shapes, TypeOK, Round
  <2> QED BY <1>7, <2>1, <2>2, Untouched DEF Skip, IInv
<1>8. ASSUME HeartbeatReads PROVE IInv'
  <2>0. obs' \in Round
    <3>1. obs.at \in Nodes
      BY <1>1, <1>8 DEF HeartbeatReads, Shapes, TypeOK, Round
    <3>2. Beat(node[obs.at]) \in NodeStatus
      BY <3>1, <1>1 DEF Beat, NodeStatus, TypeOK
    <3> QED BY <1>1, <1>8, <3>2 DEF HeartbeatReads, TypeOK, Round
  <2>1. TypeOK'
    BY <1>1, <1>8, <2>0 DEF HeartbeatReads, TypeOK
  <2>2. Shapes'
    BY <1>1, <1>8 DEF HeartbeatReads, Shapes, TypeOK, Round
  <2> QED BY <1>8, <2>1, <2>2, Untouched DEF HeartbeatReads, IInv
<1>9. ASSUME NodeReported PROVE IInv'
  <2>0. obs' \in Round
    BY <1>1, <1>9, Blank DEF NodeReported, TypeOK, Round, NewRound
  <2>1. TypeOK'
    BY <1>1, <1>9, <2>0 DEF NodeReported, TypeOK
  <2>2. Shapes'
    BY <1>1, <1>9 DEF NodeReported, Shapes, TypeOK, Round
  <2> QED BY <1>9, <2>1, <2>2, Untouched DEF NodeReported, IInv
<1>10. ASSUME RoundSwaps PROVE IInv'
  <2>0. obs' \in Round /\ reported' \in SUBSET Instances
    BY <1>1, <1>10, Blank DEF RoundSwaps, TypeOK, Round, Vanished
  <2>1. TypeOK'
    BY <1>1, <1>10, <2>0 DEF RoundSwaps, TypeOK
  <2>2. Shapes'
    BY <1>1, <1>10, Blank DEF RoundSwaps, Shapes, TypeOK, Round
  <2> QED BY <1>10, <2>1, <2>2, Untouched DEF RoundSwaps, IInv
<1>11. ASSUME TickStarts PROVE IInv'
  <2>1. TypeOK'
    BY <1>1, <1>11, Blank DEF TickStarts, TypeOK
  <2>2. Shapes'
    BY <1>1, <1>11 DEF TickStarts, Shapes, NewRound
  <2> QED BY <1>11, <2>1, <2>2, Untouched DEF TickStarts, IInv
<1>12. ASSUME ManagerRestarts PROVE IInv'
  <2>1. TypeOK'
    BY <1>1, <1>12, Blank, EventUp DEF ManagerRestarts, TypeOK
  <2>2. Shapes'
    BY <1>1, <1>12 DEF ManagerRestarts, Shapes, NewRound
  <2> QED BY <1>12, <2>1, <2>2, Untouched DEF ManagerRestarts, IInv
<1>13. ASSUME Watchdog PROVE IInv'
  <2>1. TypeOK'
    BY <1>1, <1>13 DEF Watchdog, TypeOK, NodeStatus
  <2>2. Shapes'
    BY <1>1, <1>13 DEF Watchdog, Shapes
  <2> QED BY <1>13, <2>1, <2>2, Untouched DEF Watchdog, IInv
<1>14. ASSUME NEW done \in BOOLEAN, HeartbeatWrites(done) PROVE IInv'
  <2>1. obs' \in Round /\ obs.at \in Nodes /\ obs.beat \in NodeStatus
    BY <1>1, <1>14 DEF HeartbeatWrites, TypeOK, Round, Shapes
  <2>2. TypeOK'
    <3>1. node' \in [Nodes -> NodeStatus] /\ fresh' \subseteq Nodes
      BY <1>1, <1>14, <2>1 DEF HeartbeatWrites, TypeOK
    <3>2. events' \in 0..MaxEvents
      BY <1>1, <1>14, EventType DEF HeartbeatWrites
    <3> QED BY <1>1, <1>14, <2>1, <3>1, <3>2 DEF HeartbeatWrites, TypeOK
  <2>3. Shapes'
    BY <1>1, <1>14 DEF HeartbeatWrites, Shapes, TypeOK, Round
  <2> QED BY <1>14, <2>2, <2>3, Untouched DEF HeartbeatWrites, IInv
<1>15. ASSUME NEW n \in Nodes, NEW status \in NodeStatus, SetNode(n, status) PROVE IInv'
  <2>1. TypeOK'
    BY <1>1, <1>15, EventUp DEF SetNode, TypeOK
  <2>2. Shapes'
    BY <1>1, <1>15 DEF SetNode, Shapes
  <2> QED BY <1>15, <2>1, <2>2, Untouched DEF SetNode, IInv
<1>16. ASSUME NEW n \in Nodes, NEW early \in SUBSET {i \in Instances : On[i] = n /\ Running(i)},
              Observe(n, early)
       PROVE IInv'
  <2>1. Listed(n, early) \in [Instances -> View]
    BY <1>1, ListedType
  <2>2. obs' \in Round
    <3> DEFINE view == Listed(n, early)
               listed == {i \in Instances : view[i].state # "gone"}
    <3>1. obs' = [obs EXCEPT !.pc = "beat", !.todo = @ \ {n}, !.observed = @ \cup {n},
                             !.seen = @ \cup listed, !.at = n, !.view = view, !.left = listed]
      BY <1>16 DEF Observe
    <3>2. view \in [Instances -> View] /\ listed \in SUBSET Instances
      BY <2>1
    <3> HIDE DEF view, listed
    <3> QED BY <1>1, <3>1, <3>2 DEF TypeOK, Round
  <2>3. events' \in 0..MaxEvents
    <3>1. (early # {}) \in BOOLEAN
      OBVIOUS
    <3> QED BY <1>1, <1>16, <3>1, EventType DEF Observe
  <2>4. TypeOK'
    BY <1>1, <1>16, <2>2, <2>3 DEF Observe, TypeOK
  <2>5. Shapes'
    BY <1>1, <1>16, NoneAssumption DEF Observe, Shapes, TypeOK, Round
  <2> QED BY <1>16, <2>4, <2>5, Untouched DEF Observe, IInv
<1> QED BY <1>2, <1>3, <1>4, <1>5, <1>6, <1>7, <1>8, <1>9, <1>10, <1>11, <1>12, <1>13, <1>14, <1>15, <1>16

------------------------------------------------------------------------------
\* A write of rows that makes none healthy without proof.
LEMMA RowsWritten ==
  ASSUME IInv, UNCHANGED <<checkers, tables>>,
         adm' # None /\ adm'.row.health = "healthy" => adm'.inst \in proven,
         \A i \in Instances : row'[i] = None \/ row'[i].health # "healthy" \/ i \in proven
  PROVE  HealthProven' /\ ProvenOnly'
<1>1. \A i \in Instances : Believed(row[i], i)'
  BY DEF Believed, checkers
<1>2. (adm # None => Believed(adm.row, adm.inst))'
  BY DEF Believed, checkers
<1> QED BY <1>1, <1>2 DEF IInv, HealthProven, ProvenOnly, checkers, tables

LEMMA AdmOld == ASSUME IInv, adm # None PROVE adm.row.health = "healthy" => adm.inst \in proven
  BY NoneAssumption DEF IInv, TypeOK, HealthProven, Believed

LEMMA AdmKept ==
  ASSUME IInv, adm' = adm PROVE adm' # None /\ adm'.row.health = "healthy" => adm'.inst \in proven
  BY AdmOld

LEMMA ReportsStep ==
  ASSUME IInv,
         \/ \E i \in Instances, done, answered \in BOOLEAN : Report(i, done, answered)
         \/ \E done, answered \in BOOLEAN : Register(done, answered)
         \/ \E done \in BOOLEAN : Mark(done)
         \/ \E i \in Instances, done \in BOOLEAN : Deregister(i, done)
  PROVE  IInv'
<1> USE DEF hosts, manager, rows
<1>1. TypeOK /\ Shapes /\ HealthProven
  BY DEF IInv
<1>0. \A i \in Instances : row[i] = None \/ row[i].health # "healthy" \/ i \in proven
  BY <1>1 DEF HealthProven, Believed
<1>2. ASSUME NEW i \in Instances, NEW done \in BOOLEAN, NEW answered \in BOOLEAN, Report(i, done, answered)
      PROVE  IInv'
  <2>1. events' \in 0..MaxEvents
    <3>1. (~done \/ ~answered) \in BOOLEAN
      OBVIOUS
    <3> QED BY <1>1, <1>2, <3>1, EventType DEF Report
  <2>2. obs' \in Round
    BY <1>1, <1>2, ReportedType, ThenType DEF Report
  <2>3. /\ row' \in [Instances -> Row \cup {None}]
        /\ \A j \in Instances : row'[j] = None \/ row'[j].health # "healthy" \/ j \in proven
    <3>1. CASE done /\ row[i] # None
      <4> DEFINE new == IF obs.view[i].state = "running" THEN Synced(i, obs.view[i].port) ELSE SickRow(i)
      <4>1. row' = [row EXCEPT ![i] = new]
        BY <1>2, <3>1 DEF Report
      <4>2. new \in Row /\ (new.health = row[i].health \/ new.health = "unhealthy")
        BY <1>1, <3>1, SyncedType, SickType, ViewType
      <4> HIDE DEF new
      <4> QED BY <1>0, <1>1, <3>1, <4>1, <4>2 DEF TypeOK
    <3>2. CASE ~(done /\ row[i] # None)
      BY <1>0, <1>1, <1>2, <3>2 DEF Report, TypeOK
    <3> QED BY <3>1, <3>2
  <2>4. TypeOK'
    BY <1>1, <1>2, <2>1, <2>2, <2>3 DEF Report, TypeOK, checkers, tables
  <2>5. Shapes'
    <3>1. obs' = Reported(i) \/ obs' = Then("register", i)
      BY <1>2 DEF Report
    <3> QED BY <1>1, <1>2, <3>1, NoneAssumption DEF Report, Shapes, Reported, Then, TypeOK, Round, checkers
  <2> QED BY <1>2, <2>3, <2>4, <2>5, RowsWritten, AdmKept DEF Report, IInv
<1>3. ASSUME NEW done \in BOOLEAN, NEW answered \in BOOLEAN, Register(done, answered) PROVE IInv'
  <2>0. obs.cur \in Instances
    BY <1>1, <1>3 DEF Register, Shapes, TypeOK, Round
  <2>1. events' \in 0..MaxEvents
    <3>1. (~done \/ ~answered) \in BOOLEAN
      OBVIOUS
    <3> QED BY <1>1, <1>3, <3>1, EventType DEF Register
  <2>2. obs' \in Round
    BY <1>1, <1>3, <2>0, ReportedType, ThenType DEF Register
  <2>3. /\ row' \in [Instances -> Row \cup {None}]
        /\ \A j \in Instances : row'[j] = None \/ row'[j].health # "healthy" \/ j \in proven
    <3>1. Registered(obs.view[obs.cur].port) \in Row /\ Registered(obs.view[obs.cur].port).health = "unknown"
      BY <1>1, <2>0, ViewType, RegisteredType
    <3> QED BY <1>0, <1>1, <1>3, <2>0, <3>1 DEF Register, TypeOK
  <2>4. TypeOK'
    BY <1>1, <1>3, <2>1, <2>2, <2>3 DEF Register, TypeOK, checkers, tables
  <2>5. Shapes'
    <3>1. obs' = Reported(obs.cur) \/ obs' = Then("mark", obs.cur)
      BY <1>3 DEF Register
    <3> QED BY <1>1, <1>3, <2>0, <3>1, NoneAssumption DEF Register, Shapes, Reported, Then, TypeOK, Round, checkers
  <2> QED BY <1>3, <2>3, <2>4, <2>5, RowsWritten, AdmKept DEF Register, IInv
<1>4. ASSUME NEW done \in BOOLEAN, Mark(done) PROVE IInv'
  <2>0. obs.cur \in Instances
    BY <1>1, <1>4 DEF Mark, Shapes, TypeOK, Round
  <2>1. events' \in 0..MaxEvents
    BY <1>1, <1>4, EventType DEF Mark
  <2>2. obs' \in Round
    BY <1>1, <1>4, ReportedType DEF Mark
  <2>3. /\ row' \in [Instances -> Row \cup {None}]
        /\ \A j \in Instances : row'[j] = None \/ row'[j].health # "healthy" \/ j \in proven
    BY <1>0, <1>1, <1>4, <2>0, SickType DEF Mark, TypeOK
  <2>4. TypeOK'
    BY <1>1, <1>4, <2>1, <2>2, <2>3 DEF Mark, TypeOK, checkers, tables
  <2>5. Shapes'
    BY <1>1, <1>4 DEF Mark, Shapes, Reported, TypeOK, Round, checkers
  <2> QED BY <1>4, <2>3, <2>4, <2>5, RowsWritten, AdmKept DEF Mark, IInv
<1>5. ASSUME NEW i \in Instances, NEW done \in BOOLEAN, Deregister(i, done) PROVE IInv'
  <2>1. events' \in 0..MaxEvents
    BY <1>1, <1>5, EventType DEF Deregister
  <2>2. obs' \in Round
    BY <1>1, <1>5 DEF Deregister, TypeOK, Round
  <2>3. /\ row' \in [Instances -> Row \cup {None}]
        /\ \A j \in Instances : row'[j] = None \/ row'[j].health # "healthy" \/ j \in proven
    BY <1>0, <1>1, <1>5 DEF Deregister, TypeOK
  <2>4. TypeOK'
    BY <1>1, <1>5, <2>1, <2>2, <2>3 DEF Deregister, TypeOK, checkers, tables
  <2>5. Shapes'
    BY <1>1, <1>5 DEF Deregister, Shapes, TypeOK, Round, checkers
  <2> QED BY <1>5, <2>3, <2>4, <2>5, RowsWritten, AdmKept DEF Deregister, IInv
<1> QED BY <1>2, <1>3, <1>4, <1>5

LEMMA AdminStep ==
  ASSUME IInv,
         \/ UpdateWrites
         \/ \E i \in Instances, status \in Status : UpdateReads(i, status)
         \/ \E i \in Instances : Drain(i) \/ DeleteRow(i)
  PROVE  IInv'
<1> USE DEF hosts, manager, rows
<1>1. TypeOK /\ Shapes /\ HealthProven
  BY DEF IInv
<1>0. \A i \in Instances : row[i] = None \/ row[i].health # "healthy" \/ i \in proven
  BY <1>1 DEF HealthProven, Believed
<1>2. ASSUME UpdateWrites PROVE IInv'
  <2>0. adm \in [inst : Instances, row : Row] /\ (adm.row.health = "healthy" => adm.inst \in proven)
    BY <1>1, <1>2, AdmOld DEF UpdateWrites, TypeOK
  <2>1. /\ row' \in [Instances -> Row \cup {None}]
        /\ \A j \in Instances : row'[j] = None \/ row'[j].health # "healthy" \/ j \in proven
    BY <1>0, <1>1, <1>2, <2>0 DEF UpdateWrites, TypeOK
  <2>2. TypeOK'
    BY <1>1, <1>2, <2>1 DEF UpdateWrites, TypeOK, checkers, tables
  <2>3. Shapes'
    BY <1>1, <1>2 DEF UpdateWrites, Shapes, checkers
  <2> QED BY <1>2, <2>1, <2>2, <2>3, RowsWritten DEF UpdateWrites, IInv
<1>3. ASSUME NEW i \in Instances, NEW status \in Status, UpdateReads(i, status) PROVE IInv'
  <2> DEFINE new == [row[i] EXCEPT !.status = status]
  <2>0. new \in Row /\ new.health = row[i].health
    BY <1>1, <1>3 DEF UpdateReads, TypeOK, Row
  <2> HIDE DEF new
  <2>1. adm' = [inst |-> i, row |-> new]
    BY <1>3 DEF UpdateReads, new
  <2>2. adm'.row.health = "healthy" => adm'.inst \in proven
    BY <1>0, <1>3, <2>0, <2>1 DEF UpdateReads
  <2>3. TypeOK'
    <3>1. adm' \in [inst : Instances, row : Row] /\ events' \in 0..MaxEvents
      BY <1>1, <1>3, <2>0, <2>1, EventUp DEF UpdateReads
    <3> QED BY <1>1, <1>3, <3>1 DEF UpdateReads, TypeOK, checkers, tables
  <2>4. Shapes'
    BY <1>1, <1>3 DEF UpdateReads, Shapes, checkers
  <2> QED BY <1>0, <1>3, <2>2, <2>3, <2>4, RowsWritten DEF UpdateReads, IInv
<1>4. ASSUME NEW i \in Instances, Drain(i) PROVE IInv'
  <2>1. /\ row' \in [Instances -> Row \cup {None}]
        /\ \A j \in Instances : row'[j] = None \/ row'[j].health # "healthy" \/ j \in proven
    <3> DEFINE new == [row[i] EXCEPT !.status = "draining"]
    <3>1. new \in Row /\ new.health = row[i].health
      BY <1>1, <1>4 DEF Drain, TypeOK, Row, Status
    <3>2. row' = [row EXCEPT ![i] = new]
      BY <1>4 DEF Drain
    <3> HIDE DEF new
    <3> QED BY <1>0, <1>1, <1>4, <3>1, <3>2 DEF Drain, TypeOK
  <2>2. TypeOK'
    BY <1>1, <1>4, <2>1, EventUp DEF Drain, TypeOK, checkers, tables
  <2>3. Shapes'
    BY <1>1, <1>4 DEF Drain, Shapes, checkers
  <2> QED BY <1>4, <2>1, <2>2, <2>3, RowsWritten, AdmKept DEF Drain, IInv
<1>5. ASSUME NEW i \in Instances, DeleteRow(i) PROVE IInv'
  <2>1. /\ row' \in [Instances -> Row \cup {None}]
        /\ \A j \in Instances : row'[j] = None \/ row'[j].health # "healthy" \/ j \in proven
    BY <1>0, <1>1, <1>5 DEF DeleteRow, TypeOK
  <2>2. TypeOK'
    BY <1>1, <1>5, <2>1, EventUp DEF DeleteRow, TypeOK, checkers, tables
  <2>3. Shapes'
    BY <1>1, <1>5 DEF DeleteRow, Shapes, checkers
  <2> QED BY <1>5, <2>1, <2>2, <2>3, RowsWritten, AdmKept DEF DeleteRow, IInv
<1> QED BY <1>2, <1>3, <1>4, <1>5

------------------------------------------------------------------------------
\* A count never passes the threshold it is compared with.
LEMMA UpType ==
  ASSUME NEW t \in Nat \ {0}, NEW c \in 0..t PROVE Up(c, t) \in 0..t /\ (Up(c, t) = t => t # 0)
  BY DEF Up

\* A step of a checker keeps the invariant if what it writes of itself is typed,
\* and its counts and what it is about to write are backed by probes.
LEMMA CheckerKeeps ==
  ASSUME IInv, NEW g \in Gateways, NEW c, chk' = [chk EXCEPT ![g] = c],
         c \in Check, c.pc = "set" => c.cur # None,
         c.pc = "set" /\ c.health = "healthy" => c.cur \in proven',
         NEW o, oks' = [oks EXCEPT ![g] = o], o \in [Instances -> 0..SuccessThreshold],
         NEW f, fails' = [fails EXCEPT ![g] = f], f \in [Instances -> 0..FailureThreshold],
         \A i \in Instances : o[i] = SuccessThreshold => i \in proven',
         proven \subseteq proven', proven' \subseteq Instances, events' \in 0..MaxEvents,
         UNCHANGED <<hosts, manager, node, fresh, adm, tables>>,
         row' \in [Instances -> Row \cup {None}],
         \A i \in Instances : row'[i] = None \/ row'[i].health # "healthy" \/ i \in proven'
  PROVE  IInv'
<1> USE DEF hosts, manager, tables
<1>1. TypeOK /\ Shapes /\ HealthProven /\ ProvenOnly
  BY DEF IInv
<1>2. TypeOK'
  BY <1>1 DEF TypeOK
<1>3. Shapes'
  BY <1>1 DEF Shapes, TypeOK
<1>4. HealthProven'
  <2>1. \A i \in Instances : Believed(row[i], i)'
    BY DEF Believed
  <2>2. (adm # None => Believed(adm.row, adm.inst))'
    BY <1>1 DEF HealthProven, Believed
  <2>3. \A h \in Gateways, i \in Instances : oks'[h][i] = SuccessThreshold => i \in proven'
    BY <1>1 DEF HealthProven, TypeOK
  <2>4. \A h \in Gateways : chk'[h].pc = "set" /\ chk'[h].health = "healthy" => chk'[h].cur \in proven'
    BY <1>1 DEF HealthProven, TypeOK
  <2>5. \A h \in Gateways, i \in Instances, b \in Builders : reb'[h][b].pool[i] # None => i \in proven'
    BY <1>1 DEF HealthProven
  <2> QED BY <2>1, <2>2, <2>3, <2>4, <2>5 DEF HealthProven
<1>5. ProvenOnly'
  BY <1>1 DEF ProvenOnly
<1> QED BY <1>2, <1>3, <1>4, <1>5 DEF IInv

LEMMA CheckerStep == ASSUME IInv, NEW g \in Gateways, Checking(g) PROVE IInv'
<1> USE DEF rows
<1>1. TypeOK /\ Shapes /\ HealthProven
  BY DEF IInv
<1>0. /\ row \in [Instances -> Row \cup {None}] /\ proven \subseteq Instances /\ events \in 0..MaxEvents
      /\ \A i \in Instances : row[i] = None \/ row[i].health # "healthy" \/ i \in proven
  BY <1>1 DEF HealthProven, Believed, TypeOK
<1>2. /\ chk[g] \in Check /\ (chk[g].pc = "set" => chk[g].cur # None)
      /\ oks[g] \in [Instances -> 0..SuccessThreshold] /\ fails[g] \in [Instances -> 0..FailureThreshold]
      /\ \A i \in Instances : oks[g][i] = SuccessThreshold => i \in proven
      /\ chk[g].pc = "set" /\ chk[g].health = "healthy" => chk[g].cur \in proven
      /\ oks = [oks EXCEPT ![g] = oks[g]] /\ fails = [fails EXCEPT ![g] = fails[g]]
  BY <1>1 DEF HealthProven, Shapes, TypeOK
<1>3. ASSUME CheckStarts(g) PROVE IInv'
  <2> DEFINE Keep(count) == [i \in Instances |-> IF i \in chk[g].alive THEN count[i] ELSE 0]
             c == [NoCheck EXCEPT !.list = row, !.alive = {i \in Instances : row[i] # None}]
  <2>1. c \in Check /\ c.pc = "probe"
    BY <1>0, Blank DEF Check, NoCheck
  <2>2. /\ Keep(oks[g]) \in [Instances -> 0..SuccessThreshold]
        /\ Keep(fails[g]) \in [Instances -> 0..FailureThreshold]
        /\ \A i \in Instances : Keep(oks[g])[i] = SuccessThreshold => i \in proven
    BY <1>2, RoutingAssumption
  <2>3. /\ chk' = [chk EXCEPT ![g] = c]
        /\ oks' = [oks EXCEPT ![g] = Keep(oks[g])] /\ fails' = [fails EXCEPT ![g] = Keep(fails[g])]
    BY <1>3 DEF CheckStarts
  <2> DEFINE o == Keep(oks[g])
             f == Keep(fails[g])
  <2>4. /\ o \in [Instances -> 0..SuccessThreshold] /\ f \in [Instances -> 0..FailureThreshold]
        /\ \A i \in Instances : o[i] = SuccessThreshold => i \in proven
        /\ oks' = [oks EXCEPT ![g] = o] /\ fails' = [fails EXCEPT ![g] = f]
    BY <2>2, <2>3
  <2>5. UNCHANGED <<hosts, manager, rows, proven, tables, events>>
    BY <1>3 DEF CheckStarts
  <2> HIDE DEF c, Keep, o, f
  <2> QED BY <1>0, <2>1, <2>3, <2>4, <2>5, CheckerKeeps
<1>4. ASSUME NEW i \in Instances, Spare(g, i) PROVE IInv'
  <2> DEFINE c == [chk[g] EXCEPT !.list[i] = None]
  <2>1. c \in Check /\ c.pc = "probe"
    BY <1>2, <1>4 DEF Check, Spare
  <2>2. chk' = [chk EXCEPT ![g] = c]
    BY <1>1, <1>4 DEF Spare, TypeOK
  <2>3. events' \in 0..MaxEvents
    BY <1>1, <1>4, EventUp DEF Spare
  <2>4. oks' = [oks EXCEPT ![g] = oks[g]] /\ fails' = [fails EXCEPT ![g] = fails[g]]
    BY <1>2, <1>4 DEF Spare
  <2> HIDE DEF c
  <2> QED BY <1>0, <1>2, <1>4, <2>1, <2>2, <2>3, <2>4, CheckerKeeps DEF Spare
<1>5. ASSUME NEW i \in Instances, Probe(g, i) PROVE IInv'
  <2> DEFINE r  == chk[g].list[i]
             up == Answers(i, r.port)
             count == IF up THEN Up(oks[g][i], SuccessThreshold) ELSE Up(fails[g][i], FailureThreshold)
             health == IF up THEN "healthy" ELSE "unhealthy"
             due == IF up THEN Due(oks[g][i], count, SuccessThreshold, r.health, health)
                          ELSE Due(fails[g][i], count, FailureThreshold, r.health, health)
             c == IF due THEN [chk[g] EXCEPT !.pc = "set", !.list[i] = None, !.cur = i, !.health = health]
                         ELSE [chk[g] EXCEPT !.list[i] = None]
             o == [oks[g] EXCEPT ![i] = IF up THEN count ELSE 0]
             f == [fails[g] EXCEPT ![i] = IF up THEN 0 ELSE count]
  <2>1. Up(oks[g][i], SuccessThreshold) \in 0..SuccessThreshold
    BY <1>2, UpType, RoutingAssumption
  <2>2. Up(fails[g][i], FailureThreshold) \in 0..FailureThreshold
    BY <1>2, UpType, RoutingAssumption
  <2>3. /\ o \in [Instances -> 0..SuccessThreshold] /\ f \in [Instances -> 0..FailureThreshold]
    <3>1. (IF up THEN count ELSE 0) \in 0..SuccessThreshold
      BY <2>1, RoutingAssumption
    <3>2. (IF up THEN 0 ELSE count) \in 0..FailureThreshold
      BY <2>2, RoutingAssumption
    <3> HIDE DEF up, count
    <3> QED BY <1>2, <3>1, <3>2
  <2>4. proven' = IF up /\ count = SuccessThreshold THEN proven \cup {i} ELSE proven
    BY <1>5 DEF Probe
  <2>5. \A j \in Instances : o[j] = SuccessThreshold => j \in proven'
    <3>1. SuccessThreshold # 0
      BY RoutingAssumption
    <3>2. o[i] = IF up THEN count ELSE 0
      BY <1>2
    <3>3. \A j \in Instances : j # i => o[j] = oks[g][j]
      BY <1>2
    <3> HIDE DEF up, count, o
    <3> QED BY <1>2, <2>4, <3>1, <3>2, <3>3
  <2>6. due /\ health = "healthy" => i \in proven'
    <3>1. health = "healthy" <=> up
      OBVIOUS
    <3>2. due /\ up => count = SuccessThreshold
      BY DEF Due
    <3> HIDE DEF up, count, due, health
    <3> QED BY <2>4, <3>1, <3>2
  <2>7. c \in Check
    <3>1. health \in Health
      BY DEF Health
    <3> HIDE DEF due, health
    <3> QED BY <1>2, <3>1 DEF Check
  <2>8. c.pc = "set" => due /\ c.cur = i /\ c.health = health
    <3>1. chk[g].pc = "probe"
      BY <1>5 DEF Probe
    <3> HIDE DEF due, health
    <3> QED BY <1>2, <3>1 DEF Check
  <2>9. /\ chk' = [chk EXCEPT ![g] = c] /\ oks' = [oks EXCEPT ![g] = o] /\ fails' = [fails EXCEPT ![g] = f]
    <3>1. /\ chk' = [chk EXCEPT ![g] = c]
      BY <1>5 DEF Probe
    <3>2. oks' = [oks EXCEPT ![g] = o] /\ fails' = [fails EXCEPT ![g] = f]
      <4>1. oks' = [oks EXCEPT ![g][i] = IF up THEN count ELSE 0] /\ fails' = [fails EXCEPT ![g][i] = IF up THEN 0 ELSE count]
        BY <1>5 DEF Probe
      <4> HIDE DEF up, count
      <4> QED BY <4>1, <1>1 DEF TypeOK
    <3> QED BY <3>1, <3>2
  <2>10. c.pc = "set" => c.cur # None
    BY <2>8, NoneAssumption
  <2>11. c.pc = "set" /\ c.health = "healthy" => c.cur \in proven'
    <3> HIDE DEF c, due, health
    <3> QED BY <2>6, <2>8
  <2>12. proven \subseteq proven' /\ proven' \subseteq Instances
    <3> HIDE DEF up, count
    <3> QED BY <1>0, <2>4
  <2> HIDE DEF r, up, count, health, due, c, o, f
  <2>13. row' = row /\ events' = events /\ UNCHANGED <<hosts, manager, node, fresh, adm, tables>>
    BY <1>5 DEF Probe
  <2> QED BY <1>0, <2>3, <2>5, <2>7, <2>9, <2>10, <2>11, <2>12, <2>13, CheckerKeeps
<1>6. ASSUME NEW done \in BOOLEAN, SetHealth(g, done) PROVE IInv'
  <2> DEFINE c == [chk[g] EXCEPT !.pc = "probe", !.cur = None, !.health = "unknown"]
             i == chk[g].cur
  <2>0. i \in Instances /\ chk[g].health \in Health /\ (chk[g].health = "healthy" => i \in proven)
    BY <1>2, <1>6 DEF SetHealth, Check
  <2>1. c \in Check /\ c.pc = "probe"
    BY <1>2 DEF Check, Health
  <2>2. chk' = [chk EXCEPT ![g] = c]
    BY <1>1, <1>6 DEF SetHealth, TypeOK
  <2>3. events' \in 0..MaxEvents
    BY <1>1, <1>6, EventType DEF SetHealth
  <2>4. oks' = [oks EXCEPT ![g] = oks[g]] /\ fails' = [fails EXCEPT ![g] = fails[g]]
    BY <1>2, <1>6 DEF SetHealth
  <2>5. /\ row' \in [Instances -> Row \cup {None}]
        /\ \A j \in Instances : row'[j] = None \/ row'[j].health # "healthy" \/ j \in proven
    <3>1. row' = IF done /\ row[i] # None THEN [row EXCEPT ![i].health = chk[g].health] ELSE row
      BY <1>6 DEF SetHealth
    <3> DEFINE new == [row[i] EXCEPT !.health = chk[g].health]
    <3>2. CASE done /\ row[i] # None
      <4>1. new \in Row /\ new.health = chk[g].health
        BY <1>0, <2>0, <3>2 DEF Row
      <4>2. row' = [row EXCEPT ![i] = new]
        BY <3>1, <3>2
      <4> HIDE DEF new, i
      <4> QED BY <1>0, <2>0, <4>1, <4>2
    <3> QED BY <1>0, <3>1, <3>2
  <2> HIDE DEF c, i
  <2> QED BY <1>0, <1>2, <1>6, <2>1, <2>2, <2>3, <2>4, <2>5, CheckerKeeps DEF SetHealth
<1> QED BY <1>3, <1>4, <1>5, <1>6 DEF Checking

------------------------------------------------------------------------------
\* A pool in hand or installed holds proved instances only.
LEMMA TableStep ==
  ASSUME IInv, NEW g \in Gateways,
         GatewayRestarts(g) \/ \E b \in Builders : Building(g, b)
  PROVE  IInv'
<1> USE DEF hosts, manager, rows
<1>1. TypeOK /\ Shapes /\ HealthProven /\ ProvenOnly
  BY DEF IInv
<1>2. \A i \in Instances : Believed(row[i], i) /\ (row[i] = None \/ row[i] \in Row)
  BY <1>1 DEF HealthProven, TypeOK
<1>3. (adm # None => Believed(adm.row, adm.inst))
  BY <1>1 DEF HealthProven
<1>4. ASSUME NEW b \in Builders, NEW new \in Rebuild, reb' = [reb EXCEPT ![g][b] = new],
             \A i \in Instances : new.pool[i] # None => i \in proven,
             events' \in 0..MaxEvents, table' \in [Gateways -> Routes],
             \A h \in Gateways, i \in Instances : table'[h][i] # None => i \in proven,
             UNCHANGED <<hosts, manager, rows, checkers>>
      PROVE  IInv'
  <2>1. TypeOK'
    BY <1>1, <1>4 DEF TypeOK, checkers
  <2>2. Shapes'
    BY <1>1, <1>4 DEF Shapes, checkers
  <2>3. \A h \in Gateways, c \in Builders, i \in Instances : reb'[h][c].pool[i] # None => i \in proven
    BY <1>1, <1>4 DEF HealthProven, TypeOK
  <2>4. HealthProven'
    BY <1>1, <1>4, <2>3 DEF HealthProven, Believed, checkers
  <2>5. ProvenOnly'
    BY <1>4 DEF ProvenOnly, checkers
  <2> QED BY <2>1, <2>2, <2>4, <2>5 DEF IInv
<1>5. ASSUME NEW b \in Builders, ReadInstances(g, b) PROVE IInv'
  <2> DEFINE pool == [i \in Instances |-> IF IsRoutable(row[i]) THEN row[i].port ELSE None]
             new  == [pc |-> "nodes", pool |-> pool]
  <2>1. pool \in Routes /\ \A i \in Instances : pool[i] # None => i \in proven
    BY <1>2 DEF Routes, IsRoutable, Row, Believed
  <2>2. new \in Rebuild /\ new.pool = pool
    BY <2>1 DEF Rebuild
  <2>3. events' \in 0..MaxEvents
    <3>1. (b = "api") \in BOOLEAN
      OBVIOUS
    <3> QED BY <1>1, <1>5, <3>1, EventType DEF ReadInstances
  <2>4. reb' = [reb EXCEPT ![g][b] = new]
    BY <1>5 DEF ReadInstances
  <2>5. UNCHANGED <<hosts, manager, rows, checkers, table>>
    BY <1>5 DEF ReadInstances
  <2> HIDE DEF pool, new
  <2> QED BY <1>1, <1>4, <2>1, <2>2, <2>3, <2>4, <2>5 DEF TypeOK, ProvenOnly
<1>6. ASSUME NEW b \in Builders, ReadNodes(g, b) PROVE IInv'
  <2> DEFINE old  == reb[g][b].pool
             pool == [i \in Instances |-> IF node[On[i]] = "online" THEN old[i] ELSE None]
             new  == [pc |-> "swap", pool |-> pool]
  <2>0. old \in Routes /\ \A i \in Instances : old[i] # None => i \in proven
    BY <1>1 DEF TypeOK, Rebuild, HealthProven
  <2>1. pool \in Routes /\ \A i \in Instances : pool[i] # None => i \in proven
    BY <2>0 DEF Routes
  <2>2. new \in Rebuild /\ new.pool = pool
    BY <2>1 DEF Rebuild
  <2>4. reb' = [reb EXCEPT ![g][b] = new]
    BY <1>1, <1>6 DEF ReadNodes, TypeOK
  <2>5. UNCHANGED <<hosts, manager, rows, checkers, table, events>>
    BY <1>6 DEF ReadNodes
  <2> HIDE DEF old, pool, new
  <2> QED BY <1>1, <1>4, <2>1, <2>2, <2>4, <2>5 DEF TypeOK, ProvenOnly
<1>7. ASSUME NEW b \in Builders, Swap(g, b) PROVE IInv'
  <2> DEFINE old == reb[g][b].pool
  <2>0. old \in Routes /\ \A i \in Instances : old[i] # None => i \in proven
    BY <1>1 DEF TypeOK, Rebuild, HealthProven
  <2>1. table' = [table EXCEPT ![g] = old]
    BY <1>7 DEF Swap
  <2>2. reb' = [reb EXCEPT ![g][b] = NoRebuild] /\ UNCHANGED <<hosts, manager, rows, checkers, events>>
    BY <1>7 DEF Swap
  <2>3. \A i \in Instances : NoRebuild.pool[i] = None
    BY DEF NoRebuild, NoRoutes
  <2> HIDE DEF old
  <2>4. table' \in [Gateways -> Routes] /\ \A h \in Gateways, i \in Instances : table'[h][i] # None => i \in proven
    BY <1>1, <2>0, <2>1 DEF TypeOK, ProvenOnly
  <2> QED BY <1>1, <1>4, <2>2, <2>3, <2>4, Blank DEF TypeOK
<1>8. ASSUME NEW b \in Builders, RebuildFails(g, b) PROVE IInv'
  <2>1. reb' = [reb EXCEPT ![g][b] = NoRebuild] /\ UNCHANGED <<hosts, manager, rows, checkers, table>>
    BY <1>8 DEF RebuildFails
  <2>2. \A i \in Instances : NoRebuild.pool[i] = None
    BY DEF NoRebuild, NoRoutes
  <2>3. events' \in 0..MaxEvents
    BY <1>1, <1>8, EventUp DEF RebuildFails
  <2> QED BY <1>1, <1>4, <2>1, <2>2, <2>3, Blank DEF TypeOK, ProvenOnly
<1>9. ASSUME GatewayRestarts(g) PROVE IInv'
  <2> DEFINE idle == [b \in Builders |-> NoRebuild]
  <2>1. idle \in [Builders -> Rebuild] /\ \A b \in Builders, i \in Instances : idle[b].pool[i] = None
    BY Blank DEF NoRebuild, NoRoutes
  <2>2. reb' = [reb EXCEPT ![g] = idle]
    BY <1>9 DEF GatewayRestarts
  <2> HIDE DEF idle
  <2>3. TypeOK'
    BY <1>1, <1>9, <2>1, <2>2, Blank, EventUp DEF GatewayRestarts, TypeOK
  <2>4. Shapes'
    BY <1>1, <1>9 DEF GatewayRestarts, Shapes, TypeOK, NoCheck
  <2>5. \A h \in Gateways, b \in Builders, i \in Instances : reb'[h][b].pool[i] # None => i \in proven
    BY <1>1, <2>1, <2>2 DEF HealthProven, TypeOK
  <2>6. \A h \in Gateways, i \in Instances : oks'[h][i] = SuccessThreshold => i \in proven
    <3>1. \A i \in Instances : Zero[i] # SuccessThreshold
      BY RoutingAssumption DEF Zero
    <3> QED BY <1>1, <1>9, <3>1 DEF GatewayRestarts, HealthProven, TypeOK
  <2>7. \A h \in Gateways : chk'[h].pc = "set" /\ chk'[h].health = "healthy" => chk'[h].cur \in proven
    BY <1>1, <1>9 DEF GatewayRestarts, HealthProven, TypeOK, NoCheck
  <2>8. HealthProven'
    BY <1>1, <1>9, <2>5, <2>6, <2>7 DEF GatewayRestarts, HealthProven, Believed
  <2>9. ProvenOnly'
    BY <1>1, <1>9 DEF GatewayRestarts, ProvenOnly, TypeOK, NoRoutes
  <2> QED BY <2>3, <2>4, <2>8, <2>9 DEF IInv
<1> QED BY <1>5, <1>6, <1>7, <1>8, <1>9 DEF Building

------------------------------------------------------------------------------
LEMMA Stutter == ASSUME IInv, UNCHANGED vars PROVE IInv'
<1> USE DEF vars
<1>1. TypeOK'
  BY DEF IInv, TypeOK
<1>2. Shapes'
  BY DEF IInv, Shapes
<1>3. HealthProven' /\ ProvenOnly'
  BY Untouched DEF checkers, tables
<1> QED BY <1>1, <1>2, <1>3 DEF IInv

LEMMA Step == IInv /\ [Next]_vars => IInv'
<1> SUFFICES ASSUME IInv, [Next]_vars PROVE IInv'
  OBVIOUS
<1>1. CASE Observing
  BY <1>1, HostsStep, ReportsStep DEF Observing
<1>2. CASE Administering
  BY <1>2, HostsStep, AdminStep DEF Administering
<1>3. CASE Changing
  BY <1>3, HostsStep, TableStep DEF Changing
<1>4. ASSUME NEW g \in Gateways, Checking(g) PROVE IInv'
  BY <1>4, CheckerStep
<1>5. ASSUME NEW g \in Gateways, NEW b \in Builders, Building(g, b) PROVE IInv'
  BY <1>5, TableStep
<1>6. CASE UNCHANGED vars
  BY <1>6, Stutter
<1> QED BY <1>1, <1>2, <1>3, <1>4, <1>5, <1>6 DEF Next

\* The invariant of the routing path: health is written, copied and routed on
\* only for instances that have answered the checker.
THEOREM Invariance == Spec => []IInv
  BY InitInv, Step, PTL DEF Spec

\* No gateway ever routes to an instance that has not answered SuccessThreshold
\* probes in a row, whatever gateways, nodes and instances there are.
THEOREM RoutesAreProven == Spec => []ProvenOnly
<1>1. IInv => ProvenOnly
  BY DEF IInv
<1> QED BY Invariance, <1>1, PTL

==============================================================================
