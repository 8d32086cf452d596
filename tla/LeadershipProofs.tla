--------------------------- MODULE LeadershipProofs ---------------------------
(***************************************************************************)
(* The inductive invariant of Leadership, and what follows from it for any *)
(* number of instances and troubles, with or without a Redis.              *)
(***************************************************************************)
EXTENDS Leadership, TLAPS

\* A trouble is counted up to its bound.
LEMMA EventType == ASSUME TypeOK, Event PROVE events' \in 0..MaxEvents
  BY BoundAssumption DEF TypeOK, Event

\* What a step does to the history and its count keeps their types, and what is
\* no longer calm does not become so.
LEMMA TroubleTypes ==
  ASSUME TypeOK, Smooth \/ RedisFails \/ DatabaseFails
  PROVE  events' \in 0..MaxEvents /\ calm' \in BOOLEAN /\ (calm' => calm)
<1>1. CASE Smooth
  BY <1>1 DEF TypeOK, Smooth
<1>2. CASE RedisFails
  BY <1>2, EventType DEF RedisFails
<1>3. CASE DatabaseFails
  <2>1. calm' = calm /\ calm \in BOOLEAN
    BY <1>3 DEF DatabaseFails, TypeOK
  <2>2. events' \in 0..MaxEvents
    BY <1>3, EventType DEF DatabaseFails
  <2>. QED BY <2>1, <2>2
<1>. QED BY <1>1, <1>2, <1>3

\* A row takes the role of a leader, or stays as it is.
LEMMA UpdateRoleTypes ==
  ASSUME TypeOK, NEW g \in Gateways, UpdateRole(g)
  PROVE  /\ role' \in [Gateways -> {"none", "leader", "follower"}]
         /\ lease' \in [Gateways -> {"unset", "valid", "expired"}]
         /\ Smooth \/ DatabaseFails
  BY DEF TypeOK, UpdateRole

\* An instance that tries to acquire calls the one or the other.
LEMMA AcquireType == Acquire \in {"setnx", "acquireDB"} /\ (Redis => Acquire = "setnx")
  BY DEF Acquire

\* Every step keeps the types.
LEMMA TypeStep == ASSUME TypeOK, [Next]_vars PROVE TypeOK'
<1>1. CASE UNCHANGED vars
  BY <1>1 DEF TypeOK, vars
<1>2. CASE KeyExpires
  BY <1>2, TroubleTypes DEF TypeOK, KeyExpires
<1>3. ASSUME NEW g \in Gateways, Start(g) \/ Exit(g) \/ Step(g) \/ LeaseExpires(g) PROVE TypeOK'
  <2>1. CASE Start(g)
    BY <2>1 DEF TypeOK, Start, Goto, PC
  <2>2. CASE Exit(g)
    BY <2>2, EventType DEF TypeOK, Exit, Goto, PC
  <2>3. CASE LeaseExpires(g)
    BY <2>3, TroubleTypes DEF TypeOK, LeaseExpires
  <2>4. CASE Registered(g)
    BY <2>4, TroubleTypes DEF TypeOK, Registered, Goto, PC
  <2>5. CASE Tick(g)
    BY <2>5, AcquireType DEF TypeOK, Tick, Goto, PC
  <2>6. CASE Get(g)
    BY <2>6, TroubleTypes DEF TypeOK, Get, Goto, PC
  <2>7. CASE Expire(g)
    BY <2>7, TroubleTypes DEF TypeOK, Expire, Goto, PC
  <2>8. CASE Renewed(g)
    BY <2>8, UpdateRoleTypes, TroubleTypes DEF TypeOK, Renewed, Goto, PC
  <2>9. CASE RenewDB(g)
    BY <2>9, AcquireType, TroubleTypes DEF TypeOK, RenewDB, Goto, PC
  <2>10. CASE SetNX(g)
    BY <2>10, TroubleTypes DEF TypeOK, SetNX, Goto, PC
  <2>11. CASE AcquireDB(g)
    BY <2>11, TroubleTypes DEF TypeOK, AcquireDB, Goto, PC
  <2>12. CASE Won(g)
    BY <2>12, UpdateRoleTypes, TroubleTypes DEF TypeOK, Won, Goto, PC
  <2>. QED BY <1>3, <2>1, <2>2, <2>3, <2>4, <2>5, <2>6, <2>7, <2>8, <2>9, <2>10, <2>11, <2>12 DEF Step
<1>. QED BY <1>1, <1>2, <1>3 DEF Next

\* Without the calm, or without a Redis, the strengthening says nothing, and it
\* does not come back: it is enough to look at steps that leave the calm.
LEMMA CalmStays == ASSUME TypeOK, [Next]_vars, calm' PROVE calm
<1>1. CASE KeyExpires
  BY <1>1, TroubleTypes DEF KeyExpires
<1>2. ASSUME NEW g \in Gateways, Step(g) PROVE calm
  BY <1>2, TroubleTypes, UpdateRoleTypes
     DEF Step, Registered, Tick, Get, Expire, Renewed, RenewDB, SetNX, AcquireDB, Won
<1>3. ASSUME NEW g \in Gateways, Start(g) \/ Exit(g) \/ LeaseExpires(g) PROVE calm
  BY <1>3, TroubleTypes DEF Start, Exit, LeaseExpires
<1>. QED BY <1>1, <1>2, <1>3 DEF Next, vars

\* With a Redis that answers the lock goes with those who keep it, and no tick
\* falls back.
LEMMA CalmStep ==
  ASSUME IInv, [Next]_vars, calm', Redis, NEW h \in Gateways
  PROVE  /\ Keeps(h)' => key' = h
         /\ pc'[h] \notin {"renewDB", "acquireDB"}
         /\ pc'[h] = "get" => leader'[h]
<1>. DEFINE Good == /\ Keeps(h)' => key' = h
                    /\ pc'[h] \notin {"renewDB", "acquireDB"}
                    /\ pc'[h] = "get" => leader'[h]
<1>a. TypeOK /\ calm
  BY CalmStays DEF IInv
<1>b. \A g \in Gateways : Keeps(g) => key = g
  BY <1>a DEF IInv, LeaderHasKey
<1>c. \A g \in Gateways : ~FallsBack(g)
  BY <1>a DEF IInv, NoFallback
<1>0. /\ TypeOK
      /\ \A g \in Gateways : /\ Keeps(g) => key = g
                             /\ pc[g] \notin {"renewDB", "acquireDB"}
                             /\ pc[g] = "get" => leader[g]
  BY <1>a, <1>b, <1>c DEF FallsBack
<1>. SUFFICES Good
  OBVIOUS
<1>1. CASE UNCHANGED vars
  BY <1>0, <1>1 DEF vars, Keeps
<1>2. CASE KeyExpires
  <2>1. ~Keeps(key)
    BY <1>2 DEF KeyExpires, RedisFails
  <2>2. ~Keeps(h) /\ UNCHANGED <<pc, leader>>
    BY <1>0, <1>2, <2>1 DEF KeyExpires
  <2>. QED BY <1>0, <2>2 DEF Keeps
<1>3. ASSUME NEW g \in Gateways, Start(g) \/ Exit(g) \/ Step(g) \/ LeaseExpires(g) PROVE Good
  <2>1. CASE Start(g)
    BY <1>0, <2>1 DEF TypeOK, Start, Goto, Keeps
  <2>2. CASE Exit(g)
    BY <1>0, <2>2 DEF TypeOK, Exit, Goto, Keeps
  <2>3. CASE LeaseExpires(g)
    BY <1>0, <2>3 DEF TypeOK, LeaseExpires, Keeps
  <2>4. CASE Registered(g)
    BY <1>0, <2>4 DEF TypeOK, Registered, Goto, Keeps
  <2>5. CASE Tick(g)
    BY <1>0, <2>5, AcquireType DEF TypeOK, Tick, Goto, Keeps
  <2>6. CASE Get(g)
    \* The instance that looks leads, so the key is its own.
    <3>1. key = g /\ g # Nobody
      BY <1>0, <2>6, GatewayAssumption DEF Get, Keeps
    <3>2. Goto(g, "expire") /\ UNCHANGED <<leader, key>>
      BY <2>6, <3>1 DEF Get, RedisFails
    <3>. QED BY <1>0, <3>2 DEF TypeOK, Goto, Keeps
  <2>7. CASE Expire(g)
    BY <1>0, <2>7 DEF TypeOK, Expire, Goto, Keeps, RedisFails
  <2>8. CASE Renewed(g)
    BY <1>0, <2>8 DEF TypeOK, Renewed, Goto, Keeps
  <2>9. CASE RenewDB(g)
    BY <1>0, <2>9 DEF RenewDB
  <2>10. CASE SetNX(g)
    <3>1. CASE key = Nobody
      \* Nobody keeps the lock, so the one who takes it is the only one.
      <4>1. ~Keeps(h)
        BY <1>0, <3>1, GatewayAssumption
      <4>2. key' = g /\ Goto(g, "won") /\ UNCHANGED leader
        BY <2>10, <3>1 DEF SetNX, RedisFails
      <4>. QED BY <1>0, <4>1, <4>2 DEF TypeOK, Goto, Keeps
    <3>2. CASE key # Nobody
      <4>1. Goto(g, "idle") /\ UNCHANGED <<leader, key>>
        BY <2>10, <3>2 DEF SetNX, RedisFails
      <4>. QED BY <1>0, <4>1 DEF TypeOK, Goto, Keeps
    <3>. QED BY <3>1, <3>2
  <2>11. CASE AcquireDB(g)
    BY <1>0, <2>11 DEF AcquireDB
  <2>12. CASE Won(g)
    BY <1>0, <2>12 DEF TypeOK, Won, Goto, Keeps
  <2>. QED BY <1>3, <2>1, <2>2, <2>3, <2>4, <2>5, <2>6, <2>7, <2>8, <2>9, <2>10, <2>11, <2>12 DEF Step
<1>. QED BY <1>1, <1>2, <1>3 DEF Next

\* The first states: nobody runs, nobody leads.
LEMMA InitIInv == ASSUME Init PROVE IInv
  BY BoundAssumption DEF Init, IInv, TypeOK, LeaderHasKey, NoFallback, FallsBack, Keeps, PC

\* Every step keeps the strengthened invariant.
LEMMA NextIInv == ASSUME IInv, [Next]_vars PROVE IInv'
<1>1. TypeOK'
  BY TypeStep DEF IInv
<1>2. LeaderHasKey'
  BY CalmStep DEF LeaderHasKey
<1>3. NoFallback'
  BY CalmStep DEF NoFallback, FallsBack
<1>. QED BY <1>1, <1>2, <1>3 DEF IInv

\* The strengthened invariant (what an instance of package ha is about to call
\* fits who has the lock) holds of every reachable state.
THEOREM Invariance == Spec => []IInv
<1>1. Init => IInv
  BY InitIInv
<1>2. IInv /\ [Next]_vars => IInv'
  BY NextIInv
<1>. QED BY <1>1, <1>2, PTL DEF Spec

\* The state keeps its types.
THEOREM TypeCorrect == Spec => []TypeOK
<1>1. IInv => TypeOK
  BY DEF IInv
<1>. QED BY <1>1, Invariance, PTL

\* While Redis answers and instances are in time there is at most one leader
\* (Coordinator.isLeader), for any number of instances.
THEOREM AtMostOneLeader == Spec => []OneLeader
<1>1. IInv => OneLeader
  BY DEF IInv, LeaderHasKey, OneLeader, Leaders, Keeps
<1>. QED BY <1>1, Invariance, PTL

\* Then no tick deposes a leader: neither the database nor the others can.
THEOREM OnlyItsEndDeposes == Spec => LeadsToItsEnd
<1>1. ASSUME IInv, [Next]_vars
      PROVE  [\A g \in Gateways :
                leader[g] /\ calm' /\ Redis => leader'[g] \/ pc'[g] = "down"]_vars
  <2>. SUFFICES ASSUME NEW h \in Gateways, leader[h], calm', Redis
                PROVE  leader'[h] \/ pc'[h] = "down"
    OBVIOUS
  <2>a. TypeOK /\ calm
    BY <1>1, CalmStays DEF IInv
  <2>b. \A g \in Gateways : Keeps(g) => key = g
    BY <1>1, <2>a DEF IInv, LeaderHasKey
  <2>c. \A g \in Gateways : ~FallsBack(g)
    BY <1>1, <2>a DEF IInv, NoFallback
  <2>0. TypeOK /\ key = h /\ h # Nobody /\ pc[h] \notin {"renewDB", "acquireDB"}
    BY <2>a, <2>b, <2>c, GatewayAssumption DEF Keeps, FallsBack
  <2>1. CASE UNCHANGED vars \/ KeyExpires
    BY <2>1 DEF vars, KeyExpires
  <2>2. ASSUME NEW g \in Gateways, Start(g) \/ Exit(g) \/ Step(g) \/ LeaseExpires(g)
        PROVE  leader'[h] \/ pc'[h] = "down"
    <3>1. CASE Start(g) \/ LeaseExpires(g) \/ Registered(g) \/ Tick(g) \/ Renewed(g)
               \/ SetNX(g) \/ AcquireDB(g)
      BY <3>1 DEF Start, LeaseExpires, Registered, Tick, Renewed, SetNX, AcquireDB
    <3>2. CASE Exit(g)
      BY <2>0, <3>2 DEF TypeOK, Exit, Goto
    <3>3. CASE Get(g)
      BY <2>0, <3>3 DEF TypeOK, Get
    <3>4. CASE Expire(g)
      BY <2>0, <3>4 DEF TypeOK, Expire, Goto
    <3>5. CASE RenewDB(g)
      BY <2>0, <3>5 DEF TypeOK, RenewDB
    <3>6. CASE Won(g)
      BY <2>0, <3>6 DEF TypeOK, Won
    <3>. QED BY <2>2, <3>1, <3>2, <3>3, <3>4, <3>5, <3>6 DEF Step
  <2>. QED BY <1>1, <2>1, <2>2 DEF Next
<1>. QED BY <1>1, Invariance, PTL DEF Spec, LeadsToItsEnd
===============================================================================
