--------------------------- MODULE ReconcilerProofs ---------------------------
(***************************************************************************)
(* The inductive invariant of Reconciler, and what follows from it for any *)
(* number of instances, nodes, versions, replicas, operations and          *)
(* troubles.                                                               *)
(***************************************************************************)
EXTENDS Reconciler, FiniteSetTheorems, TLAPS

\* A container that is not there is a container.
LEMMA NoContainerType == NoContainer \in Container /\ NoContainer.at = "free"
<1>1. /\ (CHOOSE v \in Versions : TRUE) \in Versions
      /\ (CHOOSE n \in Nodes : TRUE) \in Nodes
      /\ (CHOOSE k \in Indexes : TRUE) \in Indexes
  BY BoundAssumption
<1>. QED BY <1>1 DEF NoContainer, Container

\* None is no desired state and no instance.
LEMMA NoneIsNone == None \notin States /\ None \notin Instances /\ None \notin Versions
  BY NoneAssumption DEF States

\* A set of instances is finite.
LEMMA InstancesAreFinite ==
  ASSUME NEW S \in SUBSET Instances
  PROVE  IsFiniteSet(S) /\ Cardinality(S) \in Nat
  BY InstanceAssumption, FS_Subset, FS_CardinalityType

\* Fewer instances are no more.
LEMMA FewerInstances ==
  ASSUME NEW T \in SUBSET Instances, NEW S \in SUBSET T
  PROVE  Cardinality(S) <= Cardinality(T)
  BY InstancesAreFinite, FS_Subset

\* One more instance is at most one more.
LEMMA OneMoreInstance ==
  ASSUME NEW T \in SUBSET Instances, NEW i \in Instances, NEW S \in SUBSET (T \cup {i})
  PROVE  Cardinality(S) <= Cardinality(T) + 1
<1>1. IsFiniteSet(T) /\ Cardinality(T) \in Nat /\ Cardinality(S) \in Nat /\ Cardinality(T \cup {i}) \in Nat
  BY InstancesAreFinite, S \in SUBSET Instances, T \cup {i} \in SUBSET Instances
<1>2. Cardinality(S) <= Cardinality(T \cup {i})
  BY FewerInstances, T \cup {i} \in SUBSET Instances
<1>3. Cardinality(T \cup {i}) = IF i \in T THEN Cardinality(T) ELSE Cardinality(T) + 1
  BY <1>1, FS_AddElement
<1>. QED BY <1>1, <1>2, <1>3

\* Three sets of instances cover no more than they count.
LEMMA ThreeCover ==
  ASSUME NEW A \in SUBSET Instances, NEW B \in SUBSET Instances, NEW C \in SUBSET Instances,
         NEW S \in SUBSET (A \cup B \cup C)
  PROVE  Cardinality(S) <= Cardinality(A) + Cardinality(B) + Cardinality(C)
<1>1. /\ IsFiniteSet(A) /\ IsFiniteSet(B) /\ IsFiniteSet(C)
      /\ Cardinality(A) \in Nat /\ Cardinality(B) \in Nat /\ Cardinality(C) \in Nat
  BY InstancesAreFinite
<1>2. /\ IsFiniteSet(A \cup B) /\ Cardinality(A \cap B) \in Nat
      /\ Cardinality(A \cup B) = Cardinality(A) + Cardinality(B) - Cardinality(A \cap B)
  BY <1>1, FS_Union, InstancesAreFinite, A \cap B \in SUBSET Instances
<1>3. /\ Cardinality((A \cup B) \cap C) \in Nat
      /\ Cardinality((A \cup B) \cup C) = Cardinality(A \cup B) + Cardinality(C) - Cardinality((A \cup B) \cap C)
  BY <1>1, <1>2, FS_Union, InstancesAreFinite, (A \cup B) \cap C \in SUBSET Instances
<1>4. Cardinality(A \cup B) \in Nat /\ Cardinality(S) \in Nat /\ Cardinality((A \cup B) \cup C) \in Nat
  BY InstancesAreFinite, A \cup B \in SUBSET Instances, S \in SUBSET Instances, (A \cup B) \cup C \in SUBSET Instances
<1>5. Cardinality(S) <= Cardinality((A \cup B) \cup C)
  BY FewerInstances, (A \cup B) \cup C \in SUBSET Instances
<1>. QED BY <1>1, <1>2, <1>3, <1>4, <1>5

\* Onward only moves the round to what is next, which is a creation only when some
\* replica is left to create.
LEMMA OnwardFields ==
  ASSUME NEW r \in Round
  PROVE  /\ Onward(r) \in Round
         /\ Onward(r).pc \in {"recycle", "surge", "stop", "settle"}
         /\ Onward(r).pc = "surge" => r.left > 0
         /\ Onward(r).want = r.want /\ Onward(r).used = r.used /\ Onward(r).dead = r.dead
         /\ Onward(r).victims = r.victims /\ Onward(r).left = r.left /\ Onward(r).cur = r.cur
         /\ Onward(r).counted = r.counted /\ Onward(r).healthy = r.healthy
  BY DEF Onward, Round

\* Failures are counted up to the limit.
LEMMA FailuresType ==
  ASSUME TypeOK, NEW n \in Nat, NoteFailures(n)
  PROVE  failures' \in 0..MaxFailures /\ failed' \in BOOLEAN
  BY BoundAssumption DEF TypeOK, NoteFailures

\* A round that is idle.
LEMMA IdleType == Idle \in Round /\ Idle.pc = "idle" /\ Idle.left = 0 /\ Idle.victims = {}
  BY DEF Idle, Round

------------------------------------------------------------------------------
(* Steps that leave the snapshot alone and give the round nothing new to   *)
(* do.                                                                     *)

\* How containers may move: none comes to be, none goes back.
Moves ==
  /\ lost => lost'
  /\ revived => revived'
  /\ \A i \in Instances :
       /\ cont'[i].version = cont[i].version /\ cont'[i].index = cont[i].index
       /\ Holds(i)' => Holds(i)
       /\ Live(i)' => Live(i) \/ revived'
       /\ cont[i].at \in {"created", "running", "exited", "failed", "gone"}
            => cont'[i].at \in {"created", "running", "exited", "failed", "gone"}
       /\ cont[i].at \in {"running", "exited", "gone"} => cont'[i].at \in {"running", "exited", "gone"}

\* Pending replicas stay so, unless they leave or it has been noted that they are lost.
PendingStays ==
  \A i \in Instances : ~lost' /\ Holds(i)' =>
    /\ pending'[i] \in {pending[i], "young"} \/ (Leaving(i) /\ pending'[i] = "none")
    /\ round.pc = "creating" /\ round.cur = i
         => (round'.pc = "creating" /\ round'.cur = i) \/ pending'[i] = "young"

\* The round goes on with what it had.
RoundGoesOn ==
  /\ \A i \in Instances : Leaving(i)' => Leaving(i)
  /\ round'.left > 0 => /\ round'.want = round.want /\ round'.left = round.left
                        /\ round'.used = round.used

\* What has been seen stays true of containers that move.
LEMMA MovesKeepSeen ==
  ASSUME TypeOK, Moves, SeenWas(snap), SeenWas(tick.saw), UNCHANGED observerVars
  PROVE  SeenWas(snap)' /\ SeenWas(tick.saw)'
  BY DEF TypeOK, Moves, SeenWas, observerVars

\* No version gets more containers, or others.
LEMMA MovesKeepOf ==
  ASSUME TypeOK, Moves, NEW goal \in States \cup {None}
  PROVE  /\ {i \in Instances : goal # None /\ cont'[i].version = goal.version} = Of(goal)
         /\ Of(goal) \in SUBSET Instances
  BY DEF Moves, Of

\* Such steps keep the invariant.
LEMMA StaysInvariant ==
  ASSUME IInv, TypeOK', RoundIsReady', Moves, PendingStays, RoundGoesOn, UNCHANGED observerVars
  PROVE  IInv'
<1>. USE DEF IInv
<1>1. SeenWas(snap)' /\ SeenWas(tick.saw)'
  BY MovesKeepSeen
<1>2. Known'
  <2>. SUFFICES ASSUME ~lost', NEW i \in Instances, Holds(i)'
                PROVE  /\ pending'[i] # "old"
                       /\ pending'[i] # "none" \/ snap'[i] # "unseen" \/ (round'.pc = "creating" /\ round'.cur = i)
                       /\ snap'[i] # "unseen" /\ tick'.busy => tick'.saw[i] # "unseen"
                       /\ Leaving(i)' => snap'[i] # "unseen"
    BY DEF Known
  <2>1. ~lost /\ Holds(i) /\ snap' = snap /\ tick' = tick
    BY DEF Moves, observerVars
  <2>2. /\ pending[i] # "old"
        /\ pending[i] # "none" \/ snap[i] # "unseen" \/ (round.pc = "creating" /\ round.cur = i)
        /\ snap[i] # "unseen" /\ tick.busy => tick.saw[i] # "unseen"
        /\ Leaving(i) => snap[i] # "unseen"
    BY <2>1 DEF Known
  <2>. QED BY <2>1, <2>2 DEF PendingStays, RoundGoesOn
<1>3. Counted'
  <2>. SUFFICES ASSUME ~lost', ~revived', NEW i \in Instances, Live(i)'
                PROVE  /\ snap'[i] = "running" /\ tick'.busy => tick'.saw[i] = "running"
                       /\ Leaving(i)' => snap'[i] = "running"
    BY DEF Counted
  <2>1. ~lost /\ ~revived /\ Live(i) /\ snap' = snap /\ tick' = tick
    BY DEF Moves, observerVars
  <2>. QED BY <2>1 DEF Counted, RoundGoesOn
<1>4. EveryReplicaCounts'
  <2>. SUFFICES ASSUME ~lost', ~revived', NEW i \in Instances, Live(i)'
                PROVE  (round'.pc = "creating" /\ round'.cur = i) \/ pending'[i] # "none" \/ snap'[i] = "running"
    BY DEF EveryReplicaCounts
  <2>1. ~lost /\ ~revived /\ Live(i) /\ snap' = snap
    BY DEF Moves, observerVars
  <2>2. (round.pc = "creating" /\ round.cur = i) \/ pending[i] # "none" \/ snap[i] = "running"
    BY <2>1 DEF EveryReplicaCounts
  <2>3. Holds(i)'
    BY DEF Holds
  <2>. QED BY <2>1, <2>2, <2>3 DEF PendingStays, Counted
<1>5. IndexesDiffer'
  BY DEF IndexesDiffer, Moves
<1>6. LeftFits'
  <2>. SUFFICES ASSUME round'.left > 0 PROVE LeftFits'
    BY DEF LeftFits
  <2>1. /\ round'.want = round.want /\ round'.left = round.left /\ round'.used = round.used
        /\ round.want \in States \cup {None} /\ round.want # None
        /\ round.left \in Nat /\ round.want.replicas \in Nat
    BY BoundAssumption DEF RoundGoesOn, TypeOK, Round, RoundIsReady, States
  <2>. DEFINE Was == {i \in Of(round.want) : Live(i)}
              Is  == {i \in Of(round.want) : Live(i)'}
  <2>2. Of(round.want)' = Of(round.want) /\ Of(round.want) \in SUBSET Instances
    BY <2>1, MovesKeepOf DEF Of
  <2>3. ASSUME ~lost', NEW i \in Of(round.want)', Holds(i)' PROVE cont'[i].index \in round'.used
    BY <2>1, <2>2, <2>3 DEF Moves, LeftFits
  <2>4. ASSUME ~lost', ~revived' PROVE Cardinality(Is) + round'.left <= round'.want.replicas
    <3>1. Cardinality(Was) + round.left <= round.want.replicas
      BY <2>1, <2>4 DEF LeftFits, Moves
    <3>2. Is \in SUBSET Was /\ Was \in SUBSET Instances /\ Is \in SUBSET Instances
      BY <2>2, <2>4 DEF Moves
    <3>3. Cardinality(Is) <= Cardinality(Was) /\ Cardinality(Is) \in Nat /\ Cardinality(Was) \in Nat
      BY <3>2, FewerInstances, InstancesAreFinite
    <3>. QED BY <3>1, <3>3, <2>1
  <2>5. {i \in Of(round.want) : Live(i)}' = Is
    BY <2>2
  <2>. QED BY <2>1, <2>2, <2>3, <2>4, <2>5 DEF LeftFits
<1>. QED BY <1>1, <1>2, <1>3, <1>4, <1>5, <1>6

\* In particular those that leave the round and the pending replicas alone.
LEMMA OthersKeepInvariant ==
  ASSUME IInv, TypeOK', Moves, UNCHANGED <<observerVars, pending, round>>
  PROVE  IInv'
<1>1. RoundIsReady'
  BY DEF IInv, RoundIsReady
<1>2. PendingStays /\ RoundGoesOn
  BY DEF PendingStays, RoundGoesOn, Leaving
<1>. QED BY <1>1, <1>2, StaysInvariant DEF observerVars

\* A container that is stopped or removed moves.
LEMMA BecomesMoves ==
  ASSUME TypeOK, NEW i \in Instances, NEW state \in {"exited", "gone"}, Becomes(i, state),
         UNCHANGED historyVars
  PROVE  Moves /\ cont' \in [Instances -> Container] /\ events' \in 0..MaxEvents
<1>1. events' \in 0..MaxEvents
  BY BoundAssumption DEF TypeOK, Becomes, Event, Smooth
<1>2. CASE UNCHANGED cont
  BY <1>1, <1>2 DEF TypeOK, Moves, historyVars, Holds, Live, Exists
<1>3. CASE cont' = [cont EXCEPT ![i].at = IF Exists(i) THEN state ELSE @]
  <2>1. cont' \in [Instances -> Container]
    BY <1>3 DEF TypeOK, Container
  <2>2. \A j \in Instances : j # i => cont'[j] = cont[j]
    BY <1>3 DEF TypeOK
  <2>3. /\ cont'[i].version = cont[i].version /\ cont'[i].index = cont[i].index
        /\ cont'[i].at = IF Exists(i) THEN state ELSE cont[i].at
    BY <1>3 DEF TypeOK, Container
  <2>. QED BY <1>1, <2>1, <2>2, <2>3 DEF Moves, historyVars, Holds, Live, Exists
<1>. QED BY <1>1, <1>2, <1>3 DEF Becomes

\* A container whose state is set as the agent does moves.
LEMMA SetMoves ==
  ASSUME TypeOK, NEW i \in Instances,
         NEW state \in {"created", "running", "exited", "failed", "gone"},
         cont' = [cont EXCEPT ![i].at = state], lost' = lost, revived => revived',
         cont[i].at # "free" /\ cont[i].at # "failed" /\ cont[i].at # "gone",
         cont[i].at = "asked" => state \in {"created", "failed"},
         cont[i].at = "created" => state # "created",
         cont[i].at \in {"running", "exited"} => state \in {"running", "exited", "gone"},
         cont[i].at = "exited" /\ state = "running" => revived'
  PROVE  Moves /\ cont' \in [Instances -> Container]
<1>1. cont' \in [Instances -> Container]
  BY DEF TypeOK, Container
<1>2. \A j \in Instances : j # i => cont'[j] = cont[j]
  BY DEF TypeOK
<1>3. /\ cont'[i].version = cont[i].version /\ cont'[i].index = cont[i].index
      /\ cont'[i].at = state
  BY DEF TypeOK, Container
<1>4. cont[i].at \in {"asked", "created", "running", "exited"}
  BY DEF TypeOK, Container
<1>. QED BY <1>1, <1>2, <1>3, <1>4 DEF Moves, Holds, Live, Exists

------------------------------------------------------------------------------
(* The steps of the agents.                                                *)

LEMMA AgentCreateKeeps ==
  ASSUME IInv, NEW i \in Instances, AgentCreate(i)
  PROVE  IInv'
<1>1. Moves /\ cont' \in [Instances -> Container]
  BY SetMoves DEF IInv, AgentCreate, historyVars
<1>2. TypeOK'
  BY <1>1 DEF IInv, TypeOK, AgentCreate, desiredVars, observerVars, failureVars, historyVars
<1>. QED BY <1>1, <1>2, OthersKeepInvariant DEF AgentCreate, observerVars

LEMMA AgentStartKeeps ==
  ASSUME IInv, NEW i \in Instances, AgentStart(i)
  PROVE  IInv'
<1>1. Moves /\ cont' \in [Instances -> Container]
  BY SetMoves DEF IInv, AgentStart, historyVars
<1>2. TypeOK'
  BY <1>1 DEF IInv, TypeOK, AgentStart, desiredVars, observerVars, failureVars, historyVars
<1>. QED BY <1>1, <1>2, OthersKeepInvariant DEF AgentStart, observerVars

LEMMA AgentFailsKeeps ==
  ASSUME IInv, NEW i \in Instances, AgentFails(i)
  PROVE  IInv'
<1>1. Moves /\ cont' \in [Instances -> Container]
  BY SetMoves DEF IInv, AgentFails, historyVars
<1>2. TypeOK'
  BY <1>1, BoundAssumption
     DEF IInv, TypeOK, AgentFails, Event, desiredVars, observerVars, failureVars, historyVars
<1>. QED BY <1>1, <1>2, OthersKeepInvariant DEF AgentFails, observerVars

LEMMA CrashKeeps ==
  ASSUME IInv, NEW i \in Instances, Crash(i)
  PROVE  IInv'
<1>1. Moves /\ cont' \in [Instances -> Container]
  BY SetMoves DEF IInv, Crash, historyVars
<1>2. TypeOK'
  BY <1>1, BoundAssumption
     DEF IInv, TypeOK, Crash, Event, desiredVars, observerVars, failureVars, historyVars
<1>. QED BY <1>1, <1>2, OthersKeepInvariant DEF Crash, observerVars

------------------------------------------------------------------------------
(* The steps of the gateway and the administrator.                         *)

\* No container moves.
LEMMA NoneMoves ==
  ASSUME TypeOK, UNCHANGED <<cont, historyVars>>
  PROVE  Moves
  BY DEF Moves, historyVars, Holds, Live, Exists

LEMMA OrderType == NoOrder \in Order /\ NoOrder.who = {}
  BY DEF NoOrder, Order

LEMMA AdministratorKeeps ==
  ASSUME IInv,
         \/ \E state \in States : Put(state)
         \/ \E reclaims \in BOOLEAN : Stop(reclaims)
         \/ \E v \in Versions : RemoveVersion(v)
         \/ ReclaimList \/ Mark
  PROVE  IInv'
<1>. USE OrderType, BoundAssumption DEF IInv, TypeOK
<1>1. ASSUME NEW state \in States, Put(state) PROVE IInv'
  <2>1. TypeOK'
    BY <1>1 DEF Put, Operation, Event, Phases, observerVars, failureVars, historyVars
  <2>. QED BY <1>1, <2>1, NoneMoves, OthersKeepInvariant DEF Put
<1>2. ASSUME NEW reclaims \in BOOLEAN, Stop(reclaims) PROVE IInv'
  <2>1. [NoOrder EXCEPT !.op = "list"] \in Order
    BY DEF NoOrder, Order
  <2>2. TypeOK'
    BY <1>2, <2>1 DEF Stop, Operation, Event, Phases, observerVars, failureVars, historyVars
  <2>. QED BY <1>2, <2>2, NoneMoves, OthersKeepInvariant DEF Stop
<1>3. ASSUME NEW v \in Versions, RemoveVersion(v) PROVE IInv'
  <2>1. [NoOrder EXCEPT !.op = "list", !.version = v] \in Order
    BY DEF NoOrder, Order
  <2>2. order' \in Order /\ UNCHANGED <<desiredVars, cont, observerVars, pending, failureVars, round, historyVars>>
    BY <1>3, <2>1 DEF RemoveVersion
  <2>. Event
    BY <1>3 DEF RemoveVersion, Operation
  <2>3. events' \in 0..MaxEvents
    BY DEF Event
  <2>4. TypeOK'
    BY <2>2, <2>3 DEF desiredVars, observerVars, failureVars, historyVars
  <2>. QED BY <2>2, <2>4, NoneMoves, OthersKeepInvariant
<1>4. CASE ReclaimList
  <2>1. ASSUME NEW known \in SUBSET Instances
        PROVE  [NoOrder EXCEPT !.op = "reclaim", !.who = known] \in Order
    BY DEF NoOrder, Order
  <2>2. order' \in Order
    BY <1>4, <2>1 DEF ReclaimList
  <2>3. TypeOK'
    BY <1>4, <2>2 DEF ReclaimList, desiredVars, observerVars, failureVars, historyVars
  <2>. QED BY <1>4, <2>3, NoneMoves, OthersKeepInvariant DEF ReclaimList
<1>5. CASE Mark
  <2>1. order.who \in SUBSET Instances
    BY DEF Order
  <2>2. TypeOK'
    BY <1>5, <2>1 DEF Mark, Event, Smooth, observerVars, failureVars, historyVars
  <2>. QED BY <1>5, <2>2, NoneMoves, OthersKeepInvariant DEF Mark
<1>. QED BY <1>1, <1>2, <1>3, <1>4, <1>5

LEMMA ReclaimKeeps ==
  ASSUME IInv, NEW i \in Instances, Reclaim(i)
  PROVE  IInv'
<1>1. Moves /\ cont' \in [Instances -> Container] /\ events' \in 0..MaxEvents
  BY BecomesMoves DEF IInv, Reclaim
<1>2. order' \in Order
  BY OrderType DEF IInv, TypeOK, Reclaim, Order
<1>3. TypeOK'
  BY <1>1, <1>2 DEF IInv, TypeOK, Reclaim, desiredVars, observerVars, failureVars, historyVars
<1>. QED BY <1>1, <1>3, OthersKeepInvariant DEF Reclaim

LEMMA ControlKeeps ==
  ASSUME IInv, NEW i \in Instances, NEW op \in {"stop", "start", "restart", "remove"}, Control(i, op)
  PROVE  IInv'
<1>1. cont[i].at \in {"created", "running", "exited"}
  BY DEF Control, Exists
<1>2. PICK state \in {"created", "running", "exited", "gone"} :
        /\ cont' = [cont EXCEPT ![i].at = state]
        /\ cont[i].at = "created" => state # "created" \/ UNCHANGED cont
        /\ cont[i].at \in {"running", "exited"} => state \in {"running", "exited", "gone"}
        /\ cont[i].at = "exited" /\ state = "running" => revived'
  <2>1. CASE op = "stop"
    <3>1. cont' = [cont EXCEPT ![i].at = IF cont[i].at = "running" THEN "exited" ELSE cont[i].at]
      BY <2>1 DEF Control
    <3>2. CASE cont[i].at = "running"
      BY <3>1, <3>2
    <3>3. CASE cont[i].at # "running"
      <4>1. cont' = [cont EXCEPT ![i].at = cont[i].at]
        BY <3>1, <3>3
      <4>2. cont' = cont
        BY <4>1 DEF IInv, TypeOK, Container
      <4>. QED BY <4>1, <4>2, <1>1, <3>3
    <3>. QED BY <3>2, <3>3
  <2>2. CASE op = "start"
    BY <2>2, <1>1 DEF Control
  <2>3. CASE op = "restart"
    BY <2>3, <1>1 DEF Control
  <2>4. CASE op = "remove"
    BY <2>4, <1>1 DEF Control
  <2>. QED BY <2>1, <2>2, <2>3, <2>4
<1>3. lost' = lost /\ (revived => revived') /\ revived' \in BOOLEAN
  <2>1. revived \in BOOLEAN /\ lost' = lost
    BY DEF Control, IInv, TypeOK
  <2>2. revived' = revived \/ revived' = TRUE
    BY DEF Control
  <2>. QED BY <2>1, <2>2
<1>4. Moves /\ cont' \in [Instances -> Container]
  <2>1. CASE UNCHANGED cont
    BY <1>3, <2>1 DEF IInv, TypeOK, Moves, Holds, Live, Exists
  <2>2. CASE ~UNCHANGED cont
    BY <1>1, <1>2, <1>3, <2>2, SetMoves DEF IInv
  <2>. QED BY <2>1, <2>2
<1>5. order' \in Order
  <2>1. ASSUME NEW what \in {"pause", "resume", "restart"}
        PROVE  [NoOrder EXCEPT !.op = what, !.who = {i}] \in Order
    BY DEF NoOrder, Order
  <2>2. \/ order' = [NoOrder EXCEPT !.op = "pause", !.who = {i}]
        \/ order' = [NoOrder EXCEPT !.op = "resume", !.who = {i}]
        \/ order' = [NoOrder EXCEPT !.op = "restart", !.who = {i}]
    BY DEF Control
  <2>. QED BY <2>1, <2>2
<1>6. events' \in 0..MaxEvents /\ UNCHANGED <<desiredVars, observerVars, pending, failureVars, round, lost>>
  BY BoundAssumption DEF IInv, TypeOK, Control, Operation, Event
<1>7. TypeOK'
  BY <1>3, <1>4, <1>5, <1>6 DEF IInv, TypeOK, desiredVars, observerVars, failureVars
<1>. QED BY <1>4, <1>6, <1>7, OthersKeepInvariant

LEMMA RestartStartKeeps ==
  ASSUME IInv, RestartStart
  PROVE  IInv'
<1>1. cont' \in [Instances -> Container]
  BY DEF IInv, TypeOK, RestartStart, Container
<1>2. \A i \in Instances :
        /\ cont'[i].version = cont[i].version /\ cont'[i].index = cont[i].index
        /\ cont'[i].at = IF i \in order.who /\ Exists(i) THEN "running" ELSE cont[i].at
  BY DEF IInv, TypeOK, RestartStart, Container
<1>3. lost' = lost /\ revived' = TRUE
  BY DEF RestartStart
<1>4. Moves
  BY <1>2, <1>3 DEF Moves, Holds, Live, Exists
<1>5. order' \in Order
  BY DEF IInv, TypeOK, RestartStart, Order
<1>6. TypeOK'
  BY <1>1, <1>3, <1>5 DEF IInv, TypeOK, RestartStart, desiredVars, observerVars, failureVars
<1>. QED BY <1>4, <1>6, OthersKeepInvariant DEF RestartStart

------------------------------------------------------------------------------
(* The steps of the round that create nothing.                             *)

LEMMA RecycleKeeps ==
  ASSUME IInv, NEW i \in Instances, Recycle(i)
  PROVE  IInv'
<1>. DEFINE r == [round EXCEPT !.dead = @ \ {i}]
<1>1. Moves /\ cont' \in [Instances -> Container] /\ events' \in 0..MaxEvents
  BY BecomesMoves DEF IInv, Recycle
<1>2. /\ r \in Round /\ r.want = round.want /\ r.used = round.used /\ r.left = round.left
      /\ r.victims = round.victims /\ r.cur = round.cur
  BY DEF IInv, TypeOK, Round
<1>3. round' = Onward(r) /\ round.pc = "recycle" /\ UNCHANGED <<pending, observerVars>>
  BY DEF Recycle
<1>. HIDE DEF r
<1>4. RoundIsReady' /\ PendingStays /\ RoundGoesOn
  BY <1>2, <1>3, OnwardFields DEF IInv, RoundIsReady, PendingStays, RoundGoesOn, Leaving
<1>5. TypeOK'
  BY <1>1, <1>2, <1>3, OnwardFields
     DEF IInv, TypeOK, Recycle, desiredVars, observerVars, failureVars, historyVars
<1>. QED BY <1>1, <1>3, <1>4, <1>5, StaysInvariant

LEMMA NoNodeKeeps ==
  ASSUME IInv, NoNode
  PROVE  IInv'
<1>. DEFINE r == [round EXCEPT !.left = 0]
<1>1. Moves
  BY NoneMoves DEF IInv, NoNode
<1>2. /\ r \in Round /\ r.want = round.want /\ r.used = round.used /\ r.left = 0
      /\ r.victims = round.victims /\ r.cur = round.cur
  BY DEF IInv, TypeOK, Round
<1>3. round' = Onward(r) /\ round.pc = "surge" /\ UNCHANGED <<pending, observerVars>>
  BY DEF NoNode
<1>. HIDE DEF r
<1>4. RoundIsReady' /\ PendingStays /\ RoundGoesOn
  BY <1>2, <1>3, OnwardFields DEF IInv, RoundIsReady, PendingStays, RoundGoesOn, Leaving
<1>5. TypeOK'
  BY <1>2, <1>3, OnwardFields, BoundAssumption
     DEF IInv, TypeOK, NoNode, Event, desiredVars, observerVars, failureVars, historyVars
<1>. QED BY <1>1, <1>3, <1>4, <1>5, StaysInvariant

\* The round is done with the replica it was about.
LEMMA DoneWith ==
  ASSUME TypeOK, RoundIsReady,
         round' = Onward([round EXCEPT !.cur = None])
  PROVE  round' \in Round /\ RoundIsReady' /\ RoundGoesOn
<1>. DEFINE r == [round EXCEPT !.cur = None]
<1>1. /\ r \in Round /\ r.want = round.want /\ r.used = round.used /\ r.left = round.left
      /\ r.victims = round.victims
  BY DEF TypeOK, Round
<1>2. round' = Onward(r)
  OBVIOUS
<1>. HIDE DEF r
<1>. QED BY <1>1, <1>2, OnwardFields DEF RoundIsReady, RoundGoesOn, Leaving

LEMMA CreateOkKeeps ==
  ASSUME IInv, CreateOk
  PROVE  IInv'
<1>1. Moves
  BY NoneMoves DEF IInv, CreateOk
<1>2. round' \in Round /\ RoundIsReady' /\ RoundGoesOn
  BY DoneWith DEF IInv, CreateOk
<1>3. round.cur \in Instances /\ round.pc = "creating"
  BY DEF IInv, RoundIsReady, CreateOk
<1>4. pending' = [pending EXCEPT ![round.cur] = "young"]
  BY DEF CreateOk
<1>5. PendingStays
  BY <1>3, <1>4 DEF PendingStays, IInv, TypeOK
<1>6. TypeOK'
  BY <1>2, <1>3, <1>4 DEF IInv, TypeOK, CreateOk, desiredVars, observerVars, failureVars, historyVars
<1>. QED BY <1>1, <1>2, <1>5, <1>6, StaysInvariant DEF CreateOk

LEMMA CreateErrKeeps ==
  ASSUME IInv, CreateErr
  PROVE  IInv'
<1>1. Moves
  BY NoneMoves DEF IInv, CreateErr
<1>2. round' \in Round /\ RoundIsReady' /\ RoundGoesOn
  BY DoneWith DEF IInv, CreateErr
<1>3. cont[round.cur].at \in {"failed", "gone"} /\ UNCHANGED <<cont, pending, observerVars>>
  BY DEF CreateErr
<1>4. PendingStays
  <2>. SUFFICES ASSUME NEW i \in Instances, Holds(i)'
                PROVE  pending'[i] = pending[i] /\ round.cur # i
    BY DEF PendingStays
  <2>. QED BY <1>3 DEF Holds, Live, Exists
<1>5. failures' \in 0..MaxFailures /\ failed' \in BOOLEAN
  BY FailuresType DEF IInv, CreateErr
<1>6. TypeOK'
  BY <1>2, <1>5 DEF IInv, TypeOK, CreateErr, desiredVars, observerVars, historyVars
<1>. QED BY <1>1, <1>2, <1>3, <1>4, <1>6, StaysInvariant

LEMMA CreateTimeoutKeeps ==
  ASSUME IInv, CreateTimeout
  PROVE  IInv'
<1>1. lost' = TRUE /\ UNCHANGED <<cont, pending, observerVars, revived>>
  BY DEF CreateTimeout
<1>2. Moves
  BY <1>1 DEF Moves, Holds, Live, Exists
<1>3. round' \in Round /\ RoundIsReady' /\ RoundGoesOn
  BY DoneWith DEF IInv, CreateTimeout
<1>4. PendingStays
  BY <1>1 DEF PendingStays
<1>5. failures' \in 0..MaxFailures /\ failed' \in BOOLEAN
  BY FailuresType DEF IInv, CreateTimeout
<1>6. TypeOK'
  BY <1>3, <1>5, BoundAssumption
     DEF IInv, TypeOK, CreateTimeout, Event, desiredVars, observerVars
<1>. QED BY <1>1, <1>2, <1>3, <1>4, <1>6, StaysInvariant

LEMMA DrainStopKeeps ==
  ASSUME IInv, NEW i \in Instances, DrainStop(i)
  PROVE  IInv'
<1>1. Moves /\ cont' \in [Instances -> Container] /\ events' \in 0..MaxEvents
  BY BecomesMoves DEF IInv, DrainStop
<1>2. /\ round' \in Round /\ round'.want = round.want /\ round'.used = round.used
      /\ round'.left = round.left /\ round'.victims = round.victims \ {i}
      /\ round'.cur = i /\ round'.pc = "remove" /\ round.pc = "stop" /\ i \in round.victims
      /\ UNCHANGED <<pending, observerVars>>
  BY DEF DrainStop, IInv, TypeOK, Round
<1>3. RoundIsReady' /\ PendingStays /\ RoundGoesOn
  BY <1>2 DEF IInv, RoundIsReady, PendingStays, RoundGoesOn, Leaving
<1>4. TypeOK'
  BY <1>1, <1>2 DEF IInv, TypeOK, DrainStop, desiredVars, observerVars, failureVars, historyVars
<1>. QED BY <1>1, <1>2, <1>3, <1>4, StaysInvariant

LEMMA DrainRemoveKeeps ==
  ASSUME IInv, DrainRemove
  PROVE  IInv'
<1>1. round.cur \in Instances /\ round.pc = "remove"
  BY DEF IInv, RoundIsReady, DrainRemove
<1>2. Moves /\ cont' \in [Instances -> Container] /\ events' \in 0..MaxEvents
  BY <1>1, BecomesMoves DEF IInv, DrainRemove
<1>3. round' \in Round /\ RoundIsReady' /\ RoundGoesOn
  BY DoneWith DEF IInv, DrainRemove
<1>4. pending' = [pending EXCEPT ![round.cur] = "none"] /\ UNCHANGED observerVars
  BY DEF DrainRemove
<1>5. PendingStays
  BY <1>1, <1>4 DEF PendingStays, IInv, TypeOK, Leaving
<1>6. TypeOK'
  BY <1>1, <1>2, <1>3, <1>4
     DEF IInv, TypeOK, DrainRemove, desiredVars, observerVars, failureVars, historyVars
<1>. QED BY <1>2, <1>3, <1>4, <1>5, <1>6, StaysInvariant

LEMMA SettleKeeps ==
  ASSUME IInv, Settle
  PROVE  IInv'
<1>1. Moves
  BY NoneMoves DEF IInv, Settle
<1>2. round' = Idle /\ round.pc = "settle" /\ UNCHANGED <<pending, observerVars>>
  BY DEF Settle
<1>3. RoundIsReady' /\ PendingStays /\ RoundGoesOn
  BY <1>2, IdleType DEF RoundIsReady, PendingStays, RoundGoesOn, Leaving
<1>4. failures' \in 0..MaxFailures /\ failed' \in BOOLEAN
  <2>1. failures' = 0 \/ failures' = failures
    BY DEF Settle, failureVars
  <2>2. failed' = FALSE \/ failed' = failed
    BY DEF Settle, failureVars
  <2>3. failures' \in 0..MaxFailures
    BY <2>1, BoundAssumption DEF IInv, TypeOK
  <2>4. failed' \in BOOLEAN
    BY <2>2 DEF IInv, TypeOK
  <2>. QED BY <2>3, <2>4
<1>5. phase' \in Phases
  BY DEF IInv, TypeOK, Settle, Phases
<1>6. TypeOK'
  BY <1>2, <1>4, <1>5, IdleType DEF IInv, TypeOK, Settle, observerVars, historyVars
<1>. QED BY <1>1, <1>2, <1>3, <1>6, StaysInvariant

LEMMA AgeKeeps ==
  ASSUME IInv, NEW i \in Instances, Age(i)
  PROVE  IInv'
<1>1. /\ UNCHANGED <<cont, observerVars, round, revived>>
      /\ pending' = [pending EXCEPT ![i] = "old"]
  BY DEF Age
<1>2. \/ lost' = lost /\ ~Holds(i) /\ events' = events
      \/ lost' = TRUE /\ events' \in 0..MaxEvents
  BY BoundAssumption DEF IInv, TypeOK, Age, Smooth, Event
<1>3. Moves
  BY <1>1, <1>2 DEF Moves, Holds, Live, Exists
<1>4. RoundIsReady' /\ RoundGoesOn
  BY <1>1 DEF IInv, RoundIsReady, RoundGoesOn, Leaving
<1>5. PendingStays
  BY <1>1, <1>2 DEF PendingStays, IInv, TypeOK, Holds, Live, Exists
<1>6. TypeOK'
  BY <1>1, <1>2 DEF IInv, TypeOK, Age, desiredVars, observerVars, failureVars
<1>. QED BY <1>1, <1>3, <1>4, <1>5, <1>6, StaysInvariant

LEMMA RestartKeeps ==
  ASSUME IInv, Restart
  PROVE  IInv'
<1>1. lost' = TRUE /\ round' = Idle /\ snap' = Unseen /\ tick' = [busy |-> FALSE, saw |-> Unseen]
  BY DEF Restart
<1>2. RoundIsReady' /\ LeftFits'
  BY <1>1, IdleType DEF RoundIsReady, LeftFits
<1>3. SeenWas(snap)' /\ SeenWas(tick.saw)'
  BY <1>1 DEF SeenWas, Unseen
<1>4. Known' /\ Counted' /\ EveryReplicaCounts' /\ IndexesDiffer'
  BY <1>1 DEF Known, Counted, EveryReplicaCounts, IndexesDiffer
<1>5. events' \in 0..MaxEvents /\ failures' \in 0..MaxFailures
  BY BoundAssumption DEF IInv, TypeOK, Restart, Event
<1>6. snap' \in [Instances -> Views] /\ tick' \in [busy : BOOLEAN, saw : [Instances -> Views]]
  BY <1>1 DEF Unseen, Views
<1>7. /\ paused' = {} /\ pending' = [i \in Instances |-> "none"] /\ failed' = FALSE /\ order' = NoOrder
      /\ UNCHANGED <<newestFirst, want, phase, cont, revived>>
  BY DEF Restart
<1>8. TypeOK'
  BY <1>1, <1>5, <1>6, <1>7, IdleType, OrderType DEF IInv, TypeOK
<1>. QED BY <1>2, <1>3, <1>4, <1>8 DEF IInv

------------------------------------------------------------------------------
(* The observer.                                                           *)

LEMMA ListKeeps ==
  ASSUME IInv, NEW skipped \in SUBSET Nodes, List(skipped)
  PROVE  IInv'
<1>. USE DEF IInv
<1>1. /\ UNCHANGED <<desiredVars, cont, snap, pending, failureVars, round, order, revived>>
      /\ tick' = [busy |-> TRUE, saw |-> [i \in Instances |-> IF cont[i].node \in skipped THEN "unseen" ELSE View(i)]]
  BY DEF List
<1>. DEFINE saw == [i \in Instances |-> IF cont[i].node \in skipped THEN "unseen" ELSE View(i)]
<1>0. /\ tick'.busy /\ tick'.saw = saw
      /\ \A i \in Instances : saw[i] = IF cont[i].node \in skipped THEN "unseen" ELSE View(i)
  BY <1>1
<1>. HIDE DEF saw
<1>2. events' \in 0..MaxEvents /\ lost' \in BOOLEAN /\ (lost => lost') /\ (~lost' => skipped = {})
  <2>1. CASE skipped = {}
    BY <2>1 DEF TypeOK, List, Smooth
  <2>2. CASE skipped # {}
    <3>1. lost' = TRUE /\ events < MaxEvents /\ events' = events + 1
      BY <2>2 DEF List, Event
    <3>. QED BY <2>2, <3>1, BoundAssumption DEF TypeOK
  <2>. QED BY <2>1, <2>2
<1>3. TypeOK'
  <2>1. \A i \in Instances : View(i) \in Views
    BY DEF View, Views, Exists
  <2>2. tick' \in [busy : BOOLEAN, saw : [Instances -> Views]]
    BY <2>1 DEF List, Views
  <2>. QED BY <1>1, <1>2, <2>2 DEF TypeOK, desiredVars, failureVars
<1>4. RoundIsReady' /\ IndexesDiffer' /\ EveryReplicaCounts' /\ SeenWas(snap)'
  BY <1>1, <1>2 DEF RoundIsReady, IndexesDiffer, EveryReplicaCounts, SeenWas, Holds, Live, Exists
<1>5. LeftFits'
  <2>1. {i \in Of(round.want) : Live(i)}' = {i \in Of(round.want) : Live(i)} /\ Of(round.want)' = Of(round.want)
    BY <1>1 DEF Of, Live
  <2>. QED BY <1>1, <1>2, <2>1 DEF LeftFits, Holds, Live, Exists
<1>6. SeenWas(tick.saw)'
  <2>1. \A i \in Instances :
          /\ saw[i] # "unseen" => cont[i].at \in {"created", "running", "exited"} /\ saw[i] = cont[i].at
    BY <1>0 DEF View, Exists
  <2>2. SeenWas(saw)
    BY <2>1 DEF SeenWas, Live
  <2>. QED BY <2>2, <1>0, <1>1 DEF SeenWas, Live
<1>7. Known'
  <2>. SUFFICES ASSUME ~lost', NEW i \in Instances, Holds(i), snap[i] # "unseen"
                PROVE  tick'.saw[i] # "unseen"
    BY <1>1, <1>2 DEF Known, Holds, Live, Exists, Leaving
  <2>1. Exists(i) /\ tick'.saw[i] = View(i)
    BY <1>0, <1>2 DEF SeenWas, Holds, Live, Exists
  <2>. QED BY <2>1 DEF View, Exists
<1>8. Counted'
  <2>. SUFFICES ASSUME ~lost', ~revived', NEW i \in Instances, Live(i), snap[i] = "running"
                PROVE  tick'.saw[i] = "running"
    BY <1>1, <1>2 DEF Counted, Live, Leaving
  <2>1. cont[i].at = "running" /\ tick'.saw[i] = View(i)
    BY <1>0, <1>1, <1>2 DEF SeenWas, Live
  <2>. QED BY <2>1 DEF View, Exists
<1>. QED BY <1>3, <1>4, <1>5, <1>6, <1>7, <1>8

LEMMA InstallKeeps ==
  ASSUME IInv, Install
  PROVE  IInv'
<1>. USE DEF IInv
<1>1. /\ UNCHANGED <<desiredVars, pending, failureVars, round, order, events, historyVars>>
      /\ tick.busy /\ snap' = tick.saw /\ tick' = [busy |-> FALSE, saw |-> Unseen]
  BY DEF Install
<1>2. \A i \in Instances : cont'[i] = cont[i]
        \/ (~Holds(i) /\ cont'[i] = NoContainer /\ tick.saw[i] = "unseen")
  BY <1>1 DEF Install, Fresh
<1>3. \A i \in Instances :
        /\ Holds(i)' => Holds(i) /\ cont'[i] = cont[i]
        /\ Live(i)' => Live(i) /\ cont'[i] = cont[i]
        /\ Live(i) => Live(i)'
  BY <1>2, NoContainerType DEF Holds, Live, Exists
<1>4. TypeOK'
  <2>1. cont' \in [Instances -> Container]
    BY NoContainerType DEF Install, TypeOK
  <2>2. tick' \in [busy : BOOLEAN, saw : [Instances -> Views]]
    BY <1>1 DEF Unseen, Views
  <2>. QED BY <1>1, <2>1, <2>2 DEF TypeOK, desiredVars, failureVars, historyVars
<1>5. RoundIsReady'
  BY <1>1 DEF RoundIsReady
<1>6. SeenWas(snap)' /\ SeenWas(tick.saw)'
  <2>1. SeenWas(tick.saw)'
    BY <1>1 DEF SeenWas, Unseen
  <2>2. SeenWas(snap)'
    BY <1>1, <1>2, <1>3 DEF SeenWas, historyVars
  <2>. QED BY <2>1, <2>2
<1>7. Known'
  <2>. SUFFICES ASSUME ~lost', NEW i \in Instances, Holds(i)'
                PROVE  /\ pending'[i] # "old"
                       /\ pending'[i] # "none" \/ snap'[i] # "unseen" \/ (round'.pc = "creating" /\ round'.cur = i)
                       /\ Leaving(i)' => snap'[i] # "unseen"
    BY <1>1 DEF Known
  <2>. QED BY <1>1, <1>3 DEF Known, Leaving, historyVars
<1>8. Counted' /\ EveryReplicaCounts'
  <2>1. ASSUME ~lost', ~revived', NEW i \in Instances, Live(i)'
        PROVE  /\ Leaving(i)' => snap'[i] = "running"
               /\ (round'.pc = "creating" /\ round'.cur = i) \/ pending'[i] # "none" \/ snap'[i] = "running"
    BY <2>1, <1>1, <1>3 DEF Counted, EveryReplicaCounts, Leaving, historyVars
  <2>. QED BY <2>1, <1>1 DEF Counted, EveryReplicaCounts
<1>9. IndexesDiffer'
  BY <1>1, <1>3 DEF IndexesDiffer, historyVars
<1>10. LeftFits'
  <2>1. {i \in Of(round.want) : Live(i)}' = {i \in Of(round.want) : Live(i)}
    BY <1>1, <1>2, <1>3 DEF Of, Holds
  <2>2. \A i \in Of(round.want)' : Holds(i)' => i \in Of(round.want)
    BY <1>1, <1>3 DEF Of
  <2>3. \A i \in Of(round.want)' : i \in Instances
    BY DEF Of
  <2>. QED BY <1>1, <1>3, <2>1, <2>2, <2>3 DEF LeftFits, historyVars
<1>. QED BY <1>4, <1>5, <1>6, <1>7, <1>8, <1>9, <1>10

------------------------------------------------------------------------------
(* The steps of the round that give it something to do.                    *)

\* Where a replica may be created the version has fewer than it asks for.
LEMMA RoomToCreate ==
  ASSUME IInv, round.left > 0, ~lost, ~revived
  PROVE  Cardinality({i \in Of(round.want) : Live(i)}) < round.want.replicas
<1>1. /\ round.left \in Nat /\ round.want \in States /\ round.want.replicas \in Nat
  BY BoundAssumption DEF IInv, TypeOK, Round, RoundIsReady, States
<1>2. Cardinality({i \in Of(round.want) : Live(i)}) \in Nat
  BY InstancesAreFinite, {i \in Of(round.want) : Live(i)} \in SUBSET Instances DEF Of
<1>. QED BY <1>1, <1>2 DEF IInv, LeftFits

LEMMA CreateKeeps ==
  ASSUME IInv, NEW i \in Instances, NEW n \in Nodes, Create(i, n)
  PROVE  IInv'
<1>. USE DEF IInv
<1>1. PICK k \in Indexes \ round.used :
        /\ cont' = [cont EXCEPT ![i] = [at |-> "asked", version |-> round.want.version, node |-> n, index |-> k]]
        /\ round' = [round EXCEPT !.pc = "creating", !.cur = i, !.used = @ \cup {k}, !.left = @ - 1]
  BY DEF Create
<1>2. /\ round.pc = "surge" /\ ~Holds(i) /\ pending[i] = "none"
      /\ snap[i] = "unseen" /\ tick.saw[i] = "unseen" /\ i \notin round.victims
      /\ UNCHANGED <<desiredVars, observerVars, pending, failureVars, order, events, historyVars>>
  BY DEF Create, Fresh
<1>3. /\ round.left \in Nat /\ round.left > 0 /\ round.want \in States
      /\ round.want.version \in Versions /\ round.want.replicas \in Nat
  BY <1>2, BoundAssumption DEF TypeOK, Round, RoundIsReady, States
<1>4. /\ round' \in Round /\ round'.pc = "creating" /\ round'.cur = i /\ round'.want = round.want
      /\ round'.used = round.used \cup {k} /\ round'.left = round.left - 1
      /\ round'.victims = round.victims
  <2>. round.left - 1 \in Nat /\ round.used \cup {k} \in SUBSET Indexes /\ round \in Round
    BY <1>1, <1>3 DEF TypeOK, Round
  <2>. QED BY <1>1 DEF Round
<1>5. /\ cont' \in [Instances -> Container]
      /\ cont'[i].at = "asked" /\ cont'[i].version = round.want.version /\ cont'[i].index = k
      /\ \A j \in Instances : j # i => cont'[j] = cont[j]
  BY <1>1, <1>3 DEF TypeOK, Container
<1>6. \A j \in Instances : j # i =>
        /\ Holds(j)' <=> Holds(j)
        /\ Live(j)' <=> Live(j)
        /\ j \in Of(round.want)' <=> j \in Of(round.want)
  BY <1>4, <1>5 DEF Holds, Live, Exists, Of
<1>7. TypeOK'
  BY <1>2, <1>4, <1>5 DEF TypeOK, desiredVars, observerVars, failureVars, historyVars
<1>8. RoundIsReady'
  BY <1>3, <1>4 DEF RoundIsReady
<1>9. SeenWas(snap)' /\ SeenWas(tick.saw)'
  BY <1>2, <1>5, <1>6 DEF SeenWas, observerVars, historyVars
<1>10. Known'
  <2>. SUFFICES ASSUME ~lost', NEW j \in Instances, Holds(j)'
                PROVE  /\ pending'[j] # "old"
                       /\ pending'[j] # "none" \/ snap'[j] # "unseen" \/ (round'.pc = "creating" /\ round'.cur = j)
                       /\ snap'[j] # "unseen" /\ tick'.busy => tick'.saw[j] # "unseen"
                       /\ Leaving(j)' => snap'[j] # "unseen"
    BY DEF Known
  <2>1. CASE j = i
    BY <2>1, <1>2, <1>4 DEF observerVars, Leaving
  <2>2. CASE j # i
    BY <2>2, <1>2, <1>4, <1>6 DEF Known, observerVars, historyVars, Leaving
  <2>. QED BY <2>1, <2>2
<1>11. Counted'
  <2>. SUFFICES ASSUME ~lost', ~revived', NEW j \in Instances, Live(j)'
                PROVE  /\ snap'[j] = "running" /\ tick'.busy => tick'.saw[j] = "running"
                       /\ Leaving(j)' => snap'[j] = "running"
    BY DEF Counted
  <2>1. CASE j = i
    BY <2>1, <1>2, <1>4 DEF observerVars, Leaving
  <2>2. CASE j # i
    BY <2>2, <1>2, <1>4, <1>6 DEF Counted, observerVars, historyVars, Leaving
  <2>. QED BY <2>1, <2>2
<1>12. EveryReplicaCounts'
  BY <1>2, <1>4, <1>6 DEF EveryReplicaCounts, observerVars, historyVars
<1>13. ~lost => \A j \in Of(round.want) : Holds(j) => cont[j].index \in round.used
  BY <1>3 DEF LeftFits
<1>14. IndexesDiffer'
  <2>. SUFFICES ASSUME ~lost, NEW j \in Instances, NEW l \in Instances, j # l,
                       Holds(j)', Holds(l)', cont'[j].version = cont'[l].version
                PROVE  cont'[j].index # cont'[l].index
    BY <1>2 DEF IndexesDiffer, historyVars
  <2>1. \A h \in Instances : h # i /\ Holds(h) /\ cont[h].version = round.want.version => cont[h].index # k
    BY <1>3, <1>13, NoneIsNone DEF Of
  <2>2. CASE j # i /\ l # i
    BY <2>2, <1>5, <1>6 DEF IndexesDiffer
  <2>3. CASE j = i
    BY <2>3, <2>1, <1>5, <1>6
  <2>4. CASE l = i
    BY <2>4, <2>1, <1>5, <1>6
  <2>. QED BY <2>2, <2>3, <2>4
<1>15. LeftFits'
  <2>. SUFFICES ASSUME round'.left > 0 PROVE LeftFits'
    BY DEF LeftFits
  <2>. DEFINE Was == {j \in Of(round.want) : Live(j)}
              Is  == {j \in Of(round.want) : Live(j)}'
  <2>1. ASSUME ~lost', NEW j \in Of(round.want)', Holds(j)'
        PROVE  cont'[j].index \in round'.used
    <3>1. j \in Instances
      BY DEF Of
    <3>2. CASE j = i
      BY <3>2, <1>4, <1>5
    <3>3. CASE j # i
      BY <2>1, <3>1, <3>3, <1>2, <1>4, <1>5, <1>6, <1>13 DEF historyVars
    <3>. QED BY <3>2, <3>3
  <2>2. ASSUME ~lost', ~revived' PROVE Cardinality(Is) + round'.left <= round'.want.replicas
    <3>1. Was \in SUBSET Instances /\ Is \in SUBSET Instances /\ Was \cup {i} \in SUBSET Instances
      BY DEF Of
    <3>2. Is \in SUBSET (Was \cup {i})
      BY <1>6, <3>1
    <3>3. Cardinality(Was) + round.left <= round.want.replicas
      BY <2>2, <1>2, <1>3 DEF LeftFits, historyVars
    <3>. HIDE DEF Was, Is
    <3>4. /\ Cardinality(Was) \in Nat /\ Cardinality(Is) \in Nat
          /\ Cardinality(Is) <= Cardinality(Was) + 1
      BY <3>1, <3>2, OneMoreInstance, InstancesAreFinite
    <3>. QED BY <3>3, <3>4, <1>3, <1>4
  <2>. QED BY <2>1, <2>2, <1>4 DEF LeftFits
<1>. QED BY <1>7, <1>8, <1>9, <1>10, <1>11, <1>12, <1>14, <1>15

\* Nothing is missing without a desired state, and never more than it asks for.
LEMMA MissingFits ==
  ASSUME NEW counted \in Nat, NEW target \in Nat
  PROVE  /\ Missing(counted, target) \in Nat
         /\ Missing(counted, target) > 0 => counted < target /\ Missing(counted, target) + counted = target
  BY DEF Missing

LEMMA BeginKeeps ==
  ASSUME IInv, Begin
  PROVE  IInv'
<1>. USE DEF IInv
<1>. DEFINE counted == Effective
            target  == IF want = None THEN counted ELSE want.replicas
            r == [Idle EXCEPT
              !.want    = want,
              !.used    = Used,
              !.dead    = Dead,
              !.left    = IF failed' THEN 0 ELSE Missing(counted, target),
              !.victims = FirstOf(Ready, Surplus(counted, target)),
              !.counted = counted,
              !.healthy = Cardinality(Ready)]
<1>1. /\ round.pc = "idle" /\ round' = Onward(r)
      /\ NoteFailures(Cardinality(Expired \cup Dead))
      /\ pending' = [i \in Instances |-> IF i \in Waiting THEN pending[i] ELSE "none"]
      /\ UNCHANGED <<desiredVars, cont, observerVars, order, events, historyVars>>
  BY DEF Begin
<1>2. /\ Ready \in SUBSET Instances /\ Dead \in SUBSET Instances /\ Waiting \in SUBSET Instances
      /\ Expired \in SUBSET Instances /\ Of(want) \in SUBSET Instances
      /\ Waiting \cap Of(want) \in SUBSET Instances /\ paused \cap Of(want) \in SUBSET Instances
  BY DEF Ready, Dead, Waiting, Expired, Pending, Of, TypeOK
<1>3. /\ Cardinality(Ready) \in Nat /\ Cardinality(Waiting \cap Of(want)) \in Nat
      /\ Cardinality(paused \cap Of(want)) \in Nat /\ Cardinality(Expired \cup Dead) \in Nat
  BY <1>2, InstancesAreFinite, Expired \cup Dead \in SUBSET Instances
<1>4. counted \in Nat
  BY <1>3 DEF Effective
<1>5. target \in Nat
  BY <1>4, BoundAssumption DEF TypeOK, States
<1>6. Used \in SUBSET Indexes
  BY <1>2 DEF Used, TypeOK, Container
<1>7. FirstOf(Ready, Surplus(counted, target)) \in SUBSET Ready
  BY DEF FirstOf
<1>8. /\ r \in Round /\ r.want = want /\ r.used = Used /\ r.victims \in SUBSET Ready
      /\ r.left = (IF failed' THEN 0 ELSE Missing(counted, target))
  <2>1. (IF failed' THEN 0 ELSE Missing(counted, target)) \in Nat
    BY <1>4, <1>5, MissingFits
  <2>. HIDE DEF counted, target
  <2>. QED BY <2>1, <1>2, <1>3, <1>4, <1>6, <1>7 DEF Idle, Round, TypeOK
<1>. HIDE DEF r
<1>9. /\ round' \in Round /\ round'.want = want /\ round'.used = Used
      /\ round'.victims \in SUBSET Ready /\ round'.left = r.left
      /\ round'.pc \in {"recycle", "surge", "stop", "settle"}
      /\ round'.pc = "surge" => round'.left > 0
  BY <1>1, <1>8, OnwardFields
<1>10. round'.left > 0 => want \in States /\ round'.left + counted = want.replicas
  <2>1. round'.left > 0 => counted < target /\ round'.left + counted = target
    <3>. HIDE DEF counted, target
    <3>. QED BY <1>4, <1>5, <1>8, <1>9, MissingFits
  <2>. HIDE DEF counted
  <2>2. want = None => target = counted
    OBVIOUS
  <2>3. want # None => target = want.replicas /\ want \in States
    BY DEF TypeOK
  <2>. HIDE DEF target
  <2>. QED BY <2>1, <2>2, <2>3, <1>4
<1>. HIDE DEF counted, target
<1>11. TypeOK'
  <2>1. failures' \in 0..MaxFailures /\ failed' \in BOOLEAN
    BY <1>1, <1>3, FailuresType
  <2>. QED BY <2>1, <1>1, <1>9 DEF TypeOK, desiredVars, observerVars, historyVars
<1>12. RoundIsReady'
  BY <1>9, <1>10, NoneIsNone DEF RoundIsReady
<1>13. SeenWas(snap)' /\ SeenWas(tick.saw)' /\ IndexesDiffer'
  BY <1>1 DEF SeenWas, IndexesDiffer, Holds, Live, Exists, observerVars, historyVars
\* What is pending and is not seen, or not running yet, stays pending.
<1>14. \A i \in Instances :
         /\ pending'[i] \in {pending[i], "none"}
         /\ pending[i] = "young" /\ snap[i] \notin {"running", "exited"} => pending'[i] = "young"
  BY <1>1 DEF Waiting, Pending, TypeOK, Views
<1>15. \A i \in Instances :
         /\ Leaving(i)' => snap[i] = "running"
         /\ Holds(i)' <=> Holds(i)
         /\ Live(i)' <=> Live(i)
  BY <1>1, <1>9 DEF Leaving, Ready, Holds, Live, Exists
<1>16. \A i \in Instances : pending[i] \in {"none", "young", "old"}
  BY DEF TypeOK
<1>17. Known'
  <2>. SUFFICES ASSUME ~lost', NEW i \in Instances, Holds(i)'
                PROVE  /\ pending'[i] # "old"
                       /\ pending'[i] # "none" \/ snap'[i] # "unseen" \/ (round'.pc = "creating" /\ round'.cur = i)
                       /\ snap'[i] # "unseen" /\ tick'.busy => tick'.saw[i] # "unseen"
                       /\ Leaving(i)' => snap'[i] # "unseen"
    BY DEF Known
  <2>. QED BY <1>1, <1>14, <1>15, <1>16 DEF Known, observerVars, historyVars
<1>18. Counted'
  <2>. SUFFICES ASSUME ~lost', ~revived', NEW i \in Instances, Live(i)'
                PROVE  /\ snap'[i] = "running" /\ tick'.busy => tick'.saw[i] = "running"
                       /\ Leaving(i)' => snap'[i] = "running"
    BY DEF Counted
  <2>. QED BY <1>1, <1>15 DEF Counted, observerVars, historyVars
\* Seen from the round, live replicas are running or pending.
<1>19. ASSUME ~lost, ~revived, NEW i \in Instances, Live(i)
       PROVE  snap[i] = "running" \/ i \in Waiting
  <2>1. pending[i] # "none" \/ snap[i] = "running"
    BY <1>1, <1>19 DEF EveryReplicaCounts
  <2>2. pending[i] # "old" /\ snap[i] # "exited"
    BY <1>19 DEF Known, SeenWas, Holds
  <2>3. snap[i] \in Views
    BY DEF TypeOK
  <2>. QED BY <2>1, <2>2, <2>3, <1>16 DEF Waiting, Pending, Views
<1>20. EveryReplicaCounts'
  <2>. SUFFICES ASSUME ~lost', ~revived', NEW i \in Instances, Live(i)'
                PROVE  pending'[i] # "none" \/ snap'[i] = "running"
    BY DEF EveryReplicaCounts
  <2>1. snap[i] = "running" \/ i \in Waiting
    BY <1>1, <1>15, <1>19 DEF historyVars
  <2>. QED BY <2>1, <1>1 DEF observerVars, Waiting, Pending
<1>21. LeftFits'
  <2>. SUFFICES ASSUME round'.left > 0 PROVE LeftFits'
    BY DEF LeftFits
  <2>. DEFINE Is == {i \in Of(want) : Live(i)}
  <2>1. {i \in Of(round.want) : Live(i)}' = Is /\ Of(round.want)' = Of(want)
    BY <1>1, <1>9 DEF Of, Live
  <2>2. ASSUME ~lost, NEW i \in Of(want), Holds(i) PROVE cont[i].index \in Used
    <3>1. pending[i] # "none" \/ snap[i] # "unseen"
      BY <2>2, <1>1, <1>2 DEF Known
    <3>. QED BY <3>1, <1>2 DEF Used, Pending
  <2>3. ASSUME ~lost, ~revived PROVE Cardinality(Is) + round'.left <= want.replicas
    <3>1. Is \in SUBSET (Ready \cup (Waiting \cap Of(want)) \cup (paused \cap Of(want)))
      BY <2>3, <1>2, <1>19 DEF Ready
    <3>2. Cardinality(Is) <= counted
      BY <3>1, <1>2, ThreeCover DEF counted, Effective
    <3>3. Cardinality(Is) \in Nat
      BY <1>2, InstancesAreFinite, Is \in SUBSET Instances
    <3>4. round'.left \in Nat
      BY <1>9 DEF Round
    <3>. QED BY <3>2, <3>3, <3>4, <1>4, <1>10
  <2>. QED BY <2>1, <2>2, <2>3, <1>1, <1>9, <1>15, <1>2 DEF LeftFits, historyVars
<1>. QED BY <1>11, <1>12, <1>13, <1>17, <1>18, <1>20, <1>21

------------------------------------------------------------------------------
(* The invariant, and what follows.                                        *)

LEMMA InitInvariant ==
  ASSUME Init
  PROVE  IInv
<1>1. /\ cont = [i \in Instances |-> NoContainer] /\ round = Idle /\ snap = Unseen /\ tick.saw = Unseen
      /\ lost = FALSE /\ revived = FALSE
  BY DEF Init
<1>2. TypeOK
  <2>1. /\ want \in States \cup {None} /\ phase \in Phases /\ paused \in SUBSET Instances
    BY DEF Init, Phases
  <2>6. failures \in 0..MaxFailures /\ events \in 0..MaxEvents
    BY BoundAssumption DEF Init
  <2>5. failed \in BOOLEAN /\ lost \in BOOLEAN /\ revived \in BOOLEAN /\ newestFirst \in BOOLEAN
    BY DEF Init
  <2>2. cont \in [Instances -> Container] /\ snap \in [Instances -> Views]
    BY <1>1, NoContainerType DEF Unseen, Views
  <2>3. tick \in [busy : BOOLEAN, saw : [Instances -> Views]]
    BY DEF Init, Unseen, Views
  <2>4. pending \in [Instances -> {"none", "young", "old"}] /\ round \in Round /\ order \in Order
    BY IdleType, OrderType DEF Init
  <2>. QED BY <2>1, <2>2, <2>3, <2>4, <2>5, <2>6 DEF TypeOK
<1>3. \A i \in Instances : ~Holds(i) /\ ~Live(i)
  BY <1>1, NoContainerType DEF Holds, Live, Exists
<1>4. RoundIsReady /\ LeftFits
  BY <1>1, IdleType DEF RoundIsReady, LeftFits
<1>5. SeenWas(snap) /\ SeenWas(tick.saw)
  BY <1>1 DEF SeenWas, Unseen
<1>6. Known /\ Counted /\ EveryReplicaCounts /\ IndexesDiffer
  BY <1>3 DEF Known, Counted, EveryReplicaCounts, IndexesDiffer
<1>. QED BY <1>2, <1>4, <1>5, <1>6 DEF IInv

LEMMA StutterKeeps ==
  ASSUME IInv, UNCHANGED vars
  PROVE  IInv'
<1>1. UNCHANGED <<desiredVars, cont, observerVars, pending, failureVars, round, order, events, historyVars>>
  BY DEF vars, desiredVars, observerVars, failureVars, historyVars
<1>2. TypeOK'
  BY <1>1 DEF IInv, TypeOK, desiredVars, observerVars, failureVars, historyVars
<1>. QED BY <1>1, <1>2, NoneMoves, OthersKeepInvariant DEF IInv

LEMMA NextKeeps ==
  ASSUME IInv, [Next]_vars
  PROVE  IInv'
<1>1. CASE RoundStep
  BY <1>1, BeginKeeps, NoNodeKeeps, CreateOkKeeps, CreateErrKeeps, CreateTimeoutKeeps,
     DrainRemoveKeeps, SettleKeeps, RecycleKeeps, DrainStopKeeps, CreateKeeps DEF RoundStep
<1>2. CASE Answer
  BY <1>2, AdministratorKeeps, RestartStartKeeps, ReclaimKeeps DEF Answer
<1>3. CASE Install \/ Restart \/ \E skipped \in SUBSET Nodes : List(skipped)
  BY <1>3, InstallKeeps, RestartKeeps, ListKeeps
<1>4. CASE \E i \in Instances : AgentStep(i) \/ AgentFails(i) \/ Crash(i) \/ Age(i)
  BY <1>4, AgentCreateKeeps, AgentStartKeeps, AgentFailsKeeps, CrashKeeps, AgeKeeps DEF AgentStep
<1>5. CASE \/ \E state \in States : Put(state)
           \/ \E reclaims \in BOOLEAN : Stop(reclaims)
           \/ \E v \in Versions : RemoveVersion(v)
  BY <1>5, AdministratorKeeps
<1>6. CASE \E i \in Instances, op \in {"stop", "start", "restart", "remove"} : Control(i, op)
  BY <1>6, ControlKeeps
<1>7. CASE UNCHANGED vars
  BY <1>7, StutterKeeps
<1>. QED BY <1>1, <1>2, <1>3, <1>4, <1>5, <1>6, <1>7 DEF Next

\* The strengthened invariant holds in every reachable state.
THEOREM Invariance == Spec => []IInv
<1>1. Init => IInv
  BY InitInvariant
<1>2. IInv /\ [Next]_vars => IInv'
  BY NextKeeps
<1>. QED BY <1>1, <1>2, PTL DEF Spec

\* The desired state, the snapshot, the round and the containers keep their types.
THEOREM TypeCorrect == Spec => []TypeOK
<1>1. IInv => TypeOK
  BY DEF IInv
<1>. QED BY <1>1, Invariance, PTL

\* The reconciler counts every replica that runs or may come to run.
THEOREM ReplicasCount == Spec => []EveryReplicaCounts
<1>1. IInv => EveryReplicaCounts
  BY DEF IInv
<1>. QED BY <1>1, Invariance, PTL

\* No two containers of a version get the same index.
THEOREM NamesDiffer == Spec => []IndexesDiffer
<1>1. IInv => IndexesDiffer
  BY DEF IInv
<1>. QED BY <1>1, Invariance, PTL

\* Only createReplica puts a create on its way.
LEMMA OnlyCreateAsks ==
  ASSUME IInv, Next, NEW i \in Instances, cont[i].at # "asked", cont'[i].at = "asked"
  PROVE  \E j \in Instances, n \in Nodes : Create(j, n)
<1>. SUFFICES ASSUME ~\E j \in Instances, n \in Nodes : Create(j, n) PROVE FALSE
  OBVIOUS
<1>1. ASSUME NEW j \in Instances, NEW state \in {"created", "running", "exited", "failed", "gone"},
             cont' = [cont EXCEPT ![j].at = state]
      PROVE  FALSE
  BY <1>1 DEF IInv, TypeOK, Container
<1>2. ASSUME NEW j \in Instances, NEW state \in {"exited", "gone"}, Becomes(j, state)
      PROVE  FALSE
  BY <1>2 DEF Becomes, IInv, TypeOK, Container
<1>3. CASE RoundStep
  <2>1. round.pc = "remove" => round.cur \in Instances
    BY DEF IInv, RoundIsReady
  <2>2. CASE UNCHANGED cont
    BY <2>2
  <2>3. CASE DrainRemove
    BY <2>1, <2>3, <1>2 DEF DrainRemove
  <2>4. CASE \E j \in Instances : Recycle(j) \/ DrainStop(j)
    BY <2>4, <1>2 DEF Recycle, DrainStop
  <2>5. CASE Begin \/ NoNode \/ CreateOk \/ CreateErr \/ CreateTimeout \/ Settle
    BY <2>2, <2>5 DEF Begin, NoNode, CreateOk, CreateErr, CreateTimeout, Settle
  <2>. QED BY <1>3, <2>3, <2>4, <2>5 DEF RoundStep
<1>4. CASE Answer
  <2>1. CASE UNCHANGED cont
    BY <2>1
  <2>2. CASE ReclaimList \/ Mark
    BY <2>1, <2>2 DEF ReclaimList, Mark
  <2>3. CASE RestartStart
    BY <2>3 DEF RestartStart, IInv, TypeOK, Container
  <2>4. CASE \E j \in Instances : Reclaim(j)
    BY <2>4, <1>2 DEF Reclaim
  <2>. QED BY <1>4, <2>2, <2>3, <2>4 DEF Answer
<1>5. CASE Install
  BY <1>5, NoContainerType DEF Install
<1>6. CASE Restart \/ \E skipped \in SUBSET Nodes : List(skipped)
  BY <1>6 DEF Restart, List
<1>7. CASE \E j \in Instances : AgentStep(j) \/ AgentFails(j) \/ Crash(j) \/ Age(j)
  <2>1. CASE \E j \in Instances : Age(j)
    BY <2>1 DEF Age
  <2>2. CASE \E j \in Instances : AgentStep(j) \/ AgentFails(j) \/ Crash(j)
    BY <2>2, <1>1 DEF AgentStep, AgentCreate, AgentStart, AgentFails, Crash
  <2>. QED BY <1>7, <2>1, <2>2
<1>8. CASE \/ \E state \in States : Put(state)
           \/ \E reclaims \in BOOLEAN : Stop(reclaims)
           \/ \E v \in Versions : RemoveVersion(v)
  BY <1>8 DEF Put, Stop, RemoveVersion
<1>9. CASE \E j \in Instances, op \in {"stop", "start", "restart", "remove"} : Control(j, op)
  <2>. PICK j \in Instances, op \in {"stop", "start", "restart", "remove"} : Control(j, op)
    BY <1>9
  <2>1. CASE op = "stop"
    BY <2>1 DEF Control, IInv, TypeOK, Container
  <2>2. CASE op # "stop"
    BY <2>2, <1>1 DEF Control
  <2>. QED BY <2>1, <2>2
<1>. QED BY <1>3, <1>4, <1>5, <1>6, <1>7, <1>8, <1>9 DEF Next

\* A round creates a replica only where its version has fewer than it asks for.
THEOREM NeverTooMany == Spec => NoSurplus
<1>1. IInv /\ [Next]_vars =>
        [\A i \in Instances :
           cont[i].at # "asked" /\ cont'[i].at = "asked" /\ ~lost /\ ~revived =>
             Cardinality({j \in Of(round.want) : Live(j)}) < round.want.replicas]_vars
  <2>. SUFFICES ASSUME IInv, Next, NEW i \in Instances, ~lost, ~revived,
                       cont[i].at # "asked", cont'[i].at = "asked"
                PROVE  Cardinality({j \in Of(round.want) : Live(j)}) < round.want.replicas
    OBVIOUS
  <2>1. PICK j \in Instances, n \in Nodes : Create(j, n)
    BY OnlyCreateAsks
  <2>2. round.left > 0
    BY <2>1 DEF Create, IInv, RoundIsReady
  <2>. QED BY <2>2, RoomToCreate
<1>. QED BY <1>1, Invariance, PTL DEF Spec, NoSurplus
==============================================================================
