------------------------------ MODULE Leadership ------------------------------
(***************************************************************************)
(* The leader of the gateway instances, package ha.  Every instance ticks: *)
(* a leader renews, a follower tries to acquire.  The lock is a Redis key  *)
(* with an expiry; where Redis does not answer, an instance falls back to  *)
(* a lease in its own row of gateway_instances.  A tick makes its calls    *)
(* one by one, and each call is a step.                                    *)
(*                                                                         *)
(* Time is the environment's: a key or a lease that its instance goes on   *)
(* renewing runs out only when that instance is late, which is a trouble   *)
(* like a call that fails, a Redis that forgets, or a process that ends.   *)
(* A process that is told to stop does so with a cancelled context, which  *)
(* no call of its releaseLeader survives: to the others it just ends.      *)
(***************************************************************************)
EXTENDS Naturals, FiniteSets

CONSTANTS
  Gateways,   \* gateway instances, with stable identities
  Redis,      \* is a Redis configured
  MaxEvents,  \* bound: troubles
  Nobody      \* no instance

ASSUME GatewayAssumption == Nobody \notin Gateways
ASSUME BoundAssumption == MaxEvents \in Nat /\ Redis \in BOOLEAN

VARIABLES
  pc,       \* where the goroutine of Run is: "down", or before its next call
  leader,   \* Coordinator.isLeader
  key,      \* the value of the Redis key, Nobody when there is none
  role,     \* the rows of gateway_instances: role
  lease,    \* the rows of gateway_instances: lease_until, against the clock
  events,   \* troubles so far
  calm      \* history: no key was lost while it was needed, and Redis never failed

vars == <<pc, leader, key, role, lease, events, calm>>

PC == {"down", "register", "idle", "get", "expire", "renewed", "renewDB",
       "setnx", "acquireDB", "won"}

TypeOK ==
  /\ pc     \in [Gateways -> PC]
  /\ leader \in [Gateways -> BOOLEAN]
  /\ key    \in Gateways \cup {Nobody}
  /\ role   \in [Gateways -> {"none", "leader", "follower"}]
  /\ lease  \in [Gateways -> {"unset", "valid", "expired"}]
  /\ events \in 0..MaxEvents
  /\ calm   \in BOOLEAN

Init ==
  /\ pc     = [g \in Gateways |-> "down"]
  /\ leader = [g \in Gateways |-> FALSE]
  /\ key    = Nobody
  /\ role   = [g \in Gateways |-> "none"]
  /\ lease  = [g \in Gateways |-> "unset"]
  /\ events = 0
  /\ calm   = TRUE

Goto(g, to) == pc' = [pc EXCEPT ![g] = to]
Event  == events < MaxEvents /\ events' = events + 1
Smooth == UNCHANGED <<events, calm>>
\* A call to Redis, or to the database, fails.
RedisFails    == Event /\ calm' = FALSE
DatabaseFails == Event /\ UNCHANGED calm

\* The row takes a role, with a new lease, or the database fails, which is ignored.
UpdateRole(g) ==
  \/ /\ role'  = [role EXCEPT ![g] = "leader"]
     /\ lease' = [lease EXCEPT ![g] = "valid"]
     /\ Smooth
  \/ UNCHANGED <<role, lease>> /\ DatabaseFails

------------------------------------------------------------------------------
(* The process and its ticks.                                              *)

Start(g) ==
  /\ pc[g] = "down"
  /\ Goto(g, "register")
  /\ UNCHANGED <<leader, key, role, lease, events, calm>>

\* register: the row is inserted or refreshed, and read again, which may fail
\* apart; its lease is left as it is.
Registered(g) ==
  /\ pc[g] = "register"
  /\ \/ /\ role' = [role EXCEPT ![g] = "follower"]
        /\ \/ Goto(g, "idle") /\ Smooth
           \/ UNCHANGED pc /\ DatabaseFails
     \/ UNCHANGED <<role, pc>> /\ DatabaseFails
  /\ UNCHANGED <<leader, key, lease>>

\* Mutant of Acquire: the lease of the database first.
AcquireFromDB == "acquireDB"

Acquire == IF Redis THEN "setnx" ELSE "acquireDB"

Tick(g) ==
  /\ pc[g] = "idle"
  /\ Goto(g, IF ~leader[g] THEN Acquire ELSE IF Redis THEN "get" ELSE "renewDB")
  /\ UNCHANGED <<leader, key, role, lease, events, calm>>

\* The process ends, by a crash or a signal.
Exit(g) ==
  /\ pc[g] # "down"
  /\ Goto(g, "down")
  /\ leader' = [leader EXCEPT ![g] = FALSE]
  /\ Event
  /\ UNCHANGED <<key, role, lease, calm>>

------------------------------------------------------------------------------
(* renewLeader                                                             *)

\* Another's key deposes at once.  No key at all is an error of GET to the
\* client, and so taken for a failure of Redis.
Get(g) ==
  /\ pc[g] = "get"
  /\ \/ key = g /\ Goto(g, "expire") /\ UNCHANGED leader /\ Smooth
     \/ key \notin {g, Nobody} /\ Goto(g, "setnx")
        /\ leader' = [leader EXCEPT ![g] = FALSE] /\ Smooth
     \/ key = Nobody /\ Goto(g, "renewDB") /\ UNCHANGED leader /\ Smooth
     \/ Goto(g, "renewDB") /\ UNCHANGED leader /\ RedisFails
  /\ UNCHANGED <<key, role, lease>>

\* EXPIRE renews whatever key is there, by then perhaps another's or none.
\* When it fails the error of GET is logged, which is nil: the process panics.
Expire(g) ==
  /\ pc[g] = "expire"
  /\ \/ Goto(g, "renewed") /\ UNCHANGED leader /\ Smooth
     \/ Goto(g, "down") /\ leader' = [leader EXCEPT ![g] = FALSE] /\ RedisFails
  /\ UNCHANGED <<key, role, lease>>

\* Mutant of Renewed: a leader that cannot write its row gives up.
RenewedOrDeposed(g) ==
  /\ pc[g] = "renewed"
  /\ UpdateRole(g)
  /\ leader' = [leader EXCEPT ![g] = role'[g] = "leader"]
  /\ Goto(g, "idle")
  /\ UNCHANGED key

Renewed(g) ==
  /\ pc[g] = "renewed"
  /\ UpdateRole(g)
  /\ Goto(g, "idle")
  /\ UNCHANGED <<leader, key>>

\* TryRenewLeaseDB: only a leader whose lease has not run out.  When that
\* fails the instance is deposed and tries to acquire in the same tick.
RenewDB(g) ==
  /\ pc[g] = "renewDB"
  /\ LET holds == role[g] = "leader" /\ lease[g] # "expired" IN
     \/ /\ holds
        /\ lease' = [lease EXCEPT ![g] = "valid"]
        /\ Goto(g, "idle") /\ UNCHANGED leader /\ Smooth
     \/ /\ leader' = [leader EXCEPT ![g] = FALSE]
        /\ Goto(g, Acquire) /\ UNCHANGED lease
        /\ IF holds THEN DatabaseFails ELSE Smooth
  /\ UNCHANGED <<key, role>>

------------------------------------------------------------------------------
(* acquireLeader                                                           *)

\* Mutant of SetNX: SET without NX, which takes another's key over.
SetWithoutNX(g) ==
  /\ pc[g] = "setnx"
  /\ \/ key' = g /\ Goto(g, "won") /\ Smooth
     \/ UNCHANGED key /\ Goto(g, "acquireDB") /\ RedisFails
  /\ UNCHANGED <<leader, role, lease>>

\* A SETNX that fails may have had its effect.
SetNX(g) ==
  /\ pc[g] = "setnx"
  /\ \/ key = Nobody /\ key' = g /\ Goto(g, "won") /\ Smooth
     \/ key # Nobody /\ UNCHANGED key /\ Goto(g, "idle") /\ Smooth
     \/ key' \in {key} \cup (IF key = Nobody THEN {g} ELSE {})
        /\ Goto(g, "acquireDB") /\ RedisFails
  /\ UNCHANGED <<leader, role, lease>>

\* TryAcquireLeaseDB looks at the row of the instance, not at the others'.
AcquireDB(g) ==
  /\ pc[g] = "acquireDB"
  /\ \/ /\ role[g] # "leader" /\ lease[g] # "valid"
        /\ role'  = [role EXCEPT ![g] = "leader"]
        /\ lease' = [lease EXCEPT ![g] = "valid"]
        /\ Goto(g, "won") /\ Smooth
     \/ /\ role[g] = "leader" \/ lease[g] = "valid"
        /\ Goto(g, "idle") /\ UNCHANGED <<role, lease>> /\ Smooth
     \/ Goto(g, "idle") /\ UNCHANGED <<role, lease>> /\ DatabaseFails
  /\ UNCHANGED <<leader, key>>

\* updateRole, then isLeader.
Won(g) ==
  /\ pc[g] = "won"
  /\ UpdateRole(g)
  /\ leader' = [leader EXCEPT ![g] = TRUE]
  /\ Goto(g, "idle")
  /\ UNCHANGED key

------------------------------------------------------------------------------
(* Time and Redis.                                                         *)

\* The instance is renewing, or about to.
Keeps(g) == leader[g] \/ pc[g] = "won"

\* Mutant of KeyExpires: the key is set without an expiry, only a trouble removes it.
KeyIsForgotten ==
  /\ key # Nobody
  /\ key' = Nobody
  /\ RedisFails
  /\ UNCHANGED <<pc, leader, role, lease>>

KeyExpires ==
  /\ key # Nobody
  /\ key' = Nobody
  /\ IF Keeps(key) THEN RedisFails ELSE Smooth
  /\ UNCHANGED <<pc, leader, role, lease>>

LeaseExpires(g) ==
  /\ lease[g] = "valid"
  /\ lease' = [lease EXCEPT ![g] = "expired"]
  /\ IF Keeps(g) THEN DatabaseFails ELSE Smooth
  /\ UNCHANGED <<pc, leader, key, role>>

------------------------------------------------------------------------------
Step(g) ==
  \/ Registered(g) \/ Tick(g) \/ Get(g) \/ Expire(g) \/ Renewed(g) \/ RenewDB(g)
  \/ SetNX(g) \/ AcquireDB(g) \/ Won(g)

Next ==
  \/ \E g \in Gateways : Start(g) \/ Exit(g) \/ Step(g) \/ LeaseExpires(g)
  \/ KeyExpires

\* The ticker fires as long as the process lives, calls end, and what nobody
\* renews runs out.
Fairness ==
  /\ \A g \in Gateways : WF_vars(Step(g)) /\ WF_vars(LeaseExpires(g))
  /\ WF_vars(KeyExpires)

Spec == Init /\ [][Next]_vars
FairSpec == Spec /\ Fairness

------------------------------------------------------------------------------
(* Properties.                                                             *)

Leaders == {g \in Gateways : leader[g]}
Running == {g \in Gateways : pc[g] # "down"}

\* With a Redis that answers and instances that are in time there is never a
\* second leader, whatever processes end, restart or lose the database
\* (the one key of SetNX, the look at it before every renewal).
OneLeader == calm /\ Redis => \A g, h \in Leaders : g = h

\* The strengthening: with such a Redis whoever leads, or is about to, has the key ...
LeaderHasKey == calm /\ Redis => \A g \in Gateways : Keeps(g) => key = g
\* ... and no tick comes to the leases of the database, or looks at another's key.
FallsBack(g) == pc[g] \in {"renewDB", "acquireDB"} \/ (pc[g] = "get" /\ ~leader[g])
NoFallback == calm /\ Redis => \A g \in Gateways : ~FallsBack(g)

\* The inductive invariant from which OneLeader and LeadsToItsEnd follow: what
\* an instance is about to call fits who has the lock.
IInv == TypeOK /\ LeaderHasKey /\ NoFallback

\* Then nothing deposes a leader but its end: not the database, not its own
\* lease, not the others.
LeadsToItsEnd ==
  [][\A g \in Gateways :
       leader[g] /\ calm' /\ Redis => leader'[g] \/ pc'[g] = "down"]_vars

\* After the last trouble there comes to be a leader, as long as an instance is
\* running, over lost answers, forgotten keys and expired leases.
SomebodyLeads == <>[](Running = {} \/ Leaders # {})

\* plan-phase4.md: after the failure of a leader another takes over, and there
\* are no two leaders.
LeadersBecomeOne == <>[](Cardinality(Leaders) <= 1)
==============================================================================
