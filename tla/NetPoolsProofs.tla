---------------------------- MODULE NetPoolsProofs ----------------------------
(***************************************************************************)
(* Proofs about NetPools for any number of requests, nodes, projects and   *)
(* pools, overlapping ones included.  Rows of networks are never deleted   *)
(* and never change what they bind (BindingsGrow), so a binding once in a  *)
(* row stays; memory, requests and agents only hold what a row binds, and  *)
(* the unique indexes keep rows apart.                                     *)
(***************************************************************************)
EXTENDS NetPools, TLAPS

USE DEF Goto, With, Event, PoolStatus

LEMMA NoJobIsJob == NoJob \in Job
  BY DEF NoJob, Job

LEMMA SubnetOf == ASSUME NEW k \in Pools, NEW i \in 0..(Size[k] - 1) PROVE Base[k] + i \in Subnets
<1>1. Base[k] \in Nat /\ Size[k] \in Nat BY PoolAssumption
<1>2. Base[k] + i \in Base[k]..(Base[k] + Size[k] - 1) BY <1>1
<1> QED BY <1>2 DEF Subnets

LEMMA NextIsNat == ASSUME NEW k \in Pools, NEW i \in 0..(Size[k] - 1) PROVE (i + 1) % Size[k] \in Nat
<1>1. Size[k] \in Nat \ {0} BY PoolAssumption
<1> QED BY <1>1, SMT

LEMMA StatusField ==
  ASSUME NEW r \in PoolRec, NEW s \in PoolStatus
  PROVE [r EXCEPT !.status = s] \in PoolRec /\ [r EXCEPT !.status = s] # None
<1>1. [r EXCEPT !.status = s] \in PoolRec BY DEF PoolRec
<1> QED BY <1>1, NoneAssumption

LEMMA NextField ==
  ASSUME NEW r \in PoolRec, NEW n \in Nat
  PROVE [r EXCEPT !.next = n] \in PoolRec /\ [r EXCEPT !.next = n] # None
<1>1. [r EXCEPT !.next = n] \in PoolRec BY DEF PoolRec
<1> QED BY <1>1, NoneAssumption

LEMMA UpdateField ==
  ASSUME NEW r \in PoolRec, NEW s \in PoolStatus, NEW b \in BOOLEAN
  PROVE [r EXCEPT !.status = s, !.reuse = b] \in PoolRec /\ [r EXCEPT !.status = s, !.reuse = b] # None
<1>1. [r EXCEPT !.status = s, !.reuse = b] \in PoolRec BY DEF PoolRec
<1> QED BY <1>1, NoneAssumption

LEMMA NewPoolTyped == NewPool \in PoolRec /\ NewPool # None
<1>1. NewPool \in PoolRec BY DEF NewPool, PoolRec
<1> QED BY <1>1, NoneAssumption

LEMMA TypeInit == Init => TypeOK
  BY NoJobIsJob, NewPoolTyped, BoundAssumption DEF Init, TypeOK, PC

LEMMA InitInv == Init => IInv
<1> SUFFICES ASSUME Init PROVE IInv OBVIOUS
<1>1. TypeOK BY TypeInit
<1>2. HandsShaped BY DEF Init, HandsShaped, Fits, Serving, Networked, Saving, Pooled
<1>3. RowsApart BY DEF Init, RowsApart
<1>4. MemoryBound BY DEF Init, MemoryBound
<1>5. HandsBound BY DEF Init, HandsBound, NoJob
<1>6. HostsBound BY DEF Init, HostsBound
<1>7. PoolsStay BY DEF Init, PoolsStay
<1> QED BY <1>1, <1>2, <1>3, <1>4, <1>5, <1>6, <1>7 DEF IInv

LEMMA HandTyped ==
  ASSUME TypeOK, HandsShaped, NEW w \in Workers
  PROVE /\ job[w] \in Job /\ job[w].todo \subseteq Pools
        /\ pc[w] \in Serving => job[w].proj \in Projects /\ job[w].node \in Nodes
        /\ pc[w] \in Networked => job[w].net \in NetRec /\ job[w].net.pool \in Pools /\ job[w].net.node \in Nodes
        /\ pc[w] \in Pooled => job[w].pool \in Pools
        /\ pc[w] \in Saving => job[w].save \in PoolRec
        /\ pc[w] = "try" => \A k \in job[w].todo : job[w].view[k] \in PoolRec
  BY DEF TypeOK, HandsShaped, Fits, Job, NetRec

LEMMA SavePoolTyped ==
  ASSUME TypeOK, HandsShaped, NEW w \in Workers, NEW ok \in BOOLEAN, pc[w] \in Saving, SavePool(w, ok)
  PROVE poolRows' \in [Pools -> PoolRec \cup {None}] /\ events' \in 0..MaxEvents /\ Saved(w) \in Job
<1>1. job[w].pool \in Pools /\ job[w].save \in PoolRec /\ job[w] \in Job BY HandTyped DEF Pooled
<1>2. Saved(w) \in Job BY <1>1 DEF Saved, Job
<1> QED BY <1>1, <1>2, BoundAssumption DEF SavePool, TypeOK

LEMMA SaveNetTyped ==
  ASSUME TypeOK, HandsShaped, NEW w \in Workers, NEW ok \in BOOLEAN, pc[w] \in Networked, SaveNet(w, ok)
  PROVE netRows' \subseteq NetRec /\ events' \in 0..MaxEvents
  BY HandTyped, BoundAssumption DEF SaveNet, TypeOK

LEMMA SetPoolTyped ==
  ASSUME TypeOK, NEW w \in Workers, NEW j \in Job, NEW k \in Pools, pools[k] # None,
         NEW status \in PoolStatus, NEW to \in PC,
         SetPool(w, j, k, status, to)
  PROVE pools' \in [Pools -> PoolRec \cup {None}] /\ job' \in [Workers -> Job] /\ pc' \in [Workers -> PC]
<1> DEFINE rec == [pools[k] EXCEPT !.status = status]
<1>1. rec \in PoolRec BY StatusField DEF TypeOK
<1>2. [j EXCEPT !.pool = k, !.save = rec] \in Job BY <1>1 DEF Job
<1> QED BY <1>1, <1>2 DEF SetPool, TypeOK

LEMMA UpdateTyped ==
  ASSUME TypeOK, HandsShaped, NEW w \in Workers, NEW k \in Pools, NEW status \in PoolStatus, NEW reuse \in BOOLEAN,
         Update(w, k, status, reuse)
  PROVE pools' \in [Pools -> PoolRec \cup {None}] /\ job' \in [Workers -> Job] /\ pc' \in [Workers -> PC]
<1> DEFINE rec == [pools[k] EXCEPT !.status = status, !.reuse = reuse]
<1>1. rec \in PoolRec BY UpdateField DEF Update, TypeOK
<1>2. [NoJob EXCEPT !.pool = k, !.save = rec] \in Job BY <1>1 DEF Job, NoJob
<1> QED BY <1>1, <1>2 DEF Update, TypeOK, PC, Pooled, Saving

LEMMA SetNetTyped ==
  ASSUME TypeOK, HandsShaped, NEW w \in Workers, pc[w] \in Networked,
         NEW status \in {"reserved", "active", "failed", "released"}, NEW to \in PC,
         SetNet(w, status, to)
  PROVE nets' \in [Projects -> NetRec \cup {None}] /\ job' \in [Workers -> Job] /\ pc' \in [Workers -> PC]
<1> DEFINE n == [nets[job[w].proj] EXCEPT !.status = status]
<1>1. job[w].proj \in Projects BY HandTyped DEF Serving
<1>2. n \in NetRec BY <1>1 DEF TypeOK, SetNet, NetRec
<1>3. [job[w] EXCEPT !.net = n] \in Job BY <1>2, HandTyped DEF Job
<1> QED BY <1>1, <1>2, <1>3 DEF SetNet, TypeOK

LEMMA OrderTyped == ASSUME TypeOK, HandsShaped, NEW w \in Workers,
                           pc[w] \in {"create", "delete", "up", "down"}
                    PROVE /\ OrderOf(w) \in Order
                          /\ OrderOf(w).do = "create" => /\ job[w].net \in NetRec
                                                        /\ OrderOf(w).sub = job[w].net.sub
                                                        /\ OrderOf(w).sub \in Subnets
<1>1. job[w].proj \in Projects /\ job[w].node \in Nodes BY DEF HandsShaped, Fits, Serving, Networked
<1>2. pc[w] = "create" => job[w].net \in NetRec BY DEF HandsShaped, Fits, Networked, TypeOK, Job
<1> QED BY <1>1, <1>2 DEF OrderOf, Order, NetRec

LEMMA ExecuteTyped == ASSUME TypeOK, NEW o \in Order, Execute(o), o.do = "create" => o.sub \in Subnets
                      PROVE docker' \subseteq Standing /\ up' \subseteq Nodes \X Projects
  BY DEF TypeOK, Order, Execute, Standing

LEMMA AnsweredTyped == ASSUME TypeOK, HandsShaped, NEW w \in Workers, NEW ok \in BOOLEAN,
                              pc[w] \in {"create", "delete", "up", "down"}, Answered(w, ok)
                       PROVE /\ docker' \subseteq Standing /\ up' \subseteq Nodes \X Projects
                             /\ late' \subseteq Order /\ events' \in 0..MaxEvents
<1>1. CASE ok BY <1>1, OrderTyped, ExecuteTyped DEF Answered, TypeOK
<1>2. CASE ~ok BY <1>2, OrderTyped, BoundAssumption DEF Answered, TypeOK
<1> QED BY <1>1, <1>2

LEMMA SubnetBound == ASSUME TypeOK, HostsBound, NEW o \in late, o.do = "create" PROVE o.sub \in Subnets
  BY DEF TypeOK, HostsBound, BoundSubnet, NetRec

LEMMA TypeStep == ASSUME IInv, Next PROVE TypeOK'
<1>a. TypeOK /\ HandsShaped /\ HostsBound /\ requests' \in 0..MaxRequests
  BY BoundAssumption DEF IInv, TypeOK, Next
<1>1. ASSUME NEW w \in Workers, NEW k \in Pools, TryPool(w, k) PROVE TypeOK'
  <2>a. pc[w] = "try" /\ k \in job[w].todo /\ job[w] \in Job /\ job[w].proj \in Projects
        /\ job[w].node \in Nodes /\ job[w].view[k] \in PoolRec /\ job[w].todo \ {k} \in SUBSET Pools
    BY <1>1, <1>a, HandTyped DEF TryPool, Serving
  <2>b. UNCHANGED <<nets, cooling, docker, up, late>> BY <1>1 DEF TryPool, hosts
  <2>d. ASSUME DeployFails(w) PROVE pc' \in [Workers -> PC] /\ job' \in [Workers -> Job] /\ apps' \subseteq Projects
    BY <1>a, <2>a, <2>d, NoJobIsJob DEF DeployFails, Finish, TypeOK, PC
  <2> DEFINE free == FreeAt(k, job[w].view[k].reuse)
             row(i) == [proj |-> job[w].proj, node |-> job[w].node, pool |-> k,
                        sub |-> Base[k] + i, status |-> "reserved"]
             next(i) == (i + 1) % Size[k]
             Less == [job[w] EXCEPT !.todo = job[w].todo \ {k}]
  <2>1. CASE /\ poolRows[k] # None /\ free = {}
             /\ IF job[w].view[k].status = "exhausted" \/ pools[k] = None
                THEN With(w, Less) /\ UNCHANGED <<pc, pools>>
                ELSE SetPool(w, Less, k, "exhausted", "saveFull")
             /\ UNCHANGED <<poolRows, netRows, apps, events>>
    <3>1. Less \in Job BY <2>a DEF Job
    <3>2. pools' \in [Pools -> PoolRec \cup {None}] /\ job' \in [Workers -> Job] /\ pc' \in [Workers -> PC]
      BY <1>a, <2>1, <3>1, SetPoolTyped DEF PC, Pooled, Saving, Serving, TypeOK
    <3> QED BY <1>a, <2>1, <2>b, <3>2 DEF TypeOK
  <2>2. CASE /\ poolRows[k] # None
             /\ \E i \in free : IF Refused(row(i)) THEN DeployFails(w) /\ UNCHANGED <<netRows, poolRows>>
                  ELSE /\ netRows'  = netRows \cup {row(i)}
                       /\ poolRows' = [poolRows EXCEPT ![k].next = next(i)]
                       /\ With(w, [job[w] EXCEPT !.pool = k, !.net = row(i),
                                            !.save = [job[w].view[k] EXCEPT !.next = next(i)]])
                       /\ Goto(w, "adopt") /\ UNCHANGED apps
             /\ UNCHANGED <<pools, events>>
    <3>1. PICK i \in free : IF Refused(row(i)) THEN DeployFails(w) /\ UNCHANGED <<netRows, poolRows>>
                  ELSE /\ netRows'  = netRows \cup {row(i)}
                       /\ poolRows' = [poolRows EXCEPT ![k].next = next(i)]
                       /\ With(w, [job[w] EXCEPT !.pool = k, !.net = row(i),
                                            !.save = [job[w].view[k] EXCEPT !.next = next(i)]])
                       /\ Goto(w, "adopt") /\ UNCHANGED apps
      BY <2>2
    <3>2. i \in 0..(Size[k] - 1) BY DEF FreeAt
    <3>3. row(i) \in NetRec BY <2>a, <3>2, SubnetOf DEF NetRec
    <3>4. next(i) \in Nat BY <3>2, NextIsNat
    <3>5. poolRows[k] \in PoolRec BY <1>a, <2>2 DEF TypeOK
    <3>6. [poolRows[k] EXCEPT !.next = next(i)] \in PoolRec /\ [job[w].view[k] EXCEPT !.next = next(i)] \in PoolRec
      BY <2>a, <3>4, <3>5, NextField
    <3>7. [job[w] EXCEPT !.pool = k, !.net = row(i), !.save = [job[w].view[k] EXCEPT !.next = next(i)]] \in Job
      BY <2>a, <3>3, <3>6 DEF Job
    <3> HIDE DEF free, row, next
    <3>8. CASE Refused(row(i)) BY <1>a, <2>2, <2>b, <2>d, <3>1, <3>8 DEF TypeOK
    <3>9. CASE ~Refused(row(i))
      <4>1. netRows' \subseteq NetRec BY <1>a, <3>1, <3>3, <3>9 DEF TypeOK
      <4>2. poolRows' \in [Pools -> PoolRec \cup {None}] BY <1>a, <3>1, <3>6, <3>9 DEF TypeOK
      <4>3. job' \in [Workers -> Job] /\ pc' \in [Workers -> PC]
        BY <1>a, <3>1, <3>7, <3>9 DEF TypeOK, PC, Serving, Networked
      <4> QED BY <1>a, <2>2, <2>b, <3>1, <3>9, <4>1, <4>2, <4>3 DEF TypeOK
    <3> QED BY <3>8, <3>9
  <2>3. CASE DeployFails(w) /\ UNCHANGED <<pools, poolRows, netRows, events>> BY <1>a, <2>b, <2>d, <2>3 DEF TypeOK
  <2>4. CASE DeployFails(w) /\ Event /\ UNCHANGED <<pools, poolRows, netRows>>
    BY <1>a, <2>b, <2>d, <2>4, BoundAssumption DEF TypeOK
  <2> QED BY <1>1, <2>1, <2>2, <2>3, <2>4 DEF TryPool
<1>2. ASSUME NEW w \in Workers, NoPoolLeft(w) PROVE TypeOK'
  BY <1>2, NoJobIsJob, HandTyped, <1>a DEF NoPoolLeft, DeployFails, Finish, stores, hosts, TypeOK, PC, Serving, Networked, Saving, Pooled
<1>3. ASSUME NEW w \in Workers, SaveFull(w) PROVE TypeOK'
  BY <1>3, NoJobIsJob, HandTyped, <1>a, SavePoolTyped DEF SaveFull, SavePool, Saved, Job, stores, hosts, TypeOK, PC, Serving, Networked, Saving, Pooled
<1>4. ASSUME NEW w \in Workers, Adopt(w) PROVE TypeOK'
  <2> DEFINE j == job[w]
             done == [NoJob EXCEPT !.proj = j.proj, !.node = j.node, !.net = j.net]
  <2>1. j.proj \in Projects /\ j.node \in Nodes /\ j.net \in NetRec /\ j.pool \in Pools /\ j.save \in PoolRec
    BY <1>4, <1>a, HandTyped DEF Adopt, Serving, Networked, Pooled, Saving
  <2>2. [j.save EXCEPT !.status = "active"] \in PoolRec BY <2>1, StatusField
  <2>3. done \in Job BY <2>1 DEF Job, NoJob
  <2>4. [done EXCEPT !.pool = j.pool, !.save = [j.save EXCEPT !.status = "active"]] \in Job
    BY <2>1, <2>2 DEF Job, NoJob
  <2> QED BY <1>4, <1>a, <2>1, <2>2, <2>3, <2>4 DEF Adopt, stores, hosts, TypeOK, PC, Serving, Networked, Saving, Pooled
<1>5. ASSUME NEW w \in Workers, SaveActive(w) PROVE TypeOK'
  BY <1>5, NoJobIsJob, HandTyped, <1>a, SavePoolTyped DEF SaveActive, SavePool, Saved, Job, stores, hosts, TypeOK, PC, Serving, Networked, Saving, Pooled
<1>6. ASSUME NEW w \in Workers, CreateNet(w) PROVE TypeOK'
  BY <1>6, NoJobIsJob, HandTyped, <1>a, AnsweredTyped DEF CreateNet, Answered, stores, hosts, TypeOK, PC, Serving, Networked, Saving, Pooled
<1>7. ASSUME NEW w \in Workers, Created(w) PROVE TypeOK'
  <2>1. pc[w] \in Networked /\ job[w].proj \in Projects BY <1>7, <1>a, HandTyped DEF Created, Networked, Serving
  <2>2. nets' \in [Projects -> NetRec \cup {None}] /\ job' \in [Workers -> Job] /\ pc' \in [Workers -> PC]
    BY <1>7, <1>a, <2>1, SetNetTyped DEF Created, PC, Serving, Networked
  <2> QED BY <1>7, <1>a, <2>1, <2>2 DEF Created, SetNet, hosts, TypeOK
<1>8. ASSUME NEW w \in Workers, SaveCreated(w) PROVE TypeOK'
  BY <1>8, NoJobIsJob, HandTyped, <1>a, SaveNetTyped DEF SaveCreated, SaveNet, DeployFails, Finish, stores, hosts, TypeOK, PC, Serving, Networked, Saving, Pooled
<1>9. ASSUME NEW w \in Workers, Up(w) PROVE TypeOK'
  BY <1>9, NoJobIsJob, HandTyped, <1>a, AnsweredTyped DEF Up, Answered, Finish, stores, hosts, TypeOK, PC, Serving, Networked, Saving, Pooled
<1>10. ASSUME NEW w \in Workers, Down(w) PROVE TypeOK'
  BY <1>10, NoJobIsJob, HandTyped, <1>a, AnsweredTyped DEF Down, Answered, Finish, stores, hosts, TypeOK, PC, Serving, Networked, Saving, Pooled
<1>11. ASSUME NEW w \in Workers, Release(w) PROVE TypeOK'
  <2>1. job[w].proj \in Projects /\ job[w] \in Job BY <1>11, <1>a, HandTyped DEF Release, Serving
  <2>2. CASE nets[job[w].proj] = None BY <1>11, <1>a, <2>2 DEF Release, stores, hosts, TypeOK, PC, Serving, Networked, Saving, Pooled
  <2>3. CASE nets[job[w].proj] # None
    <3> DEFINE n == nets[job[w].proj]
    <3>1. n \in NetRec /\ n.node \in Nodes BY <1>a, <2>1, <2>3 DEF TypeOK, NetRec
    <3>2. [job[w] EXCEPT !.node = n.node, !.net = n] \in Job BY <2>1, <3>1 DEF Job
    <3> QED BY <1>11, <1>a, <2>3, <3>2 DEF Release, stores, hosts, TypeOK, PC, Serving, Networked, Saving, Pooled
  <2> QED BY <2>2, <2>3
<1>12. ASSUME NEW w \in Workers, DeleteNet(w) PROVE TypeOK'
  BY <1>12, NoJobIsJob, HandTyped, <1>a, AnsweredTyped DEF DeleteNet, Answered, stores, hosts, TypeOK, PC, Serving, Networked, Saving, Pooled
<1>13. ASSUME NEW w \in Workers, Deleted(w) PROVE TypeOK'
  <2>1. pc[w] \in Networked /\ job[w].proj \in Projects BY <1>13, <1>a, HandTyped DEF Deleted, Networked, Serving
  <2>2. nets' \in [Projects -> NetRec \cup {None}] /\ job' \in [Workers -> Job] /\ pc' \in [Workers -> PC]
    BY <1>13, <1>a, <2>1, SetNetTyped DEF Deleted, PC, Serving, Networked
  <2> QED BY <1>13, <1>a, <2>1, <2>2 DEF Deleted, SetNet, hosts, TypeOK
<1>14. ASSUME NEW w \in Workers, SaveReleased(w) PROVE TypeOK'
  BY <1>14, NoJobIsJob, HandTyped, <1>a, SaveNetTyped DEF SaveReleased, SaveNet, stores, hosts, TypeOK, PC, Serving, Networked, Saving, Pooled
<1>15. ASSUME NEW w \in Workers, SaveFailed(w) PROVE TypeOK'
  BY <1>15, NoJobIsJob, HandTyped, <1>a, SaveNetTyped DEF SaveFailed, SaveNet, stores, hosts, TypeOK, PC, Serving, Networked, Saving, Pooled
<1>16. ASSUME NEW w \in Workers, Reopen(w) PROVE TypeOK'
  <2>1. job[w] \in Job /\ job[w].net.pool \in Pools BY <1>16, <1>a, HandTyped DEF Reopen, Networked
  <2>2. pools' \in [Pools -> PoolRec \cup {None}] /\ job' \in [Workers -> Job] /\ pc' \in [Workers -> PC]
    BY <1>16, <1>a, <2>1, SetPoolTyped DEF Reopen, TypeOK, PC, Serving, Networked
  <2> QED BY <1>16, <1>a, <2>2 DEF Reopen, stores, hosts, TypeOK
<1>17. ASSUME NEW w \in Workers, SaveReopened(w) PROVE TypeOK'
  BY <1>17, NoJobIsJob, HandTyped, <1>a, SavePoolTyped DEF SaveReopened, SavePool, Saved, Job, stores, hosts, TypeOK, PC, Serving, Networked, Saving, Pooled
<1>18. ASSUME NEW w \in Workers, Drop(w) PROVE TypeOK'
  BY <1>18, NoJobIsJob, HandTyped, <1>a DEF Drop, Finish, stores, hosts, TypeOK, PC, Serving, Networked, Saving, Pooled
<1>19. ASSUME NEW w \in Workers, InsertPool(w) PROVE TypeOK'
  BY <1>19, NoJobIsJob, HandTyped, <1>a, SavePoolTyped DEF InsertPool, SavePool, Finish, stores, hosts, TypeOK, PC, Serving, Networked, Saving, Pooled
<1>20. ASSUME NEW w \in Workers, AddPool(w) PROVE TypeOK'
  BY <1>20, NoJobIsJob, HandTyped, <1>a DEF AddPool, Finish, Job, stores, hosts, TypeOK, PC, Serving, Networked, Saving, Pooled
<1>21. ASSUME NEW w \in Workers, SaveUpdate(w) PROVE TypeOK'
  BY <1>21, NoJobIsJob, HandTyped, <1>a, SavePoolTyped DEF SaveUpdate, SavePool, Finish, stores, hosts, TypeOK, PC, Serving, Networked, Saving, Pooled
<1>22. ASSUME NEW w \in Workers, Checked(w) PROVE TypeOK'
  <2>1. job[w] \in Job /\ job[w].pool \in Pools BY <1>22, <1>a, HandTyped DEF Checked, Pooled, Saving
  <2>2. pools' \in [Pools -> PoolRec \cup {None}] /\ job' \in [Workers -> Job] /\ pc' \in [Workers -> PC]
    BY <1>22, <1>a, <2>1, NoJobIsJob, SetPoolTyped DEF Checked, Finish, TypeOK, PC, Pooled, Saving
  <2> QED BY <1>22, <1>a, <2>2 DEF Checked, stores, hosts, TypeOK
<1>23. ASSUME NEW w \in Workers, DeletePoolRow(w) PROVE TypeOK'
  BY <1>23, NoJobIsJob, HandTyped, <1>a DEF DeletePoolRow, Finish, stores, hosts, TypeOK, PC, Serving, Networked, Saving, Pooled
<1>24. ASSUME NEW w \in Workers, ForgetPool(w) PROVE TypeOK'
  BY <1>24, NoJobIsJob, HandTyped, <1>a DEF ForgetPool, Finish, stores, hosts, TypeOK, PC, Serving, Networked, Saving, Pooled
<1>25. ASSUME NEW p \in Projects, CoolDown(p) PROVE TypeOK'
  BY <1>25, NoJobIsJob, HandTyped, <1>a DEF CoolDown, stores, hosts, TypeOK, PC, Serving, Networked, Saving, Pooled
<1>26. ASSUME NEW o \in late, AgentLate(o) PROVE TypeOK'
  BY <1>26, NoJobIsJob, HandTyped, <1>a, ExecuteTyped, SubnetBound DEF AgentLate, stores, hosts, TypeOK, PC, Serving, Networked, Saving, Pooled
<1>27. ASSUME Restart PROVE TypeOK'
  <2>1. nets' \in [Projects -> NetRec \cup {None}]
    BY <1>27, <1>a DEF Restart, Load, TypeOK
  <2>2. late' \subseteq Order BY <1>27, <1>a, OrderTyped DEF Restart, TypeOK
  <2> QED BY <1>27, <1>a, <2>1, <2>2, NoJobIsJob, BoundAssumption DEF Restart, Load, TypeOK, PC
<1>28. ASSUME NEW w \in Workers, NEW p \in Projects, NEW n \in Nodes, Deploy(w, p, n) PROVE TypeOK'
  <2> DEFINE j == [NoJob EXCEPT !.proj = p, !.node = n]
             open == {l \in Pools : /\ NodeOf[l] = n /\ pools[l] # None
                                    /\ pools[l].status \in {"active", "exhausted"}}
  <2>1. j \in Job BY DEF Job, NoJob
  <2>2. [j EXCEPT !.todo = open, !.view = pools] \in Job BY <1>a DEF TypeOK, Job, NoJob
  <2>3. nets[p] # None => [j EXCEPT !.net = nets[p]] \in Job BY <1>a DEF TypeOK, Job, NoJob
  <2> QED BY <1>28, <1>a, <2>2, <2>3 DEF Deploy, stores, hosts, TypeOK, PC, Serving, Networked, Saving, Pooled
<1>29. ASSUME NEW w \in Workers, NEW p \in Projects, NEW n \in Nodes, Remove(w, p, n) PROVE TypeOK'
  BY <1>29, NoJobIsJob, HandTyped, <1>a DEF Remove, Job, NoJob, stores, hosts, TypeOK, PC, Serving, Networked, Saving, Pooled
<1>30. ASSUME NEW w \in Workers, NEW k \in Pools, CreatePool(w, k) PROVE TypeOK'
  BY <1>30, NoJobIsJob, HandTyped, <1>a, NewPoolTyped DEF CreatePool, Job, NoJob, stores, hosts, TypeOK, PC, Serving, Networked, Saving, Pooled
<1>31. ASSUME NEW w \in Workers, NEW k \in Pools, CheckPool(w, k) PROVE TypeOK'
  BY <1>31, NoJobIsJob, HandTyped, <1>a DEF CheckPool, Job, NoJob, stores, hosts, TypeOK, PC, Serving, Networked, Saving, Pooled
<1>32. ASSUME NEW w \in Workers, NEW k \in Pools, DeletePool(w, k) PROVE TypeOK'
  BY <1>32, NoJobIsJob, HandTyped, <1>a DEF DeletePool, Job, NoJob, stores, hosts, TypeOK, PC, Serving, Networked, Saving, Pooled
<1>33. ASSUME NEW w \in Workers, NEW k \in Pools, NEW status \in PoolStatus, NEW reuse \in BOOLEAN, UpdatePool(w, k, status, reuse) PROVE TypeOK'
  <2>1. pools' \in [Pools -> PoolRec \cup {None}] /\ job' \in [Workers -> Job] /\ pc' \in [Workers -> PC]
    BY <1>33, <1>a, UpdateTyped DEF UpdatePool
  <2> QED BY <1>33, <1>a, <2>1 DEF UpdatePool, hosts, TypeOK
<1>34. ASSUME NEW p \in Projects, Register(p) PROVE TypeOK'
  BY <1>34, NoJobIsJob, HandTyped, <1>a DEF Register, stores, hosts, TypeOK, PC, Serving, Networked, Saving, Pooled
<1>35. ASSUME NEW w \in Workers, DefaultPool(w) PROVE TypeOK'
  <2>1. job[w].pool \in Pools BY <1>35, <1>a, HandTyped DEF DefaultPool, Pooled
  <2>2. pools' \in [Pools -> PoolRec \cup {None}] /\ job' \in [Workers -> Job] /\ pc' \in [Workers -> PC]
    BY <1>35, <1>a, <2>1, NoJobIsJob, UpdateTyped DEF DefaultPool, Finish, TypeOK, PC
  <2> QED BY <1>35, <1>a, <2>2 DEF DefaultPool, hosts, TypeOK
<1> QED BY <1>1, <1>2, <1>3, <1>4, <1>5, <1>6, <1>7, <1>8, <1>9, <1>10, <1>11, <1>12, <1>13, <1>14, <1>15, <1>16, <1>17, <1>18, <1>19, <1>20, <1>21, <1>22, <1>23, <1>24, <1>25, <1>26, <1>27, <1>28, <1>29, <1>30, <1>31, <1>32, <1>33, <1>34, <1>35 DEF Next, Working, Deploying, Removing, Managing, Requests

LEMMA FitsStep ==
  ASSUME TypeOK, HandsShaped, NEW w \in Workers, NEW to, NEW j,
         pc' = [pc EXCEPT ![w] = to], job' = [job EXCEPT ![w] = j], Fits(to, j)
  PROVE HandsShaped'
  BY DEF HandsShaped, TypeOK, Fits

LEMMA SetNetFits ==
  ASSUME TypeOK, HandsShaped, NEW w \in Workers, pc[w] \in Networked,
         NEW status \in {"reserved", "active", "failed", "released"},
         NEW to \in Networked \ Saving, SetNet(w, status, to)
  PROVE HandsShaped'
<1> DEFINE n == [nets[job[w].proj] EXCEPT !.status = status]
<1>1. job[w].proj \in Projects /\ job[w].node \in Nodes /\ job[w] \in Job BY HandTyped DEF Serving
<1>2. n \in NetRec BY <1>1 DEF TypeOK, SetNet, NetRec
<1>3. n # None BY <1>2, NoneAssumption
<1>4. \A r : r # None => Fits(to, [job[w] EXCEPT !.net = r]) BY <1>1 DEF Fits, Serving, Networked, Pooled, Saving, Job
<1> QED BY <1>3, <1>4, FitsStep DEF SetNet

LEMMA UpdateFits ==
  ASSUME TypeOK, HandsShaped, NEW w \in Workers, NEW k \in Pools, NEW status \in PoolStatus, NEW reuse \in BOOLEAN,
         Update(w, k, status, reuse)
  PROVE HandsShaped'
<1> DEFINE rec == [pools[k] EXCEPT !.status = status, !.reuse = reuse]
<1>1. rec # None BY UpdateField DEF Update, TypeOK
<1>2. \A r : r # None => Fits("savePool", [NoJob EXCEPT !.pool = k, !.save = r])
  BY NoneAssumption DEF Fits, Serving, Networked, Pooled, Saving, NoJob
<1> QED BY <1>1, <1>2, FitsStep DEF Update

LEMMA ShapeStep == ASSUME IInv, Next PROVE HandsShaped'
<1>a. TypeOK /\ HandsShaped
  BY DEF IInv
<1>1. ASSUME NEW w \in Workers, NEW k \in Pools, TryPool(w, k) PROVE HandsShaped'
  <2>a. pc[w] = "try" /\ k \in job[w].todo /\ k \in Pools /\ job[w].proj \in Projects
        /\ job[w].node \in Nodes /\ job[w].view[k] # None /\ Fits(pc[w], job[w]) /\ job[w] \in Job
    BY <1>1, <1>a, HandTyped, NoneAssumption DEF TryPool, Serving, HandsShaped
  <2>1. CASE DeployFails(w) BY <1>a, <2>1, FitsStep DEF DeployFails, Finish, Fits, Serving, Networked, Pooled, Saving
  <2>2. CASE /\ job' = [job EXCEPT ![w] = [job[w] EXCEPT !.todo = job[w].todo \ {k}]] /\ UNCHANGED pc
    <3>1. Fits("try", [job[w] EXCEPT !.todo = job[w].todo \ {k}]) BY <2>a DEF Fits, Serving, Networked, Pooled, Saving, Job
    <3>2. pc' = [pc EXCEPT ![w] = "try"] BY <1>a, <2>a, <2>2 DEF TypeOK
    <3> QED BY <1>a, <2>2, <3>1, <3>2, FitsStep
  <2>3. CASE /\ SetPool(w, [job[w] EXCEPT !.todo = job[w].todo \ {k}], k, "exhausted", "saveFull")
             /\ pools[k] # None
    <3>1. [pools[k] EXCEPT !.status = "exhausted"] # None BY <1>a, <2>3, StatusField DEF TypeOK
    <3>2. \A rec : rec # None => Fits("saveFull", [[job[w] EXCEPT !.todo = job[w].todo \ {k}] EXCEPT !.pool = k, !.save = rec])
      BY <2>a, NoneAssumption DEF Fits, Serving, Networked, Pooled, Saving, Job
    <3> QED BY <1>a, <2>3, <3>1, <3>2, FitsStep DEF SetPool
  <2>4. ASSUME NEW net, NEW save, net # None, save # None, Goto(w, "adopt"),
               With(w, [job[w] EXCEPT !.pool = k, !.net = net, !.save = save])
        PROVE HandsShaped'
    <3>1. Fits("adopt", [job[w] EXCEPT !.pool = k, !.net = net, !.save = save])
      BY <2>a, <2>4, NoneAssumption DEF Fits, Serving, Networked, Pooled, Saving, Job
    <3> QED BY <1>a, <2>4, <3>1, FitsStep
  <2>5. ASSUME NEW i, i \in FreeAt(k, job[w].view[k].reuse) PROVE
          /\ [proj |-> job[w].proj, node |-> job[w].node, pool |-> k,
              sub |-> Base[k] + i, status |-> "reserved"] # None
          /\ [job[w].view[k] EXCEPT !.next = (i + 1) % Size[k]] # None
    <3>1. i \in 0..(Size[k] - 1) BY <2>5 DEF FreeAt
    <3>2. job[w].view[k] \in PoolRec BY <2>a, <1>a, HandTyped
    <3>3. [job[w].view[k] EXCEPT !.next = (i + 1) % Size[k]] \in PoolRec BY <3>1, <3>2, NextIsNat, NextField
    <3>4. [proj |-> job[w].proj, node |-> job[w].node, pool |-> k,
           sub |-> Base[k] + i, status |-> "reserved"] \in NetRec BY <2>a, <3>1, SubnetOf DEF NetRec
    <3> QED BY <3>3, <3>4, NoneAssumption
  <2> QED BY <1>1, <2>1, <2>2, <2>3, <2>4, <2>5 DEF TryPool
<1>2. ASSUME NEW w \in Workers, NoPoolLeft(w) PROVE HandsShaped'
  BY <1>2, HandTyped, <1>a DEF NoPoolLeft, DeployFails, Finish, stores, hosts, HandsShaped, TypeOK, Fits, Serving, Networked, Pooled, Saving, Job, NoJob
<1>3. ASSUME NEW w \in Workers, SaveFull(w) PROVE HandsShaped'
  <2>1. Fits(pc[w], job[w]) /\ pc[w] = "saveFull" /\ job[w] \in Job BY <1>3, <1>a, HandTyped DEF HandsShaped, SaveFull
  <2>2. Fits("try", Saved(w)) BY <2>1 DEF Saved, Job, Fits, Serving, Networked, Pooled, Saving
  <2> QED BY <1>3, <1>a, <2>2, FitsStep DEF SaveFull
<1>4. ASSUME NEW w \in Workers, Adopt(w) PROVE HandsShaped'
  <2> DEFINE done == [NoJob EXCEPT !.proj = job[w].proj, !.node = job[w].node, !.net = job[w].net]
  <2>1. Fits(pc[w], job[w]) /\ pc[w] = "adopt" /\ job[w].save \in PoolRec
    BY <1>4, <1>a, HandTyped DEF HandsShaped, Adopt, Saving
  <2>2. [job[w].save EXCEPT !.status = "active"] # None BY <2>1, StatusField
  <2>3. Fits("create", done) BY <2>1 DEF Fits, Serving, Networked, Pooled, Saving, NoJob
  <2>4. Fits("saveActive", [done EXCEPT !.pool = job[w].pool, !.save = [job[w].save EXCEPT !.status = "active"]])
    BY <2>1, <2>2 DEF Fits, Serving, Networked, Pooled, Saving, NoJob
  <2> QED BY <1>4, <1>a, <2>3, <2>4, FitsStep DEF Adopt
<1>5. ASSUME NEW w \in Workers, SaveActive(w) PROVE HandsShaped'
  BY <1>5, HandTyped, <1>a DEF SaveActive, SavePool, Saved, Job, stores, hosts, HandsShaped, TypeOK, Fits, Serving, Networked, Pooled, Saving, NoJob
<1>6. ASSUME NEW w \in Workers, CreateNet(w) PROVE HandsShaped'
  BY <1>6, HandTyped, <1>a DEF CreateNet, Answered, stores, hosts, HandsShaped, TypeOK, Fits, Serving, Networked, Pooled, Saving, Job, NoJob
<1>7. ASSUME NEW w \in Workers, Created(w) PROVE HandsShaped'
  <2>1. ASSUME NEW status \in {"reserved", "active", "failed", "released"}, NEW to \in {"saveCreated", "saveReserved"},
               SetNet(w, status, to), pc[w] \in Networked
        PROVE HandsShaped'
    BY <1>a, <2>1, SetNetFits DEF Networked, Saving
  <2> QED BY <1>7, <2>1 DEF Created, Networked
<1>8. ASSUME NEW w \in Workers, SaveCreated(w) PROVE HandsShaped'
  BY <1>8, HandTyped, <1>a DEF SaveCreated, SaveNet, DeployFails, Finish, stores, hosts, HandsShaped, TypeOK, Fits, Serving, Networked, Pooled, Saving, Job, NoJob
<1>9. ASSUME NEW w \in Workers, Up(w) PROVE HandsShaped'
  BY <1>9, HandTyped, <1>a DEF Up, Answered, Finish, stores, hosts, HandsShaped, TypeOK, Fits, Serving, Networked, Pooled, Saving, Job, NoJob
<1>10. ASSUME NEW w \in Workers, Down(w) PROVE HandsShaped'
  BY <1>10, HandTyped, <1>a DEF Down, Answered, Finish, stores, hosts, HandsShaped, TypeOK, Fits, Serving, Networked, Pooled, Saving, Job, NoJob
<1>11. ASSUME NEW w \in Workers, Release(w) PROVE HandsShaped'
  <2> DEFINE n == nets[job[w].proj]
  <2>1. Fits(pc[w], job[w]) /\ pc[w] = "release" /\ job[w] \in Job /\ job[w].proj \in Projects
    BY <1>11, <1>a, HandTyped DEF HandsShaped, Release, Serving
  <2>2. CASE n = None
    <3>1. job' = [job EXCEPT ![w] = job[w]] BY <1>11, <1>a, <2>2 DEF Release, TypeOK
    <3>2. Fits("drop", job[w]) BY <2>1 DEF Fits, Serving, Networked, Pooled, Saving
    <3> QED BY <1>11, <1>a, <2>2, <3>1, <3>2, FitsStep DEF Release
  <2>3. CASE n # None
    <3>1. n.node \in Nodes BY <1>a, <2>1, <2>3 DEF TypeOK, NetRec
    <3>2. Fits("delete", [job[w] EXCEPT !.node = n.node, !.net = n]) BY <2>1, <2>3, <3>1 DEF Fits, Serving, Networked, Pooled, Saving, Job
    <3> QED BY <1>11, <1>a, <2>3, <3>2, FitsStep DEF Release
  <2> QED BY <2>2, <2>3
<1>12. ASSUME NEW w \in Workers, DeleteNet(w) PROVE HandsShaped'
  BY <1>12, HandTyped, <1>a DEF DeleteNet, Answered, stores, hosts, HandsShaped, TypeOK, Fits, Serving, Networked, Pooled, Saving, Job, NoJob
<1>13. ASSUME NEW w \in Workers, Deleted(w) PROVE HandsShaped'
  <2>1. pc[w] \in Networked BY <1>13 DEF Deleted, Networked
  <2> QED BY <1>13, <1>a, <2>1, SetNetFits DEF Deleted, Networked, Saving
<1>14. ASSUME NEW w \in Workers, SaveReleased(w) PROVE HandsShaped'
  BY <1>14, HandTyped, <1>a DEF SaveReleased, SaveNet, stores, hosts, HandsShaped, TypeOK, Fits, Serving, Networked, Pooled, Saving, Job, NoJob
<1>15. ASSUME NEW w \in Workers, SaveFailed(w) PROVE HandsShaped'
  BY <1>15, HandTyped, <1>a DEF SaveFailed, SaveNet, stores, hosts, HandsShaped, TypeOK, Fits, Serving, Networked, Pooled, Saving, Job, NoJob
<1>16. ASSUME NEW w \in Workers, Reopen(w) PROVE HandsShaped'
  <2> DEFINE k == job[w].net.pool
  <2>1. Fits(pc[w], job[w]) /\ pc[w] = "reopen" /\ job[w] \in Job /\ k \in Pools
    BY <1>16, <1>a, HandTyped DEF HandsShaped, Reopen, Networked
  <2>2. CASE SetPool(w, job[w], k, "active", "saveReopened") /\ pools[k] # None
    <3>1. [pools[k] EXCEPT !.status = "active"] # None BY <1>a, <2>1, <2>2, StatusField DEF TypeOK
    <3>2. \A rec : rec # None => Fits("saveReopened", [job[w] EXCEPT !.pool = k, !.save = rec])
      BY <2>1, NoneAssumption DEF Fits, Serving, Networked, Pooled, Saving, Job
    <3> QED BY <1>a, <2>2, <3>1, <3>2, FitsStep DEF SetPool
  <2>3. CASE Goto(w, "drop") /\ UNCHANGED job
    <3>1. job' = [job EXCEPT ![w] = job[w]] BY <1>a, <2>3 DEF TypeOK
    <3>2. Fits("drop", job[w]) BY <2>1 DEF Fits, Serving, Networked, Pooled, Saving
    <3> QED BY <1>a, <2>3, <3>1, <3>2, FitsStep
  <2> QED BY <1>16, <2>2, <2>3 DEF Reopen
<1>17. ASSUME NEW w \in Workers, SaveReopened(w) PROVE HandsShaped'
  BY <1>17, HandTyped, <1>a DEF SaveReopened, SavePool, Saved, Job, stores, hosts, HandsShaped, TypeOK, Fits, Serving, Networked, Pooled, Saving, NoJob
<1>18. ASSUME NEW w \in Workers, Drop(w) PROVE HandsShaped'
  BY <1>18, HandTyped, <1>a DEF Drop, Finish, stores, hosts, HandsShaped, TypeOK, Fits, Serving, Networked, Pooled, Saving, Job, NoJob
<1>19. ASSUME NEW w \in Workers, InsertPool(w) PROVE HandsShaped'
  BY <1>19, HandTyped, <1>a DEF InsertPool, SavePool, Finish, stores, hosts, HandsShaped, TypeOK, Fits, Serving, Networked, Pooled, Saving, Job, NoJob
<1>20. ASSUME NEW w \in Workers, AddPool(w) PROVE HandsShaped'
  BY <1>20, HandTyped, <1>a DEF AddPool, stores, hosts, HandsShaped, TypeOK, Fits, Serving, Networked, Pooled, Saving
<1>21. ASSUME NEW w \in Workers, SaveUpdate(w) PROVE HandsShaped'
  BY <1>21, HandTyped, <1>a DEF SaveUpdate, SavePool, Finish, stores, hosts, HandsShaped, TypeOK, Fits, Serving, Networked, Pooled, Saving, Job, NoJob
<1>22. ASSUME NEW w \in Workers, Checked(w) PROVE HandsShaped'
  <2> DEFINE k == job[w].pool
  <2>1. Fits(pc[w], job[w]) /\ pc[w] = "check" /\ job[w] \in Job /\ k \in Pools
    BY <1>22, <1>a, HandTyped DEF HandsShaped, Checked, Pooled, Saving
  <2>2. ASSUME NEW status \in {"active", "conflict"}, SetPool(w, job[w], k, status, "savePool"), pools[k] # None
        PROVE HandsShaped'
    <3>1. [pools[k] EXCEPT !.status = status] # None BY <1>a, <2>1, <2>2, StatusField DEF TypeOK
    <3>2. \A rec : rec # None => Fits("savePool", [job[w] EXCEPT !.pool = k, !.save = rec])
      BY <2>1, NoneAssumption DEF Fits, Serving, Networked, Pooled, Saving, Job
    <3> QED BY <1>a, <2>2, <3>1, <3>2, FitsStep DEF SetPool
  <2>3. CASE Finish(w) BY <1>a, <2>3, FitsStep DEF Finish, Fits, Serving, Networked, Pooled, Saving
  <2> QED BY <1>22, <2>2, <2>3 DEF Checked
<1>23. ASSUME NEW w \in Workers, DeletePoolRow(w) PROVE HandsShaped'
  BY <1>23, HandTyped, <1>a DEF DeletePoolRow, Finish, stores, hosts, HandsShaped, TypeOK, Fits, Serving, Networked, Pooled, Saving, Job, NoJob
<1>24. ASSUME NEW w \in Workers, ForgetPool(w) PROVE HandsShaped'
  BY <1>24, HandTyped, <1>a DEF ForgetPool, Finish, stores, hosts, HandsShaped, TypeOK, Fits, Serving, Networked, Pooled, Saving, Job, NoJob
<1>25. ASSUME NEW p \in Projects, CoolDown(p) PROVE HandsShaped'
  BY <1>25, HandTyped, <1>a DEF CoolDown, stores, hosts, HandsShaped, TypeOK, Fits, Serving, Networked, Pooled, Saving, Job, NoJob
<1>26. ASSUME NEW o \in late, AgentLate(o) PROVE HandsShaped'
  BY <1>26, HandTyped, <1>a DEF AgentLate, stores, hosts, HandsShaped, TypeOK, Fits, Serving, Networked, Pooled, Saving, Job, NoJob
<1>27. ASSUME Restart PROVE HandsShaped'
  BY <1>27, HandTyped, <1>a DEF Restart, Load, stores, hosts, HandsShaped, TypeOK, Fits, Serving, Networked, Pooled, Saving, Job, NoJob
<1>28. ASSUME NEW w \in Workers, NEW p \in Projects, NEW n \in Nodes, Deploy(w, p, n) PROVE HandsShaped'
  <2> DEFINE j == [NoJob EXCEPT !.proj = p, !.node = n]
             open == {l \in Pools : /\ NodeOf[l] = n /\ pools[l] # None
                                    /\ pools[l].status \in {"active", "exhausted"}}
  <2>1. Fits("try", [j EXCEPT !.todo = open, !.view = pools]) BY DEF Fits, Serving, Networked, Pooled, Saving, NoJob
  <2>2. nets[p] # None => Fits("create", [j EXCEPT !.net = nets[p]]) BY DEF Fits, Serving, Networked, Pooled, Saving, NoJob
  <2> QED BY <1>28, <1>a, <2>1, <2>2, FitsStep DEF Deploy
<1>29. ASSUME NEW w \in Workers, NEW p \in Projects, NEW n \in Nodes, Remove(w, p, n) PROVE HandsShaped'
  BY <1>29, HandTyped, <1>a DEF Remove, Job, NoJob, stores, hosts, HandsShaped, TypeOK, Fits, Serving, Networked, Pooled, Saving
<1>30. ASSUME NEW w \in Workers, NEW k \in Pools, CreatePool(w, k) PROVE HandsShaped'
  <2>1. NewPool # None BY NewPoolTyped
  <2>2. \A rec : rec # None => Fits("insertPool", [NoJob EXCEPT !.pool = k, !.save = rec])
    BY NoneAssumption DEF Fits, Serving, Networked, Pooled, Saving, NoJob
  <2> QED BY <1>30, <1>a, <2>1, <2>2, FitsStep DEF CreatePool
<1>31. ASSUME NEW w \in Workers, NEW k \in Pools, CheckPool(w, k) PROVE HandsShaped'
  <2>1. pools[k] # None => Fits("check", [NoJob EXCEPT !.pool = k, !.save = pools[k]])
    BY NoneAssumption DEF Fits, Serving, Networked, Pooled, Saving, NoJob
  <2> QED BY <1>31, <1>a, <2>1, FitsStep DEF CheckPool
<1>32. ASSUME NEW w \in Workers, NEW k \in Pools, DeletePool(w, k) PROVE HandsShaped'
  <2>1. Fits("deletePool", [NoJob EXCEPT !.pool = k]) BY NoneAssumption DEF Fits, Serving, Networked, Pooled, Saving, NoJob
  <2> QED BY <1>32, <1>a, <2>1, FitsStep DEF DeletePool
<1>33. ASSUME NEW w \in Workers, NEW k \in Pools, NEW status \in PoolStatus, NEW reuse \in BOOLEAN, UpdatePool(w, k, status, reuse) PROVE HandsShaped'
  BY <1>33, <1>a, UpdateFits DEF UpdatePool
<1>34. ASSUME NEW p \in Projects, Register(p) PROVE HandsShaped'
  BY <1>34, HandTyped, <1>a DEF Register, stores, hosts, HandsShaped, TypeOK, Fits, Serving, Networked, Pooled, Saving, Job, NoJob
<1>35. ASSUME NEW w \in Workers, DefaultPool(w) PROVE HandsShaped'
  <2>1. job[w].pool \in Pools BY <1>35, <1>a, HandTyped DEF DefaultPool, Pooled
  <2>2. CASE Finish(w) BY <1>a, <2>2, FitsStep DEF Finish, Fits, Serving, Networked, Pooled, Saving
  <2> QED BY <1>35, <1>a, <2>1, <2>2, UpdateFits DEF DefaultPool
<1> QED BY <1>1, <1>2, <1>3, <1>4, <1>5, <1>6, <1>7, <1>8, <1>9, <1>10, <1>11, <1>12, <1>13, <1>14, <1>15, <1>16, <1>17, <1>18, <1>19, <1>20, <1>21, <1>22, <1>23, <1>24, <1>25, <1>26, <1>27, <1>28, <1>29, <1>30, <1>31, <1>32, <1>33, <1>34, <1>35 DEF Next, Working, Deploying, Removing, Managing, Requests

------------------------------------------------------------------------------
(* What the rows bind stays bound.                                         *)

\* Only an allocation adds a row, and only the save of a network replaces one.
LEMMA WhoWritesRows ==
  ASSUME Next
  PROVE \/ UNCHANGED netRows
        \/ \E w \in Workers, k \in Pools : TryPool(w, k)
        \/ \E w \in Workers : pc[w] \in Networked /\ SaveNet(w, TRUE)
<1>1. CASE Working
  <2>1. ASSUME NEW w \in Workers, SaveReleased(w) \/ SaveFailed(w) \/ SaveCreated(w)
        PROVE UNCHANGED netRows \/ (pc[w] \in Networked /\ SaveNet(w, TRUE))
    <3>1. pc[w] \in Networked /\ \E ok \in BOOLEAN : SaveNet(w, ok)
      BY <2>1 DEF SaveReleased, SaveFailed, SaveCreated, Networked
    <3>2. SaveNet(w, FALSE) => UNCHANGED netRows BY DEF SaveNet
    <3> QED BY <3>1, <3>2
  <2>2. ASSUME NEW w \in Workers, Deploying(w)
        PROVE UNCHANGED netRows \/ SaveCreated(w) \/ \E k \in Pools : TryPool(w, k)
    BY <2>2 DEF Deploying, NoPoolLeft, SaveFull, SavePool, Adopt, SaveActive, CreateNet, Created, SetNet, Up, stores
  <2>3. ASSUME NEW w \in Workers, Removing(w) PROVE UNCHANGED netRows \/ SaveReleased(w) \/ SaveFailed(w)
    BY <2>3 DEF Removing, Down, Release, DeleteNet, Deleted, SetNet, Reopen, SaveReopened, SavePool, Drop, stores
  <2>4. ASSUME NEW w \in Workers, Managing(w) PROVE UNCHANGED netRows
    BY <2>4 DEF Managing, InsertPool, AddPool, DefaultPool, Update, SaveUpdate, SavePool, Checked, DeletePoolRow, ForgetPool
  <2> QED BY <1>1, <2>1, <2>2, <2>3, <2>4 DEF Working, CoolDown, AgentLate, Restart, stores
<1>2. ASSUME NEW w \in Workers, Requests(w) PROVE UNCHANGED netRows
  BY <1>2 DEF Requests, Deploy, Remove, CreatePool, CheckPool, DeletePool, UpdatePool, Register, stores
<1> QED BY <1>1, <1>2 DEF Next

\* An allocation adds at most one row, one the unique indexes admit, of a pool
\* that has its row, and takes it in hand.
LEMMA TryPoolRows ==
  ASSUME IInv, NEW w \in Workers, NEW k \in Pools, TryPool(w, k)
  PROVE \/ UNCHANGED netRows
        \/ \E r \in NetRec : /\ ~Refused(r) /\ netRows' = netRows \cup {r} /\ r.pool = k
                             /\ poolRows[k] # None
<1>1. job[w].proj \in Projects /\ job[w].node \in Nodes BY HandTyped DEF TryPool, IInv, Serving
<1>2. ASSUME NEW i \in FreeAt(k, job[w].view[k].reuse)
      PROVE [proj |-> job[w].proj, node |-> job[w].node, pool |-> k, sub |-> Base[k] + i,
             status |-> "reserved"] \in NetRec
  <2>1. i \in 0..(Size[k] - 1) BY DEF FreeAt
  <2> QED BY <1>1, <2>1, SubnetOf DEF NetRec
<1> QED BY <1>2 DEF TryPool

\* The row a save replaces is that of the project, and of the same pool.
LEMMA SaveNetRows ==
  ASSUME IInv, NEW w \in Workers, pc[w] \in Networked, SaveNet(w, TRUE)
  PROVE LET n == job[w].net IN
        /\ netRows' = {r \in netRows : ~SameNet(r, n)} \cup {n} /\ UNCHANGED poolRows
        /\ n \in NetRec /\ \E b \in netRows : SameNet(b, n) /\ b.pool = n.pool
<1>1. job[w].net \in NetRec BY HandTyped DEF IInv
<1>2. job[w].net # None BY <1>1, NoneAssumption
<1> QED BY <1>1, <1>2 DEF SaveNet, IInv, HandsBound, Bound

\* The rows only grow, by what they bind.
LEMMA BindingsGrow ==
  ASSUME IInv, Next
  PROVE \A r \in netRows : \E s \in netRows' : SameNet(s, r) /\ s.pool = r.pool
<1>1. CASE UNCHANGED netRows BY <1>1 DEF SameNet
<1>2. ASSUME NEW w \in Workers, NEW k \in Pools, TryPool(w, k)
      PROVE \A r \in netRows : \E s \in netRows' : SameNet(s, r) /\ s.pool = r.pool
  BY <1>2, TryPoolRows DEF SameNet
<1>3. ASSUME NEW w \in Workers, pc[w] \in Networked, SaveNet(w, TRUE)
      PROVE \A r \in netRows : \E s \in netRows' : SameNet(s, r) /\ s.pool = r.pool
  <2> DEFINE n == job[w].net
  <2>1. netRows' = {r \in netRows : ~SameNet(r, n)} \cup {n} BY <1>3, SaveNetRows
  <2>2. PICK b \in netRows : SameNet(b, n) /\ b.pool = n.pool BY <1>3, SaveNetRows
  <2>3. \A r \in netRows : SameNet(r, n) => r = b BY <2>2 DEF IInv, RowsApart, SameNet
  <2> QED BY <2>1, <2>2, <2>3 DEF SameNet
<1> QED BY <1>1, <1>2, <1>3, WhoWritesRows

LEMMA RowsStep == ASSUME IInv, Next PROVE RowsApart'
<1>1. CASE UNCHANGED netRows BY <1>1 DEF IInv, RowsApart
<1>2. ASSUME NEW w \in Workers, NEW k \in Pools, TryPool(w, k) PROVE RowsApart'
  BY <1>2, TryPoolRows DEF IInv, RowsApart, Refused
<1>3. ASSUME NEW w \in Workers, pc[w] \in Networked, SaveNet(w, TRUE) PROVE RowsApart'
  <2> DEFINE n == job[w].net
  <2>1. netRows' = {r \in netRows : ~SameNet(r, n)} \cup {n} BY <1>3, SaveNetRows
  <2>2. PICK b \in netRows : SameNet(b, n) BY <1>3, SaveNetRows
  <2>3. ASSUME NEW r \in netRows, r.proj = n.proj \/ (r.node = n.node /\ r.sub = n.sub) PROVE SameNet(r, n)
    BY <2>2, <2>3 DEF IInv, RowsApart, SameNet
  <2> HIDE DEF n
  <2> QED BY <2>1, <2>3 DEF IInv, RowsApart
<1> QED BY <1>1, <1>2, <1>3, WhoWritesRows

\* The row of a pool that networks refer to is never deleted: it is saved, or
\* deleted by a step that sees no reference.
LEMMA PoolRowsStay ==
  ASSUME IInv, Next, NEW k \in Pools, poolRows[k] # None, Referenced(k)
  PROVE poolRows'[k] # None
<1>a. TypeOK /\ HandsShaped BY DEF IInv
<1>1. ASSUME NEW w \in Workers, NEW ok \in BOOLEAN, pc[w] \in Saving, SavePool(w, ok) PROVE poolRows'[k] # None
  <2>1. job[w].save # None /\ job[w].pool \in Pools BY <1>a, <1>1, HandTyped, NoneAssumption DEF Pooled
  <2> QED BY <1>a, <1>1, <2>1 DEF SavePool, TypeOK
<1>2. ASSUME NEW w \in Workers, NEW l \in Pools, TryPool(w, l) PROVE poolRows'[k] # None
  <2>1. CASE UNCHANGED poolRows BY <2>1
  <2>2. ASSUME NEW i \in FreeAt(l, job[w].view[l].reuse), poolRows[l] # None,
               poolRows' = [poolRows EXCEPT ![l].next = (i + 1) % Size[l]]
        PROVE poolRows'[k] # None
    <3>1. poolRows[l] \in PoolRec BY <1>a, <2>2 DEF TypeOK
    <3>2. i \in 0..(Size[l] - 1) BY DEF FreeAt
    <3>3. [poolRows[l] EXCEPT !.next = (i + 1) % Size[l]] # None BY <3>1, <3>2, NextIsNat, NextField
    <3> QED BY <1>a, <2>2, <3>3 DEF TypeOK
  <2> QED BY <1>2, <2>1, <2>2 DEF TryPool
<1>3. ASSUME NEW w \in Workers, DeletePoolRow(w) PROVE poolRows'[k] # None
  BY <1>a, <1>3, HandTyped DEF DeletePoolRow, Pooled, TypeOK
<1>4. CASE Working
  <2>1. ASSUME NEW w \in Workers, Deploying(w), ~\E l \in Pools : TryPool(w, l)
        PROVE UNCHANGED poolRows \/ (pc[w] \in Saving /\ \E ok \in BOOLEAN : SavePool(w, ok))
    BY <2>1 DEF Deploying, NoPoolLeft, SaveFull, Adopt, SaveActive, CreateNet, Created, SetNet, SaveCreated, SaveNet, Up, stores, Saving
  <2>2. ASSUME NEW w \in Workers, Removing(w)
        PROVE UNCHANGED poolRows \/ (pc[w] \in Saving /\ \E ok \in BOOLEAN : SavePool(w, ok))
    BY <2>2 DEF Removing, Down, Release, DeleteNet, Deleted, SetNet, SaveReleased, SaveFailed, SaveNet, Reopen, SaveReopened, Drop, stores, Saving
  <2>3. ASSUME NEW w \in Workers, Managing(w)
        PROVE UNCHANGED poolRows \/ DeletePoolRow(w) \/ (pc[w] \in Saving /\ \E ok \in BOOLEAN : SavePool(w, ok))
    BY <2>3 DEF Managing, InsertPool, AddPool, DefaultPool, Update, SaveUpdate, Checked, ForgetPool, Saving
  <2> QED BY <1>4, <1>1, <1>2, <1>3, <2>1, <2>2, <2>3 DEF Working, CoolDown, AgentLate, Restart, stores
<1>5. ASSUME NEW w \in Workers, Requests(w) PROVE UNCHANGED poolRows
  BY <1>5 DEF Requests, Deploy, Remove, CreatePool, CheckPool, DeletePool, UpdatePool, Register, stores
<1> QED BY <1>4, <1>5 DEF Next

LEMMA PoolsStep == ASSUME IInv, Next PROVE PoolsStay'
<1>a. ASSUME NEW k \in Pools, Referenced(k) PROVE poolRows'[k] # None
  BY <1>a, PoolRowsStay DEF IInv, PoolsStay, Referenced
<1>b. \A r \in netRows : r.pool \in Pools BY DEF IInv, TypeOK, NetRec
<1>1. CASE UNCHANGED netRows BY <1>1, <1>a, <1>b DEF PoolsStay, Referenced
<1>2. ASSUME NEW w \in Workers, NEW k \in Pools, TryPool(w, k) PROVE PoolsStay'
  <2>1. CASE UNCHANGED netRows BY <2>1, <1>a, <1>b DEF PoolsStay, Referenced
  <2>2. CASE netRows' # netRows
    <3>1. PICK r \in NetRec : netRows' = netRows \cup {r} /\ r.pool = k BY <1>2, <2>2, TryPoolRows
    <3>2. poolRows'[k] # None
      <4>1. PICK i \in FreeAt(k, job[w].view[k].reuse) : poolRows' = [poolRows EXCEPT ![k].next = (i + 1) % Size[k]]
        BY <1>2, <2>2 DEF TryPool
      <4>2. i \in 0..(Size[k] - 1) BY DEF FreeAt
      <4>3. poolRows[k] # None BY <1>2, <2>2, TryPoolRows
      <4>4. poolRows[k] \in PoolRec BY <4>3 DEF IInv, TypeOK
      <4>5. [poolRows[k] EXCEPT !.next = (i + 1) % Size[k]] # None BY <4>2, <4>4, NextIsNat, NextField
      <4> QED BY <4>1, <4>5 DEF IInv, TypeOK
    <3> QED BY <3>1, <3>2, <1>a, <1>b DEF PoolsStay, Referenced
  <2> QED BY <2>1, <2>2
<1>3. ASSUME NEW w \in Workers, pc[w] \in Networked, SaveNet(w, TRUE) PROVE PoolsStay'
  <2> DEFINE n == job[w].net
  <2>1. netRows' = {r \in netRows : ~SameNet(r, n)} \cup {n} /\ UNCHANGED poolRows BY <1>3, SaveNetRows
  <2>2. PICK b \in netRows : b.pool = n.pool BY <1>3, SaveNetRows
  <2> QED BY <2>1, <2>2 DEF IInv, PoolsStay
<1> QED BY <1>1, <1>2, <1>3, WhoWritesRows

------------------------------------------------------------------------------
(* Memory, requests and agents hold what the rows bind.                    *)

\* The networks n and m are one, but for the status.
Alike(n, m) == SameNet(n, m) /\ n.pool = m.pool

\* Memory takes a network from itself, from a request or from a row; and a
\* project that has one keeps one.
LEMMA NetsStep ==
  ASSUME IInv, Next, NEW p \in Projects
  PROVE /\ nets[p] # None => nets'[p] # None
        /\ nets'[p] # None =>
             \/ nets[p] # None /\ Alike(nets'[p], nets[p])
             \/ \E w \in Workers : job[w].net # None /\ job[w].proj = p /\ nets'[p] = job[w].net
             \/ UNCHANGED netRows /\ nets'[p] \in netRows /\ nets'[p].proj = p
<1> DEFINE Goal == /\ nets[p] # None => nets'[p] # None
                   /\ nets'[p] # None =>
                        \/ nets[p] # None /\ Alike(nets'[p], nets[p])
                        \/ \E w \in Workers : job[w].net # None /\ job[w].proj = p /\ nets'[p] = job[w].net
                        \/ UNCHANGED netRows /\ nets'[p] \in netRows /\ nets'[p].proj = p
<1>a. TypeOK /\ HandsShaped BY DEF IInv
<1>1. CASE UNCHANGED nets BY <1>1 DEF Alike, SameNet
<1>2. ASSUME NEW w \in Workers, Adopt(w) PROVE Goal
  <2>1. job[w].proj \in Projects /\ job[w].net # None
    BY <1>a, <1>2, HandTyped, NoneAssumption DEF Adopt, Serving, Networked
  <2>2. nets' = [nets EXCEPT ![job[w].proj] = job[w].net] BY <1>2 DEF Adopt
  <2> QED BY <1>a, <2>1, <2>2 DEF Alike, SameNet, TypeOK
<1>3. ASSUME NEW w \in Workers, NEW status \in {"reserved", "active", "failed", "released"}, NEW to,
             pc[w] \in Networked, SetNet(w, status, to)
      PROVE Goal
  <2> DEFINE q == job[w].proj
  <2>1. q \in Projects BY <1>a, <1>3, HandTyped DEF Serving
  <2>2. nets[q] \in NetRec BY <1>a, <1>3, <2>1 DEF SetNet, TypeOK
  <2>3. [nets[q] EXCEPT !.status = status] \in NetRec BY <2>2 DEF NetRec
  <2>4. Alike([nets[q] EXCEPT !.status = status], nets[q]) BY <2>2 DEF Alike, SameNet, NetRec
  <2>5. nets' = [nets EXCEPT ![q] = [nets[q] EXCEPT !.status = status]] BY <1>3 DEF SetNet
  <2>6. CASE p = q BY <1>a, <2>1, <2>2, <2>3, <2>4, <2>5, <2>6, NoneAssumption DEF TypeOK
  <2>7. CASE p # q BY <1>a, <2>1, <2>5, <2>7 DEF TypeOK, Alike, SameNet
  <2> QED BY <2>6, <2>7
<1>4. ASSUME Restart PROVE Goal
  <2>1. nets'[p] = IF \E r \in netRows : r.proj = p THEN CHOOSE r \in netRows : r.proj = p ELSE None
    BY <1>4 DEF Restart, Load
  <2>2. UNCHANGED netRows BY <1>4 DEF Restart
  <2>3. nets[p] # None => \E r \in netRows : r.proj = p BY DEF IInv, MemoryBound, Bound, SameNet
  <2>4. ASSUME NEW r \in netRows, r.proj = p PROVE nets'[p] \in netRows /\ nets'[p].proj = p BY <2>1, <2>4
  <2>5. nets'[p] \in netRows => nets'[p] # None BY NoneAssumption DEF IInv, TypeOK
  <2> QED BY <2>1, <2>2, <2>3, <2>4, <2>5
<1>5. CASE Working
  <2>1. ASSUME NEW w \in Workers, Created(w) \/ Deleted(w) PROVE Goal
    BY <2>1, <1>3 DEF Created, Deleted, Networked
  <2>2. ASSUME NEW w \in Workers, Deploying(w) PROVE UNCHANGED nets \/ Adopt(w) \/ Created(w)
    BY <2>2 DEF Deploying, TryPool, NoPoolLeft, SaveFull, SavePool, SaveActive, CreateNet, SaveCreated, SaveNet, Up, stores
  <2>3. ASSUME NEW w \in Workers, Removing(w) PROVE UNCHANGED nets \/ Deleted(w)
    BY <2>3 DEF Removing, Down, Release, DeleteNet, SaveReleased, SaveFailed, SaveNet, Reopen, SaveReopened, SavePool, Drop, stores
  <2>4. ASSUME NEW w \in Workers, Managing(w) PROVE UNCHANGED nets
    BY <2>4 DEF Managing, InsertPool, AddPool, DefaultPool, Update, SaveUpdate, SavePool, Checked, DeletePoolRow, ForgetPool
  <2> QED BY <1>5, <1>1, <1>2, <1>4, <2>1, <2>2, <2>3, <2>4 DEF Working, CoolDown, AgentLate, stores
<1>6. ASSUME NEW w \in Workers, Requests(w) PROVE UNCHANGED nets
  BY <1>6 DEF Requests, Deploy, Remove, CreatePool, CheckPool, DeletePool, UpdatePool, Register, stores
<1> QED BY <1>1, <1>5, <1>6 DEF Next

LEMMA MemoryStep == ASSUME IInv, Next PROVE MemoryBound'
<1> SUFFICES ASSUME NEW p \in Projects, nets'[p] # None
             PROVE nets'[p].proj = p /\ \E s \in netRows' : Alike(s, nets'[p])
  BY DEF MemoryBound, Bound, Alike
<1>1. CASE UNCHANGED netRows /\ nets'[p] \in netRows /\ nets'[p].proj = p BY <1>1 DEF Alike, SameNet
<1>2. ASSUME NEW n, Alike(nets'[p], n), n.proj = p, Bound(n) PROVE nets'[p].proj = p /\ \E s \in netRows' : Alike(s, nets'[p])
  BY <1>2, BindingsGrow DEF Bound, Alike, SameNet
<1>3. CASE nets[p] # None /\ Alike(nets'[p], nets[p]) BY <1>2, <1>3 DEF IInv, MemoryBound
<1>4. ASSUME NEW w \in Workers, job[w].net # None, job[w].proj = p, nets'[p] = job[w].net
      PROVE nets'[p].proj = p /\ \E s \in netRows' : Alike(s, nets'[p])
  BY <1>2, <1>4 DEF IInv, HandsBound, Alike, SameNet
<1> QED BY <1>1, <1>3, <1>4, NetsStep

\* A network in hand comes from the request before, from memory, or from a row.
Source(j) ==
  j.net # None =>
    \/ \E w \in Workers : job[w].net # None /\ job[w].proj = j.proj /\ Alike(j.net, job[w].net)
    \/ j.proj \in Projects /\ nets[j.proj] # None /\ Alike(j.net, nets[j.proj])
    \/ j.net \in netRows' /\ j.net.proj = j.proj

LEMMA SourceStep ==
  ASSUME TypeOK, NEW w \in Workers, NEW j, job' = [job EXCEPT ![w] = j], Source(j)
  PROVE \A v \in Workers : Source(job'[v])
<1>1. \A v \in Workers : Source(job[v]) BY DEF Source, Alike, SameNet
<1> QED BY <1>1 DEF TypeOK

\* A step that keeps the project and the network, or drops both.
LEMMA SourceKept ==
  ASSUME TypeOK, NEW w \in Workers, NEW j, job' = [job EXCEPT ![w] = j],
         j.net = None \/ (j.net = job[w].net /\ j.proj = job[w].proj)
  PROVE \A v \in Workers : Source(job'[v])
<1>1. Source(j) BY DEF Source, Alike, SameNet
<1> QED BY <1>1, SourceStep

LEMMA SetNetSource ==
  ASSUME TypeOK, HandsShaped, NEW w \in Workers, NEW status, NEW to, pc[w] \in Networked,
         status \in {"reserved", "active", "failed", "released"}, SetNet(w, status, to)
  PROVE \A v \in Workers : Source(job'[v])
<1> DEFINE q == job[w].proj
           n == [nets[q] EXCEPT !.status = status]
<1>1. q \in Projects /\ job[w] \in Job BY HandTyped DEF Serving
<1>2. nets[q] \in NetRec BY <1>1 DEF SetNet, TypeOK
<1>3. Alike(n, nets[q]) BY <1>2 DEF Alike, SameNet, NetRec
<1>4. nets[q] # None BY <1>2, NoneAssumption
<1> HIDE DEF n
<1>5. [job[w] EXCEPT !.net = n].net = n /\ [job[w] EXCEPT !.net = n].proj = q BY <1>1 DEF Job
<1>6. Source([job[w] EXCEPT !.net = n]) BY <1>1, <1>3, <1>4, <1>5 DEF Source
<1> QED BY <1>6, SourceStep DEF SetNet, n

LEMMA HandsFrom == ASSUME IInv, Next PROVE \A v \in Workers : Source(job'[v])
<1> DEFINE Goal == \A v \in Workers : Source(job'[v])
<1>a. TypeOK /\ HandsShaped BY DEF IInv
<1>b. CASE UNCHANGED job BY <1>b DEF Source, Alike, SameNet
<1>c. ASSUME NEW w \in Workers PROVE job[w] \in Job BY <1>a DEF TypeOK
<1>d. ASSUME NEW w \in Workers, Finish(w) PROVE Goal
  BY <1>a, <1>d, SourceKept DEF Finish, NoJob
<1>e. ASSUME NEW w \in Workers, With(w, Saved(w)) PROVE Goal
  BY <1>a, <1>c, <1>e, SourceKept DEF Saved, Job
<1>f. ASSUME NEW w \in Workers, NEW k, NEW status, NEW reuse, Update(w, k, status, reuse) PROVE Goal
  <2>1. ASSUME NEW s PROVE [NoJob EXCEPT !.pool = k, !.save = s].net = None BY DEF NoJob
  <2> QED BY <1>a, <1>f, <2>1, SourceKept DEF Update
<1>1. ASSUME NEW w \in Workers, NEW k \in Pools, TryPool(w, k) PROVE Goal
  <2>1. CASE DeployFails(w) BY <1>d, <2>1 DEF DeployFails
  <2>2. CASE With(w, [job[w] EXCEPT !.todo = @ \ {k}]) BY <1>a, <1>c, <2>2, SourceKept DEF Job
  <2>3. CASE SetPool(w, [job[w] EXCEPT !.todo = @ \ {k}], k, "exhausted", "saveFull")
    BY <1>a, <1>c, <2>3, SourceKept DEF SetPool, Job
  <2> DEFINE row(i) == [proj |-> job[w].proj, node |-> job[w].node, pool |-> k,
                        sub |-> Base[k] + i, status |-> "reserved"]
             taken(i) == [job[w] EXCEPT !.pool = k, !.net = row(i),
                                        !.save = [job[w].view[k] EXCEPT !.next = (i + 1) % Size[k]]]
  <2>4. ASSUME NEW i, netRows' = netRows \cup {row(i)}, With(w, taken(i)) PROVE Goal
    <3>1. taken(i).net = row(i) /\ taken(i).proj = job[w].proj BY <1>c DEF Job
    <3>2. row(i) \in netRows' /\ row(i).proj = job[w].proj BY <2>4
    <3> HIDE DEF row, taken
    <3>3. Source(taken(i)) BY <3>1, <3>2 DEF Source
    <3> QED BY <1>a, <2>4, <3>3, SourceStep
  <2> HIDE DEF Goal
  <2> QED BY <1>1, <2>1, <2>2, <2>3, <2>4 DEF TryPool
<1>2. ASSUME NEW w \in Workers, Deploying(w), ~\E k \in Pools : TryPool(w, k) PROVE Goal
  <2>1. CASE Adopt(w)
    <3>1. ASSUME NEW rec PROVE
            LET done == [NoJob EXCEPT !.proj = job[w].proj, !.node = job[w].node, !.net = job[w].net]
                more == [done EXCEPT !.pool = job[w].pool, !.save = rec]
            IN done.net = job[w].net /\ done.proj = job[w].proj /\ more.net = job[w].net /\ more.proj = job[w].proj
      BY DEF NoJob
    <3> QED BY <1>a, <2>1, <3>1, SourceKept DEF Adopt
  <2>2. CASE Created(w) BY <1>a, <2>2, SetNetSource DEF Created, Networked
  <2>3. CASE NoPoolLeft(w) \/ SaveCreated(w) \/ Up(w)
    BY <1>b, <1>d, <2>3 DEF NoPoolLeft, SaveCreated, Up, DeployFails
  <2>4. CASE SaveFull(w) \/ SaveActive(w) BY <1>e, <2>4 DEF SaveFull, SaveActive
  <2> QED BY <1>2, <1>b, <2>1, <2>2, <2>3, <2>4 DEF Deploying, CreateNet
<1>3. ASSUME NEW w \in Workers, Removing(w) PROVE Goal
  <2>1. CASE Release(w)
    <3>1. CASE UNCHANGED job BY <1>b, <3>1
    <3>2. ASSUME nets[job[w].proj] # None,
                 With(w, [job[w] EXCEPT !.node = nets[job[w].proj].node, !.net = nets[job[w].proj]])
          PROVE Goal
      <4>1. job[w].proj \in Projects BY <1>a, <2>1, HandTyped DEF Release, Serving
      <4>2. Source([job[w] EXCEPT !.node = nets[job[w].proj].node, !.net = nets[job[w].proj]])
        BY <1>c, <3>2, <4>1 DEF Source, Job, Alike, SameNet
      <4> QED BY <1>a, <3>2, <4>2, SourceStep
    <3> QED BY <2>1, <3>1, <3>2 DEF Release
  <2>2. CASE Deleted(w) BY <1>a, <2>2, SetNetSource DEF Deleted, Networked
  <2>3. CASE Reopen(w)
    <3>1. CASE UNCHANGED job BY <1>b, <3>1
    <3>2. ASSUME NEW k, SetPool(w, job[w], k, "active", "saveReopened") PROVE Goal
      BY <1>a, <1>c, <3>2, SourceKept DEF SetPool, Job
    <3> QED BY <2>3, <3>1, <3>2 DEF Reopen
  <2>4. CASE SaveReopened(w) BY <1>e, <2>4 DEF SaveReopened
  <2>5. CASE Down(w) \/ Drop(w) BY <1>b, <1>d, <2>5 DEF Down, Drop
  <2> QED BY <1>3, <1>b, <2>1, <2>2, <2>3, <2>4, <2>5 DEF Removing, DeleteNet, SaveReleased, SaveFailed
<1>4. ASSUME NEW w \in Workers, Managing(w) PROVE Goal
  <2>1. CASE Checked(w)
    <3>1. ASSUME NEW k, NEW status, SetPool(w, job[w], k, status, "savePool") PROVE Goal
      BY <1>a, <1>c, <3>1, SourceKept DEF SetPool, Job
    <3> QED BY <2>1, <1>d, <3>1 DEF Checked
  <2>2. ASSUME NEW k, NEW status, NEW reuse, Update(w, k, status, reuse) PROVE Goal BY <1>f, <2>2
  <2>3. CASE DefaultPool(w) BY <1>d, <2>2, <2>3 DEF DefaultPool
  <2>4. CASE ~Checked(w) /\ ~DefaultPool(w)
    BY <1>4, <1>b, <1>d, <2>4 DEF Managing, InsertPool, AddPool, SaveUpdate, DeletePoolRow, ForgetPool
  <2> QED BY <2>1, <2>3, <2>4
<1>5. CASE Restart BY <1>5 DEF Restart, Source, NoJob
<1>6. ASSUME NEW w \in Workers, Requests(w) PROVE Goal
  <2>1. ASSUME NEW p \in Projects, NEW n \in Nodes, Deploy(w, p, n) PROVE Goal
    <3> DEFINE j == [NoJob EXCEPT !.proj = p, !.node = n]
           open == {l \in Pools : /\ NodeOf[l] = n /\ pools[l] # None
                                   /\ pools[l].status \in {"active", "exhausted"}}
    <3>1. CASE With(w, [j EXCEPT !.net = nets[p]]) /\ nets[p] # None
      <4>1. Source([j EXCEPT !.net = nets[p]]) BY <3>1 DEF Source, NoJob, Alike, SameNet
      <4> QED BY <1>a, <3>1, <4>1, SourceStep
    <3>2. CASE With(w, [j EXCEPT !.todo = open, !.view = pools])
      <4>1. [j EXCEPT !.todo = open, !.view = pools].net = None BY DEF NoJob
      <4> QED BY <1>a, <3>2, <4>1, SourceKept
    <3> QED BY <2>1, <3>1, <3>2 DEF Deploy
  <2>2. ASSUME NEW p \in Projects, NEW n \in Nodes, Remove(w, p, n) PROVE Goal
    BY <1>a, <2>2, SourceKept DEF Remove, NoJob
  <2>3. ASSUME NEW k \in Pools, CreatePool(w, k) \/ CheckPool(w, k) \/ DeletePool(w, k) PROVE Goal
    <3>1. ASSUME NEW s PROVE [NoJob EXCEPT !.pool = k, !.save = s].net = None /\ [NoJob EXCEPT !.pool = k].net = None
      BY DEF NoJob
    <3> QED BY <1>a, <2>3, <3>1, SourceKept DEF CreatePool, CheckPool, DeletePool
  <2>4. ASSUME NEW k \in Pools, NEW status, NEW reuse, UpdatePool(w, k, status, reuse) PROVE Goal
    BY <1>f, <2>4 DEF UpdatePool
  <2>5. ASSUME NEW p \in Projects, Register(p) PROVE Goal BY <1>b, <2>5 DEF Register
  <2> QED BY <1>6, <2>1, <2>2, <2>3, <2>4, <2>5 DEF Requests
<1> QED BY <1>b, <1>1, <1>2, <1>3, <1>4, <1>5, <1>6 DEF Next, Working, CoolDown, AgentLate

LEMMA HandsStep == ASSUME IInv, Next PROVE HandsBound'
<1> SUFFICES ASSUME NEW v \in Workers, job'[v].net # None
             PROVE job'[v].net.proj = job'[v].proj /\ \E s \in netRows' : Alike(s, job'[v].net)
  BY DEF HandsBound, Bound, Alike
<1> DEFINE j == job'[v]
<1>1. Source(j) BY HandsFrom
<1>2. ASSUME NEW n, Alike(j.net, n), n.proj = j.proj, Bound(n)
      PROVE j.net.proj = j.proj /\ \E s \in netRows' : Alike(s, j.net)
  BY <1>2, BindingsGrow DEF Bound, Alike, SameNet
<1>3. ASSUME NEW w \in Workers, job[w].net # None, job[w].proj = j.proj, Alike(j.net, job[w].net)
      PROVE j.net.proj = j.proj /\ \E s \in netRows' : Alike(s, j.net)
  BY <1>2, <1>3 DEF IInv, HandsBound
<1>4. CASE j.proj \in Projects /\ nets[j.proj] # None /\ Alike(j.net, nets[j.proj])
  BY <1>2, <1>4 DEF IInv, MemoryBound
<1>5. CASE j.net \in netRows' /\ j.net.proj = j.proj BY <1>5 DEF Alike, SameNet
<1> QED BY <1>1, <1>3, <1>4, <1>5 DEF Source

------------------------------------------------------------------------------
(* The nodes.                                                              *)

\* Only a call and a late order change a node; a restart only adds late orders.
LEMMA WhoChangesHosts ==
  ASSUME Next
  PROVE \/ UNCHANGED hosts
        \/ \E w \in Workers, ok \in BOOLEAN :
             Answered(w, ok) /\ pc[w] \in {"create", "delete", "up", "down"}
        \/ \E o \in late : AgentLate(o)
        \/ /\ UNCHANGED <<docker, up>>
           /\ \A o \in late' : o \in late \/ \E w \in Workers :
                 o = OrderOf(w) /\ pc[w] \in {"create", "delete", "up", "down"}
<1> DEFINE Call(w) == pc[w] \in {"create", "delete", "up", "down"} /\ \E ok \in BOOLEAN : Answered(w, ok)
<1>1. ASSUME NEW w \in Workers, CreateNet(w) \/ Up(w) \/ Down(w) \/ DeleteNet(w) PROVE UNCHANGED hosts \/ Call(w)
  BY <1>1 DEF CreateNet, Up, Down, DeleteNet
<1>2. ASSUME NEW w \in Workers, Deploying(w) PROVE UNCHANGED hosts \/ CreateNet(w) \/ Up(w)
  BY <1>2 DEF Deploying, TryPool, NoPoolLeft, SaveFull, Adopt, SaveActive, Created, SaveCreated
<1>3. ASSUME NEW w \in Workers, Removing(w) PROVE UNCHANGED hosts \/ Down(w) \/ DeleteNet(w)
  BY <1>3 DEF Removing, Release, Deleted, SaveReleased, SaveFailed, Reopen, SaveReopened, Drop
<1>4. ASSUME NEW w \in Workers, Managing(w) PROVE UNCHANGED hosts
  BY <1>4 DEF Managing, InsertPool, AddPool, DefaultPool, Update, SaveUpdate, Checked, DeletePoolRow, ForgetPool
<1>5. ASSUME NEW w \in Workers, Requests(w) PROVE UNCHANGED hosts
  BY <1>5 DEF Requests, Deploy, Remove, CreatePool, CheckPool, DeletePool, UpdatePool, Register
<1>6. ASSUME NEW p \in Projects, CoolDown(p) PROVE UNCHANGED hosts BY <1>6 DEF CoolDown
<1>7. ASSUME Restart
      PROVE /\ UNCHANGED <<docker, up>>
            /\ \A o \in late' : o \in late \/ \E w \in Workers :
                  o = OrderOf(w) /\ pc[w] \in {"create", "delete", "up", "down"}
  BY <1>7 DEF Restart
<1> HIDE DEF hosts
<1> QED BY <1>1, <1>2, <1>3, <1>4, <1>5, <1>6, <1>7 DEF Next, Working

\* The subnet a create order names is bound to its project.
LEMMA OrderBound ==
  ASSUME IInv, NEW w \in Workers, pc[w] = "create"
  PROVE BoundSubnet(OrderOf(w).proj, OrderOf(w).sub)
<1>1. job[w].net # None BY HandTyped, NoneAssumption DEF IInv, Networked
<1> QED BY <1>1 DEF IInv, HandsBound, Bound, BoundSubnet, SameNet, OrderOf

LEMMA HostsStep == ASSUME IInv, Next PROVE HostsBound'
<1>1. ASSUME NEW p, NEW s, BoundSubnet(p, s) PROVE \E r \in netRows' : r.proj = p /\ r.sub = s
  BY <1>1, BindingsGrow DEF BoundSubnet, SameNet
<1> DEFINE Good(o) == o.do = "create" => BoundSubnet(o.proj, o.sub)
           Standings == \A d \in docker' : BoundSubnet(d.proj, d.sub)
           Orders == \A o \in late' : Good(o)
<1>2. ASSUME Standings, Orders PROVE HostsBound' BY <1>1, <1>2 DEF HostsBound, BoundSubnet
<1>3. (\A d \in docker : BoundSubnet(d.proj, d.sub)) /\ (\A o \in late : Good(o)) BY DEF IInv, HostsBound
<1>4. \A w \in Workers : Good(OrderOf(w)) BY OrderBound DEF OrderOf
<1>5. ASSUME NEW o, Good(o), Execute(o) PROVE Standings BY <1>3, <1>5 DEF Execute
<1>6. CASE UNCHANGED hosts BY <1>2, <1>3, <1>6 DEF hosts
<1>7. ASSUME NEW w \in Workers, NEW ok \in BOOLEAN, Answered(w, ok) PROVE HostsBound'
  <2>1. Orders BY <1>3, <1>4, <1>7 DEF Answered
  <2>2. Standings BY <1>3, <1>4, <1>5, <1>7 DEF Answered
  <2> QED BY <1>2, <2>1, <2>2
<1>8. ASSUME NEW o \in late, AgentLate(o) PROVE HostsBound'
  <2>1. Orders BY <1>3, <1>8 DEF AgentLate
  <2>2. Standings BY <1>3, <1>5, <1>8 DEF AgentLate
  <2> QED BY <1>2, <2>1, <2>2
<1>9. CASE /\ UNCHANGED <<docker, up>>
           /\ \A o \in late' : o \in late \/ \E w \in Workers :
                 o = OrderOf(w) /\ pc[w] \in {"create", "delete", "up", "down"}
  <2>1. Orders BY <1>3, <1>4, <1>9
  <2>2. Standings BY <1>3, <1>9
  <2> QED BY <1>2, <2>1, <2>2
<1> QED BY <1>6, <1>7, <1>8, <1>9, WhoChangesHosts

\* An order that is accepted leaves no container without its network.
LEMMA ExecuteRuns ==
  ASSUME TypeOK, RunningHasNetwork, NEW o, Accepts(o), Execute(o)
  PROVE RunningHasNetwork'
<1>1. CASE o.do = "create"
  <2>1. docker \subseteq docker' /\ up' = up BY <1>1 DEF Execute
  <2> QED BY <2>1 DEF RunningHasNetwork, Stands
<1>2. CASE o.do = "delete"
  <2>1. docker' = {d \in docker : ~(d.proj = o.proj /\ d.node = o.node)} /\ up' = up /\ <<o.node, o.proj>> \notin up
    BY <1>2 DEF Accepts, Execute
  <2>2. \A x \in up : x[1] # o.node \/ x[2] # o.proj BY <2>1 DEF TypeOK
  <2> QED BY <2>1, <2>2 DEF RunningHasNetwork, Stands
<1>3. CASE o.do = "up" BY <1>3 DEF RunningHasNetwork, Accepts, Execute, Stands
<1>4. CASE o.do \notin {"create", "delete", "up"} BY <1>4 DEF RunningHasNetwork, Execute, Stands
<1> QED BY <1>1, <1>2, <1>3, <1>4

LEMMA RunningStep == ASSUME TypeOK, RunningHasNetwork, Next PROVE RunningHasNetwork'
<1>1. CASE UNCHANGED <<docker, up>> BY <1>1 DEF RunningHasNetwork, Stands
<1>2. ASSUME NEW w \in Workers, NEW ok \in BOOLEAN, Answered(w, ok) PROVE RunningHasNetwork'
  BY <1>1, <1>2, ExecuteRuns DEF Answered
<1>3. ASSUME NEW o \in late, AgentLate(o) PROVE RunningHasNetwork'
  BY <1>1, <1>3, ExecuteRuns DEF AgentLate
<1> QED BY <1>1, <1>2, <1>3, WhoChangesHosts DEF hosts

------------------------------------------------------------------------------
(* The theorems.                                                           *)

\* Only what a row binds is held by memory, requests, nodes and late orders,
\* rows are apart, and their pools stay, whatever crosses or restarts.
THEOREM Invariance == Spec => []IInv
<1>1. IInv /\ [Next]_vars => IInv'
  <2> SUFFICES ASSUME IInv, [Next]_vars PROVE IInv' OBVIOUS
  <2>1. CASE Next BY <2>1, TypeStep, ShapeStep, RowsStep, MemoryStep, HandsStep, HostsStep, PoolsStep DEF IInv
  <2>2. CASE UNCHANGED vars
    BY <2>2 DEF IInv, vars, TypeOK, HandsShaped, RowsApart, MemoryBound, HandsBound, HostsBound, PoolsStay,
                Bound, BoundSubnet
  <2> QED BY <2>1, <2>2
<1> QED BY <1>1, InitInv, PTL DEF Spec

\* The containers of an application have their network under them.
THEOREM RunningSafe == Spec => []RunningHasNetwork
<1>1. Init => RunningHasNetwork BY DEF Init, RunningHasNetwork
<1>2. IInv /\ RunningHasNetwork /\ [Next]_vars => RunningHasNetwork'
  BY RunningStep DEF IInv, vars, RunningHasNetwork, Stands
<1> QED BY <1>1, <1>2, Invariance, PTL DEF Spec

\* Project, pool and subnet stay bound until the network is released.
THEOREM BindingSafe == Spec => BindingKept
<1>1. ASSUME IInv, IInv', [Next]_vars, NEW p \in Projects, nets[p] # None
      PROVE nets'[p] # None /\ SameNet(nets'[p], nets[p]) /\ nets'[p].pool = nets[p].pool
  <2>1. CASE Next
    <3>1. nets'[p] # None BY <1>1, <2>1, NetsStep
    <3>2. PICK r \in netRows : SameNet(r, nets[p]) /\ r.pool = nets[p].pool /\ nets[p].proj = p
      BY <1>1 DEF IInv, MemoryBound, Bound
    <3>3. PICK s \in netRows' : SameNet(s, r) /\ s.pool = r.pool BY <1>1, <2>1, BindingsGrow
    <3>4. PICK t \in netRows' : SameNet(t, nets'[p]) /\ t.pool = nets'[p].pool /\ nets'[p].proj = p
      BY <1>1, <3>1 DEF IInv, MemoryBound, Bound
    <3>5. s = t BY <1>1, <3>2, <3>3, <3>4 DEF IInv, RowsApart, SameNet
    <3> QED BY <3>1, <3>2, <3>3, <3>4, <3>5 DEF SameNet
  <2>2. CASE UNCHANGED vars BY <1>1, <2>2 DEF vars, SameNet
  <2> QED BY <1>1, <2>1, <2>2
<1>2. ASSUME IInv, IInv', [Next]_vars
      PROVE [\A p \in Projects : nets[p] # None /\ nets[p].status # "released" =>
               nets'[p] # None /\ SameNet(nets'[p], nets[p]) /\ nets'[p].pool = nets[p].pool]_vars
  <2>1. \A p \in Projects : nets[p] # None =>
           nets'[p] # None /\ SameNet(nets'[p], nets[p]) /\ nets'[p].pool = nets[p].pool
    BY <1>1, <1>2
  <2> QED BY <2>1
<1> QED BY <1>2, Invariance, PTL DEF Spec, BindingKept

\* On one node no network is ordered on a subnet that another project's stands on.
THEOREM CollisionFree == (\A m, n \in Nodes : m = n) => (Spec => []NoCollision)
<1> SUFFICES ASSUME \A m, n \in Nodes : m = n PROVE Spec => []NoCollision OBVIOUS
<1>1. IInv => NoCollision
  <2> SUFFICES ASSUME IInv, NEW w \in Workers, pc[w] = "create", NEW d \in docker,
                      d.node = job[w].node, d.sub = job[w].net.sub
               PROVE d.proj = job[w].proj
    BY DEF NoCollision
  <2>1. job[w].net \in NetRec BY HandTyped DEF IInv, Networked
  <2>2. job[w].net # None BY <2>1, NoneAssumption
  <2>3. PICK r \in netRows : r.proj = job[w].proj /\ r.sub = job[w].net.sub
    BY <2>2 DEF IInv, HandsBound, Bound, SameNet
  <2>4. PICK s \in netRows : s.proj = d.proj /\ s.sub = d.sub BY DEF IInv, HostsBound, BoundSubnet
  <2>5. r.node = s.node BY <2>3, <2>4 DEF IInv, TypeOK, NetRec
  <2> QED BY <2>3, <2>4, <2>5 DEF IInv, RowsApart
<1> QED BY <1>1, Invariance, PTL
==============================================================================
