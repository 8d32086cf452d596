------------------------------- MODULE Requests -------------------------------
(***************************************************************************)
(* Requests for one host in the data plane of one gateway: each takes the  *)
(* host's entry from the route table, passes the rate limits, is given a   *)
(* version and an instance, and is counted while it is forwarded.          *)
(*                                                                         *)
(* Requests run concurrently and share three things, each behind a mutex:  *)
(* the buckets of the limiter in memory, the round robin states of the     *)
(* balancer, and the counts of requests in flight.  A step is one critical *)
(* section.  The table is replaced at any time (by what, is in module      *)
(* Routing); a request keeps the entry it has looked up.                   *)
(*                                                                         *)
(* What a request carries (headers, cookies, path, address) is the set of  *)
(* policies it matches, so a client is a name, and a session key, be it    *)
(* hashed or a cookie, is a member of the pool that may be any.  Time is   *)
(* in units of some seconds, and only ages count.  The limiter on Redis,   *)
(* disabled policies, which no entry's choice depends on, and the refusals *)
(* before the limits (no entry, tenant suspended) are left out.            *)
(***************************************************************************)
EXTENDS Integers, Sequences, SequencesExt, FiniteSetsExt

CONSTANTS
  Requests,   \* requests that are served at a time
  Clients,
  Entries,    \* what the route table may have for the host
  Cleanup,    \* Limiter.cleanupI
  None

Rules     == UNION {ToSet(e.limits) : e \in Entries}
Versions  == UNION {ToSet(e.versions) : e \in Entries}
Pools     == {e.pool : e \in Entries} \cup {v.pool : v \in Versions}
Instances == {m.id : m \in UNION {ToSet(p) : p \in Pools}}

\* What a rule counts by.
LimitKey(l, c) == IF l.scope = "ip" THEN <<l.scope, c>> ELSE <<l.scope>>
LimitKeys == {LimitKey(l, c) : l \in Rules, c \in Clients}

Burst(l) == IF l.burst = 0 THEN l.limit ELSE l.burst
Hard(l)  == Max({l.limit, Burst(l)})

\* Whose turn it is: among versions, among those that stand in for a missing
\* one, among the instances of a version, or of the host when it has none.
Turns == {<<"versions">>, <<"fallback">>, <<"direct">>} \cup {<<"instance", v.id>> : v \in Versions}

\* What the queries behind the table return: lists and numbers.
Buckets == [rule : Nat \X Nat \X Nat, age : Nat, count : Nat]

\* The creation of a rule demands a limit and a window (model.go); a PATCH does
\* not: a rule without a limit refuses all, one without a window never limits.
ASSUME RequestsAssumption ==
  /\ IsFiniteSet(Requests) /\ IsFiniteSet(Rules)
  /\ Cleanup \in Nat \ {0}
  /\ \A l \in Rules : l.limit \in Nat \ {0} /\ l.window \in Nat \ {0} /\ l.burst \in Nat
  /\ \A e \in Entries : e.versions \in Seq(Versions)
  /\ \A p \in Pools : p \in Seq(ToSet(p)) /\ \A m \in ToSet(p) : m.weight \in Int
  /\ \A v \in Versions : v.weight \in Int
  /\ None \notin Buckets

VARIABLES
  entry,    \* the host's entry in the table
  req,      \* the requests
  wrr,      \* Balancer.byKey
  conn,     \* leastConnTracker.conn
  buckets,  \* Limiter.buckets, with ages for times
  gcAge,    \* time since Limiter.lastGC, up to Cleanup
  passed,   \* history: how many each rule let through, this time unit's first
  shares    \* history: the turns each had since the members or weights last changed

vars    == <<entry, req, wrr, conn, buckets, gcAge, passed, shares>>
limiter == <<buckets, gcAge, passed>>
turns   == <<wrr, shares>>

Idle == [at |-> "idle", client |-> None, entry |-> None, rule |-> 0, version |-> None,
         how |-> "round_robin", inst |-> None, best |-> None, seen |-> 0]

\* No window is looked at for longer than this.
Horizon == Max({2 * Cleanup + 1} \cup {l.window : l \in Rules})
Counted == {<<LimitKey(l, c), l>> : l \in Rules, c \in Clients}

NoTurns == [of |-> <<>>, weight |-> <<>>, current |-> <<>>]
NoShare == [of |-> <<>>, weight |-> <<>>, got |-> <<>>]

Init ==
  /\ entry \in Entries
  /\ req = [r \in Requests |-> Idle]
  /\ wrr = [k \in Turns |-> NoTurns]
  /\ conn = [i \in Instances |-> 0]
  /\ buckets = [k \in LimitKeys |-> None]
  /\ gcAge = Cleanup
  /\ passed = [k \in Counted |-> [a \in 1 .. Horizon |-> 0]]
  /\ shares = [k \in Turns |-> NoShare]

Goes(r, next) == req' = [req EXCEPT ![r] = next]

-------------------------------------------------------------------------------
(* Surroundings.                                                           *)

Install == \E e \in Entries : entry' = e /\ UNCHANGED <<req, turns, conn, limiter>>

\* A request reads the clock once for all its rules: that takes no time.
Tick ==
  /\ \A r \in Requests : req[r].at # "limits"
  /\ buckets' = [k \in LimitKeys |->
       IF buckets[k] = None THEN None
       ELSE [buckets[k] EXCEPT !.age = IF @ < Horizon THEN @ + 1 ELSE @]]
  /\ gcAge' = IF gcAge < Cleanup THEN gcAge + 1 ELSE gcAge
  /\ passed' = [k \in Counted |-> [a \in 1 .. Horizon |->
       IF a = 1 THEN 0 ELSE passed[k][a - 1]]]
  /\ UNCHANGED <<entry, req, turns, conn>>

Arrive(r) ==
  /\ req[r].at = "idle"
  /\ \E c \in Clients :
       Goes(r, [Idle EXCEPT !.at = "limits", !.client = c, !.entry = entry, !.rule = 1])
  /\ UNCHANGED <<entry, turns, conn, limiter>>

-------------------------------------------------------------------------------
(* Rate limits.                                                            *)

\* Mutant of Stale: the threshold is one period.
StaleAtOnce(b) == b.age >= Cleanup

Stale(b) == b.age > 2 * Cleanup

\* Limiter.maybeGC, run by every call before it looks at its own bucket.
Kept == IF gcAge < Cleanup THEN buckets
        ELSE [k \in LimitKeys |-> IF buckets[k] # None /\ Stale(buckets[k]) THEN None ELSE buckets[k]]

Fresh(l) == [rule |-> <<l.limit, l.window, Burst(l)>>, age |-> 0, count |-> 0]

\* The bucket the request is counted in: a new one when the rule is another
\* than the last one that used the key, or when the window is over.
Bucket(l, k) ==
  IF Kept[k] = None THEN Fresh(l)
  ELSE IF Kept[k].rule # Fresh(l).rule \/ Kept[k].age >= l.window THEN Fresh(l)
  ELSE Kept[k]

Judged(l, k, b) ==
  /\ buckets' = [Kept EXCEPT ![k] = IF b.count < Hard(l) THEN [b EXCEPT !.count = @ + 1] ELSE b]
  /\ gcAge' = IF gcAge < Cleanup THEN gcAge ELSE 0
  /\ passed' = IF b.count < Hard(l) THEN [passed EXCEPT ![<<k, l>>][1] = @ + 1] ELSE passed

Limit(r) ==
  /\ req[r].at = "limits" /\ req[r].rule \in DOMAIN req[r].entry.limits
  /\ LET l == req[r].entry.limits[req[r].rule]
         k == LimitKey(l, req[r].client)
         b == Bucket(l, k)
     IN /\ Judged(l, k, b)
        /\ Goes(r, IF b.count < Hard(l) THEN [req[r] EXCEPT !.rule = @ + 1] ELSE Idle)
  /\ UNCHANGED <<entry, turns, conn>>

Within(r) ==
  /\ req[r].at = "limits" /\ req[r].rule \notin DOMAIN req[r].entry.limits
  /\ Goes(r, [req[r] EXCEPT !.at = IF req[r].entry.versioned THEN "choose" ELSE "select",
                            !.rule = 0])
  /\ UNCHANGED <<entry, turns, conn, limiter>>

-------------------------------------------------------------------------------
(* Smooth weighted round robin (Balancer.Select, PickWeighted).            *)

Weight(m) == IF m.weight <= 0 THEN 1 ELSE m.weight

\* What tells one pool from another: members and weights for instances, only
\* the weights for versions.
PoolPrint(k, ms) ==
  [i \in DOMAIN ms |->
     IF k \in {<<"versions">>, <<"fallback">>} THEN <<Weight(ms[i])>> ELSE <<ms[i].id, Weight(ms[i])>>]

\* The sum of f[1], ..., f[n].
Sum(f, n) ==
  LET upto[i \in 0 .. n] == IF i = 0 THEN 0 ELSE upto[i - 1] + f[i]
  IN upto[n]

Total(f) == Sum(f, Len(f))

\* Mutant of State: wrrState.reset leaves the fingerprint that resetWeights
\* has set.
StateByWeights(k, ms) ==
  IF wrr[k].of = PoolPrint(k, ms) THEN wrr[k]
  ELSE [of |-> [i \in DOMAIN ms |-> <<Weight(ms[i])>>], weight |-> [i \in DOMAIN ms |-> Weight(ms[i])],
        current |-> [i \in DOMAIN ms |-> 0]]

State(k, ms) ==
  IF wrr[k].of = PoolPrint(k, ms) THEN wrr[k]
  ELSE [of |-> PoolPrint(k, ms), weight |-> [i \in DOMAIN ms |-> Weight(ms[i])],
        current |-> [i \in DOMAIN ms |-> 0]]

Raised(s) == [i \in DOMAIN s.current |-> s.current[i] + s.weight[i]]

\* wrrState.next: the first of those that have waited most.
Turn(s) ==
  CHOOSE i \in DOMAIN s.current : \A j \in DOMAIN s.current :
    \/ Raised(s)[j] < Raised(s)[i]
    \/ Raised(s)[j] = Raised(s)[i] /\ i <= j

Lowered(s, i) == [Raised(s) EXCEPT ![i] = @ - Total(s.weight)]

\* History: a period is over when everyone is even.
Share(k, ms, i) ==
  LET of   == PoolPrint(k, ms)
      old  == IF shares[k].of = of THEN shares[k].got ELSE [j \in DOMAIN ms |-> 0]
      got  == [old EXCEPT ![i] = @ + 1]
      ws   == [j \in DOMAIN ms |-> Weight(ms[j])]
      even == \A j \in DOMAIN ms : got[j] * Total(ws) = ws[j] * Total(got)
  IN [of |-> of, weight |-> ws, got |-> IF even THEN [j \in DOMAIN ms |-> 0] ELSE got]

\* The i-th of ms has its turn.
Takes(k, ms, i) ==
  LET s == State(k, ms)
  IN /\ i = Turn(s)
     /\ wrr' = [wrr EXCEPT ![k] = [s EXCEPT !.current = Lowered(s, i)]]
     /\ shares' = [shares EXCEPT ![k] = Share(k, ms, i)]

-------------------------------------------------------------------------------
(* Versions.                                                               *)

First(ps) == CHOOSE p \in ps : \A q \in ps : p.priority <= q.priority

\* The policy that decides: one whose conditions the request meets, else the
\* first of those that have a percentage only, when the request is drawn.
Explicit(e, c) == {p \in e.policies : p.explicit /\ c \in p.clients}
Percent(e)     == {p \in e.policies : ~p.explicit /\ p.target # None}
Deciding(e, c) ==
  IF Explicit(e, c) # {} THEN {p \in Explicit(e, c) : p = First(Explicit(e, c))}
  ELSE {p \in Percent(e) : p = First(Percent(e)) /\ c \in p.clients}
Directed(e, c) == {p \in Deciding(e, c) : p.target # None}

Offered(e) == {v.id : v \in ToSet(e.versions)}

\* Mutant of Candidates: a weight of 0 is left to the round robin, which takes
\* it for 1.
CandidatesOfAnyWeight(e, skip) == SelectSeq(e.versions, LAMBDA v : v.id # skip)

\* Versions without weight get no share.
Candidates(e, skip) ==
  LET vs == e.versions
      upto[i \in 0 .. Len(vs)] ==
        IF i = 0 THEN <<>>
        ELSE IF vs[i].weight > 0 /\ vs[i].id # skip THEN Append(upto[i - 1], vs[i])
        ELSE upto[i - 1]
  IN upto[Len(vs)]

ByWeight(r, k, skip) ==
  LET vs == Candidates(req[r].entry, skip)
  IN \/ /\ vs = <<>>
        /\ Goes(r, Idle)
        /\ UNCHANGED turns
     \/ \E i \in DOMAIN vs :
          /\ Takes(k, vs, i)
          /\ Goes(r, [req[r] EXCEPT !.at = "select", !.version = vs[i].id])

ChooseByWeight(r) ==
  /\ req[r].at = "choose" /\ Directed(req[r].entry, req[r].client) = {}
  /\ ByWeight(r, <<"versions">>, None)
  /\ UNCHANGED <<entry, conn, limiter>>

\* The policy's version has no healthy instance, so it is not in the entry.
ChooseFallback(r) ==
  /\ req[r].at = "choose"
  /\ \E p \in Directed(req[r].entry, req[r].client) :
       p.target \notin Offered(req[r].entry) /\ ByWeight(r, <<"fallback">>, p.target)
  /\ UNCHANGED <<entry, conn, limiter>>

ChooseDirected(r) ==
  /\ req[r].at = "choose"
  /\ \E p \in Directed(req[r].entry, req[r].client) :
       /\ p.target \in Offered(req[r].entry)
       /\ Goes(r, [req[r] EXCEPT !.at = "select", !.version = p.target,
                                 !.how = IF p.explicit /\ p.sticky THEN "sticky" ELSE p.balance])
  /\ UNCHANGED <<entry, turns, conn, limiter>>

-------------------------------------------------------------------------------
(* Instances.                                                              *)

PoolOf(e, v) == IF v = None THEN e.pool ELSE (CHOOSE w \in ToSet(e.versions) : w.id = v).pool
Pool(r) == PoolOf(req[r].entry, req[r].version)
TurnOf(v) == IF v = None THEN <<"direct">> ELSE <<"instance", v>>

Chosen(r, i) == Goes(r, [req[r] EXCEPT !.at = "forward", !.inst = i, !.how = Idle.how,
                                       !.best = None, !.seen = 0])

\* Also for a sticky request without a session, or whose instance has left.
SelectByTurn(r) ==
  /\ req[r].at = "select" /\ req[r].how \in {"round_robin", "sticky"}
  /\ \E i \in DOMAIN Pool(r) :
       Takes(TurnOf(req[r].version), Pool(r), i) /\ Chosen(r, Pool(r)[i].id)
  /\ UNCHANGED <<entry, conn, limiter>>

SelectByKey(r) ==
  /\ req[r].at = "select" /\ req[r].how \in {"consistent_hash", "sticky"}
  /\ \E m \in ToSet(Pool(r)) : Chosen(r, m.id)
  /\ UNCHANGED <<entry, turns, conn, limiter>>

\* LeastConnections locks the counts once for each member: they move between.
Scan(r) ==
  /\ req[r].at = "select" /\ req[r].how = "least_conn" /\ req[r].seen < Len(Pool(r))
  /\ LET m == Pool(r)[req[r].seen + 1]
         b == req[r].best
     IN Goes(r, [req[r] EXCEPT !.seen = @ + 1, !.best =
          IF \/ b = None
             \/ conn[m.id] < b.conn
             \/ conn[m.id] = b.conn /\ m.weight > b.member.weight
          THEN [member |-> m, conn |-> conn[m.id]] ELSE b])
  /\ UNCHANGED <<entry, turns, conn, limiter>>

SelectLeast(r) ==
  /\ req[r].at = "select" /\ req[r].how = "least_conn"
  /\ Pool(r) # <<>> /\ req[r].seen = Len(Pool(r))
  /\ Chosen(r, req[r].best.member.id)
  /\ UNCHANGED <<entry, turns, conn, limiter>>

NoHealthy(r) ==
  /\ req[r].at = "select" /\ Pool(r) = <<>>
  /\ Goes(r, Idle)
  /\ UNCHANGED <<entry, turns, conn, limiter>>

-------------------------------------------------------------------------------
(* Forwarding.                                                             *)

Forward(r) ==
  /\ req[r].at = "forward"
  /\ conn' = [conn EXCEPT ![req[r].inst] = @ + 1]
  /\ Goes(r, [req[r] EXCEPT !.at = "served"])
  /\ UNCHANGED <<entry, turns, limiter>>

Finish(r) ==
  /\ req[r].at = "served"
  /\ conn' = [conn EXCEPT ![req[r].inst] = IF @ > 0 THEN @ - 1 ELSE @]
  /\ Goes(r, Idle)
  /\ UNCHANGED <<entry, turns, limiter>>

Serve(r) ==
  \/ Arrive(r) \/ Limit(r) \/ Within(r)
  \/ ChooseByWeight(r) \/ ChooseFallback(r) \/ ChooseDirected(r)
  \/ SelectByTurn(r) \/ SelectByKey(r) \/ Scan(r) \/ SelectLeast(r) \/ NoHealthy(r)
  \/ Forward(r) \/ Finish(r)

Next == Install \/ Tick \/ \E r \in Requests : Serve(r)

Spec == Init /\ [][Next]_vars

-------------------------------------------------------------------------------
(* Properties.                                                             *)

Stages  == {"idle", "limits", "choose", "select", "forward", "served"}
Hows    == {"round_robin", "sticky"} \cup {p.balance : p \in UNION {e.policies : e \in Entries}}
Members == UNION {ToSet(p) : p \in Pools}

\* What is kept of a request.
Progress ==
  [at : Stages, client : Clients \cup {None}, entry : Entries \cup {None}, rule : Nat,
   version : {v.id : v \in Versions} \cup {None}, how : Hows,
   inst : Instances \cup {None}, best : [member : Members, conn : Nat] \cup {None}, seen : Nat]

\* The state keeps its types; no more is counted for an instance than there
\* are requests.
TypeOK ==
  /\ entry \in Entries
  /\ req \in [Requests -> Progress]
  /\ conn \in [Instances -> 0 .. Cardinality(Requests)]
  /\ buckets \in [LimitKeys -> Buckets \cup {None}]
  /\ \A k \in LimitKeys : buckets[k] # None => buckets[k].age <= Horizon
  /\ gcAge \in 0 .. Cleanup
  /\ passed \in [Counted -> [1 .. Horizon -> Nat]]
  /\ DOMAIN wrr = Turns /\ DOMAIN shares = Turns

\* The version of q is the one a policy directs it to when the entry has that,
\* and else one with weight.
VersionAsAsked(q) ==
  LET asked == {p.target : p \in Directed(q.entry, q.client)}
  IN IF asked \cap Offered(q.entry) # {} THEN q.version \in asked
     ELSE \E w \in ToSet(q.entry.versions) : w.id = q.version /\ w.weight > 0

\* conn counts the requests under way.
Live(i) == {r \in Requests : req[r].at = "served" /\ req[r].inst = i}
CountsAreLive == \A i \in Instances : conn[i] = Cardinality(Live(i))

\* A request ends up in a pool of the entry it looked up, although the table
\* may have been replaced since.  The version is the one a policy directs it
\* to when the entry has that, and else one with weight: a canary whose weight
\* is 0 gets nothing but what is sent to it (resolver.go, pickWeightedVersion).
\* The counts LeastConnections compares are those of requests under way.
RoutedAsAsked ==
  /\ \A r \in Requests : req[r].inst # None =>
       /\ \E m \in ToSet(Pool(r)) : m.id = req[r].inst
       /\ req[r].entry.versioned => VersionAsAsked(req[r])
  /\ CountsAreLive

\* Turns are shared by weight, whichever requests take them and whatever
\* entries those hold: since the members or their weights last changed, nobody
\* is a whole turn ahead of his share, nor further behind than there are
\* others, and when as many turns have been taken as the weights add up to,
\* everybody has had exactly his (weighted.go, Balancer).
ShareKept ==
  \A k \in Turns : shares[k] # NoShare =>
    LET taken == Total(shares[k].got)
        whole == Total(shares[k].weight)
    IN /\ taken < whole
       /\ \A i \in DOMAIN shares[k].got :
            LET ahead == shares[k].got[i] * whole - taken * shares[k].weight[i]
            IN -(Len(shares[k].got) - 1) * whole <= ahead /\ ahead < whole

\* How many have got past rule l under key k within its window, cut to the time
\* a bucket is sure to be remembered.
Span(l)   == Min({l.window, 2 * Cleanup + 1})
Recent(x) == Sum(passed[x], Span(x[2]))

\* A rule that is alone of its scope lets through at most twice its quota in
\* any stretch of its window, the double being the price of fixed windows, as
\* long as the window does not outlive the sweep of buckets: the sweep forgets
\* what began more than two periods ago (limiter.go, maybeGC), in the middle of
\* longer windows too.
LimitKept ==
  \A x \in Counted :
    Recent(x) > 2 * Hard(x[2]) => \E l \in Rules : l # x[2] /\ l.scope = x[2].scope

\* Every rule holds, whatever others there are: plan-phase2.md has of rules
\* that add up that the strictest counts, as has route.go of an entry's Limits.
\* It does not: rules of one scope share a key, and each starts the other's
\* bucket again.
StrictestCounts == \A x \in Counted : Recent(x) <= 2 * Hard(x[2])

\* The window slides, and no burst gets more through (plan-phase2.md, model.go).
\* It does not: a window begins with the first request after the last one, so the
\* end of one and the start of the next let through twice the quota.
WindowSlides ==
  \A x \in Counted :
    Recent(x) > Hard(x[2]) => \E l \in Rules : l # x[2] /\ l.scope = x[2].scope

-------------------------------------------------------------------------------
(* What is inductive.                                                      *)

\* What a request q holds at each stage.
InOrder(q) ==
  LET pool == ToSet(PoolOf(q.entry, q.version))
  IN /\ q.at = "idle" => q = Idle
     /\ q.at # "idle" => q.entry \in Entries /\ q.client \in Clients
     /\ q.at \in {"limits", "choose"} => q.version = None /\ q.seen = 0
     /\ q.at = "choose" => q.entry.versioned
     /\ q.at \in {"select", "forward", "served"} =>
          IF q.entry.versioned THEN VersionAsAsked(q) ELSE q.version = None
     /\ IF q.at = "select" /\ q.seen > 0 THEN q.best \in [member : pool, conn : Nat] ELSE q.best = None
     /\ IF q.at \in {"forward", "served"} THEN \E m \in pool : m.id = q.inst ELSE q.inst = None

RequestsInOrder == \A r \in Requests : InOrder(req[r])

\* What the round robin still owes the i-th when it has given the turns in s.
Owed(s, i) == Total(s.got) * s.weight[i] - s.got[i] * Total(s.weight)

\* The state of the round robin is what it owes to each, and that is never as
\* little as minus a whole turn.
TurnsAreOwed ==
  \A k \in Turns :
    LET s == shares[k]
    IN /\ wrr[k] = [of |-> s.of, weight |-> s.weight, current |-> [i \in DOMAIN s.got |-> Owed(s, i)]]
       /\ s # NoShare =>
            /\ s.weight \in Seq(Nat \ {0}) /\ s.got \in Seq(Nat)
            /\ s.got # <<>> /\ Len(s.got) = Len(s.weight)
            /\ Len(s.of) = Len(s.got) /\ \A i \in DOMAIN s.got : Last(s.of[i]) = s.weight[i]
            /\ Total(s.got) < Total(s.weight)
            /\ \A i \in DOMAIN s.got : Owed(s, i) > -Total(s.weight)

\* Rule x[2] has its key for itself.
Alone(x) == \A l \in Rules : l.scope = x[2].scope => l = x[2]

\* How many are let through in the last n time units, when f tells of each.
Through(f, n) == Sum(f, Min({n, Horizon}))

\* A bucket counts what its rule l lets through since it began; what was let
\* through before, within a window of that, is no more than one quota.
Remembers(b, l, f) ==
  IF b = None THEN f[1] = 0 /\ Through(f, 1 + Span(l)) <= Hard(l)
  ELSE /\ b.rule = Fresh(l).rule
       /\ b.count <= Hard(l)
       /\ Through(f, b.age + 1) <= b.count
       /\ Through(f, b.age + 1 + Span(l)) - Through(f, b.age + 1) <= Hard(l)
       /\ b.age >= l.window => f[1] = 0

BucketsRemember == \A x \in Counted : Alone(x) => Remembers(buckets[x[1]], x[2], passed[x])

\* The sweep is run before anything of its time unit is let through.
SweepIsFirst == gcAge = Cleanup => \A x \in Counted : passed[x][1] = 0

RequestsInv ==
  /\ TypeOK /\ RequestsInOrder /\ CountsAreLive
  /\ TurnsAreOwed /\ BucketsRemember /\ SweepIsFirst
===============================================================================
