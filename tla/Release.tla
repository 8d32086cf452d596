------------------------------- MODULE Release -------------------------------
(***************************************************************************)
(* The release orchestration of the gateway, package release: canary and   *)
(* blue-green releases of the versions of one deployment, driven by        *)
(* administrators' requests and by the automatic canary executors, of      *)
(* which every gateway instance runs one.                                  *)
(*                                                                         *)
(* An action is a database transaction (Transition) at the default, read   *)
(* committed, isolation: it reads the release, start then reads the weight *)
(* of the primary version, and it writes the versions' weights and the     *)
(* release row, the latter only where the phase is still the one it read.  *)
(* Rows stay locked from the write to the commit and all writes become     *)
(* visible together, so everything after the last read is one step.        *)
(***************************************************************************)
EXTENDS Naturals, FiniteSets

CONSTANTS
  Versions,    \* versions of the deployment
  Releases,    \* release identifiers, each used at most once
  Requests,    \* administrators' requests handled at the same time
  Autos,       \* the automatic canary executors, one per gateway instance
  Strategies,  \* the strategies in use
  Full,        \* 100 %
  Initial,     \* the weight a canary starts with (10 %)
  NoVersion    \* no version

ASSUME WeightAssumption == Full \in Nat /\ Initial \in 1..Full

ASSUME NameAssumption ==
  /\ Requests \cap Autos = {}
  /\ Strategies \subseteq {"canary", "bluegreen"}
  /\ NoVersion \notin Versions

VARIABLES
  weight,   \* deployment_versions.weight
  rel,      \* the rows of releases
  tx,       \* what each request or executor has read and is about to do
  last      \* history: the release that has last written weights, if any

vars == <<weight, rel, tx, last>>

Actors   == Requests \cup Autos
Weights  == 0..Full
Terminal == {"completed", "rolled_back"}
Active   == {"created", "running", "paused", "active"}
Actions  == {"start", "pause", "resume", "weight", "promote", "rollback", "switch", "delete"}

Row == [strategy : Strategies, phase : Terminal \cup Active,
        primary  : Versions,   secondary : Versions,
        pw       : Weights,    sw : Weights,    \* primary and secondary weight
        previous : Versions \cup {NoVersion}]   \* previous_primary_id
NoRow   == [phase |-> "none"]       \* not created yet
Deleted == [phase |-> "deleted"]

\* A transaction before its next statement, with the row it has read; in "ask"
\* an executor has its verdict and not yet a transaction.
Tx == [pc : {"ask", "baseline", "commit"}, release : Releases,
       action : Actions, arg : Weights, seen : Row \cup {NoRow}]
Idle == [pc |-> "idle"]

TypeOK ==
  /\ weight \in [Versions -> Weights]
  /\ rel    \in [Releases -> Row \cup {NoRow, Deleted}]
  /\ tx     \in [Actors -> Tx \cup {Idle}]
  /\ last   \in SUBSET Releases

\* Versions are created with any weight; full or nothing will do here.
Init ==
  /\ weight \in [Versions -> {0, Full}]
  /\ rel = [r \in Releases |-> NoRow]
  /\ tx = [a \in Actors |-> Idle]
  /\ last = {}

------------------------------------------------------------------------------
(* The strategies.                                                         *)

\* Mutant of Allowed: a canary can be rolled back in any phase.
AllowedRollback(action, row) ==
  \/ /\ row.strategy = "canary"
     /\ \/ action = "start"    /\ row.phase \in {"created", "paused", "rolled_back"}
        \/ action = "pause"    /\ row.phase = "running"
        \/ action = "resume"   /\ row.phase = "paused"
        \/ action \in {"weight", "promote"} /\ row.phase \in {"running", "paused"}
        \/ action = "rollback"
  \/ /\ row.strategy = "bluegreen"
     /\ \/ action = "switch"
        \/ action = "rollback" /\ row.previous = row.secondary
  \/ action = "delete" /\ row.phase \in Terminal

\* May the action be taken on the row as read?  The argument of switch is the
\* secondary version: it must be of the pair, and not the primary.
Allowed(action, row) ==
  \/ /\ row.strategy = "canary"
     /\ \/ action = "start"    /\ row.phase \in {"created", "paused", "rolled_back"}
        \/ action = "pause"    /\ row.phase = "running"
        \/ action = "resume"   /\ row.phase = "paused"
        \/ action \in {"weight", "promote"} /\ row.phase \in {"running", "paused"}
        \/ action = "rollback" /\ row.phase \in {"running", "paused", "created"}
  \/ /\ row.strategy = "bluegreen"
     /\ \/ action = "switch"
        \/ action = "rollback" /\ row.previous = row.secondary
  \/ action = "delete" /\ row.phase \in Terminal

\* The next phase of a canary; a blue-green release stays active.
NextPhase(action, row) ==
  CASE action \in {"start", "resume"} -> "running"
    [] action = "pause"               -> "paused"
    [] action = "promote"             -> "completed"
    [] action = "rollback"            -> "rolled_back"
    [] OTHER                          -> row.phase

\* The weight that the secondary version gets.
Share(action, arg, row) ==
  CASE action = "start"    -> IF row.sw = 0 THEN Initial ELSE row.sw
    [] action = "weight"   -> arg
    [] action = "rollback" -> IF row.strategy = "bluegreen" THEN Full ELSE 0
    [] action \in {"promote", "switch"} -> Full
    [] OTHER               -> row.sw

\* Mutant of WritesWeights: a promotion only changes the record.
WritesWeightsNotPromote(action) == action \notin {"pause", "resume", "promote"}

\* Mutant of WritesWeights: so does a start.
WritesWeightsNotStart(action) == action \notin {"pause", "resume", "start"}

WritesWeights(action) == action \notin {"pause", "resume"}

\* The row after the action.  A blue-green release always records 100 to 0,
\* and its primary version stays what it was created with.
NextRow(action, arg, row) ==
  IF row.strategy = "bluegreen"
  THEN [row EXCEPT !.previous = row.primary]
  ELSE [row EXCEPT !.phase = NextPhase(action, row),
                   !.pw = Full - Share(action, arg, row),
                   !.sw = Share(action, arg, row)]

\* Mutant of IndexAllows: a paused release does not count as active.
IndexAllowsPaused(r, phase) ==
  phase \in Active => \A q \in Releases \ {r} : rel[q].phase \notin Active \ {"paused"}

\* The unique index over the active releases of a deployment.
IndexAllows(r, phase) ==
  phase \in Active => \A q \in Releases \ {r} : rel[q].phase \notin Active

------------------------------------------------------------------------------
(* Requests.                                                               *)

\* A canary release is only registered; a blue-green release is in effect at
\* once.
Create(r, s, p, q) ==
  /\ rel[r] = NoRow
  /\ p # q
  /\ IndexAllows(r, "created")
  /\ rel' = [rel EXCEPT ![r] =
       [strategy |-> s, phase |-> IF s = "canary" THEN "created" ELSE "active",
        primary |-> p, secondary |-> q, pw |-> Full, sw |-> 0,
        previous |-> NoVersion]]
  /\ IF s = "canary"
     THEN UNCHANGED <<weight, last>>
     ELSE /\ weight' = [weight EXCEPT ![p] = Full, ![q] = 0]
          /\ last' = {r}
  /\ UNCHANGED tx

\* The transaction reads the release and goes on if the strategy lets it.
Read(a, r, action, arg) ==
  /\ rel[r] \in Row
  /\ Allowed(action, rel[r])
  /\ tx' = [tx EXCEPT ![a] = [pc |-> IF action = "start" THEN "baseline" ELSE "commit",
                              release |-> r, action |-> action, arg |-> arg, seen |-> rel[r]]]
  /\ UNCHANGED <<weight, rel, last>>

\* Only weight has an argument of its own.
Ask(a, r, action) ==
  \E arg \in Weights : (action # "weight" => arg = 0) /\ Read(a, r, action, arg)

\* start: the primary version must have all of the traffic.
Baseline(a) ==
  /\ tx[a].pc = "baseline"
  /\ tx' = [tx EXCEPT ![a] = IF weight[tx[a].seen.primary] = Full
                             THEN [tx[a] EXCEPT !.pc = "commit"] ELSE Idle]
  /\ UNCHANGED <<weight, rel, last>>

------------------------------------------------------------------------------
(* The end of a transaction.                                               *)

\* The stop-loss of an executor pauses the release when its weight is cut.
After(a) ==
  IF a \in Autos /\ tx[a].action = "weight" /\ tx[a].arg = 0
  THEN [tx[a] EXCEPT !.pc = "ask", !.action = "pause", !.seen = NoRow] ELSE Idle

\* Mutant of Fresh: the row is updated wherever it is.
FreshAlways(a) == rel[tx[a].release] \in Row

\* updateState only finds the row in the phase that was read.
Fresh(a) == rel[tx[a].release].phase = tx[a].seen.phase

Commit(a) ==
  LET t   == tx[a]
      row == NextRow(t.action, t.arg, t.seen)
  IN
  /\ t.pc = "commit" /\ t.action # "delete"
  /\ Fresh(a)
  /\ IndexAllows(t.release, row.phase)
  /\ rel' = [rel EXCEPT ![t.release] = row]
  /\ IF WritesWeights(t.action)
     THEN /\ weight' = [weight EXCEPT
               ![t.seen.secondary] = Share(t.action, t.arg, t.seen),
               ![t.seen.primary]   = Full - Share(t.action, t.arg, t.seen)]
          /\ last' = {t.release}
     ELSE UNCHANGED <<weight, last>>
  /\ tx' = [tx EXCEPT ![a] = After(a)]

\* Delete is no transaction: the phase was checked on the row read before.
CommitDelete(a) ==
  /\ tx[a].pc = "commit" /\ tx[a].action = "delete"
  /\ rel' = [rel EXCEPT ![tx[a].release] = Deleted]
  /\ tx' = [tx EXCEPT ![a] = Idle]
  /\ UNCHANGED <<weight, last>>

\* Another transaction was faster, or the database fails: nothing is written.
Abort(a) ==
  /\ tx[a].pc \in {"baseline", "commit"}
  /\ tx' = [tx EXCEPT ![a] = Idle]
  /\ UNCHANGED <<weight, rel, last>>

------------------------------------------------------------------------------
(* The automatic canary executor.                                          *)

\* evaluateOnce lists the running canaries and goes by the metrics: it does
\* nothing, or it decides on a weight for the row as it was listed.
Judge(a, r, w) ==
  /\ tx[a] = Idle
  /\ rel[r] \in Row /\ rel[r].strategy = "canary" /\ rel[r].phase = "running"
  /\ tx' = [tx EXCEPT ![a] = [pc |-> "ask", release |-> r, action |-> "weight",
                              arg |-> w, seen |-> NoRow]]
  /\ UNCHANGED <<weight, rel, last>>

\* The canary fails: its weight is to be cut, then it is to be paused.
StopLoss(a, r) == Judge(a, r, 0)

\* The canary is healthy: the next weight.  The step and the target are the
\* configuration, which Update changes at any time.
StepUp(a, r) == \E w \in Weights : rel[r] \in Row /\ w > rel[r].sw /\ Judge(a, r, w)

\* The executor's transaction: it reads the release again.
AutoAsk(a) ==
  /\ tx[a].pc = "ask"
  /\ Read(a, tx[a].release, tx[a].action, tx[a].arg)

AutoRefused(a) ==
  /\ tx[a].pc = "ask"
  /\ rel[tx[a].release] \in Row => ~Allowed(tx[a].action, rel[tx[a].release])
  /\ tx' = [tx EXCEPT ![a] = Idle]
  /\ UNCHANGED <<weight, rel, last>>

------------------------------------------------------------------------------
RequestStep(a) ==
  /\ tx[a] = Idle
  /\ \E r \in Releases :
       \/ \E s \in Strategies, p, q \in Versions : Create(r, s, p, q)
       \/ \E action \in Actions : Ask(a, r, action)

AutoStep(a) ==
  \/ \E r \in Releases : StopLoss(a, r) \/ StepUp(a, r)
  \/ AutoAsk(a)
  \/ AutoRefused(a)

TxStep(a) == Baseline(a) \/ Commit(a) \/ CommitDelete(a) \/ Abort(a)

Next ==
  \/ \E a \in Requests : RequestStep(a)
  \/ \E a \in Autos : AutoStep(a)
  \/ \E a \in Actors : TxStep(a)

Spec == Init /\ [][Next]_vars

------------------------------------------------------------------------------
(* Properties.                                                             *)

\* One active release per deployment, over concurrent creations, restarts of
\* rolled back releases and races of both with whatever ends a release.
OneActive ==
  \A r, q \in Releases :
    rel[r].phase \in Active /\ rel[q].phase \in Active => r = q

\* The weights are what the phase of the release that last wrote them says:
\* no transaction that read an older phase splits the traffic again after a
\* promotion or a rollback, and the pair of a release always shares 100 %.
TrafficFollowsPhase ==
  \A r \in last :
    rel[r] \in Row =>
      LET p == weight[rel[r].primary]
          s == weight[rel[r].secondary]
      IN /\ p + s = Full
         /\ rel[r].phase = "completed"   => s = Full
         /\ rel[r].phase = "rolled_back" => s = 0
         /\ rel[r].phase = "active"      => {p, s} = {0, Full}

\* While a release splits the traffic nobody else has written weights.
SplitIsOwned ==
  \A r \in Releases : rel[r].phase \in {"running", "paused", "active"} => last = {r}

\* The two versions differ, and only a blue-green release is ever active.
SoundRow(row) ==
  /\ row.primary # row.secondary
  /\ row.strategy = "bluegreen" <=> row.phase = "active"

RowsAreSound == \A r \in Releases : rel[r] \in Row => SoundRow(rel[r])

LastExists == \A r \in last : rel[r] # NoRow

\* What a transaction has read may be old, but it is a row of its release that
\* let the action through, with the strategy and the versions it still has.
TxIsSound ==
  \A a \in Actors :
    tx[a].pc \in {"baseline", "commit"} =>
      LET row == rel[tx[a].release]
          old == tx[a].seen
      IN /\ old \in Row /\ SoundRow(old) /\ Allowed(tx[a].action, old)
         /\ row # NoRow
         /\ row \in Row => /\ row.strategy = old.strategy
                           /\ row.primary = old.primary
                           /\ row.secondary = old.secondary

\* The inductive invariant.
IInv == /\ TypeOK
        /\ OneActive
        /\ TrafficFollowsPhase
        /\ SplitIsOwned
        /\ RowsAreSound
        /\ LastExists
        /\ TxIsSound

\* Promotion is final: nothing that was under way takes it back.
CompletedStays ==
  \A r \in Releases :
    rel[r].phase = "completed" => rel'[r].phase \in {"completed", "deleted"}
CompletedIsFinal == [][CompletedStays]_vars

\* The comment of Release: the primary version of a blue-green release is the
\* active one.  It does not hold: a switch leaves the record as it was.
ActiveIsPrimary ==
  \A r \in Releases : rel[r].phase = "active" => weight[rel[r].primary] = Full

\* The comment of Delete: a running release is not deleted.  It does not hold: the
\* phase may change after it was read.
RunningIsNotDeleted ==
  [][\A r \in Releases : rel[r].phase \in Active => rel'[r].phase # "deleted"]_vars

\* The comment of start: the primary version has all of the traffic, a canary is
\* not put on top of another split.  It does not hold: that weight was read in a
\* statement before, and another release may have come and gone since.
StartsFromFull ==
  [][\A r \in Releases :
       /\ rel[r].phase \in {"created", "rolled_back"}
       /\ rel'[r].phase = "running"
       => weight[rel[r].primary] = Full]_vars

\* The comment of pause and the plan of the API: a paused release is frozen with
\* the weights it has, and the record shows them.  It does not hold: a pause writes back the
\* recorded weights it has read, whatever was set since in the same phase.
RecordIsTrue ==
  \A r \in last :
    rel[r].phase \in {"running", "paused"} => weight[rel[r].secondary] = rel[r].sw
==============================================================================
