---------------------------- MODULE ReleaseProofs ----------------------------
(***************************************************************************)
(* The inductive invariant of Release, what follows from it, and that      *)
(* Release implements ReleasePromise, for any number of versions,          *)
(* releases, requests and gateway instances.                               *)
(***************************************************************************)
EXTENDS ReleaseRefinement, TLAPS

\* A row that is none is no row of a release; the marks differ from each other.
LEMMA Marks ==
  /\ NoRow \notin Row /\ Deleted \notin Row /\ NoRow # Deleted
  /\ NoRow.phase = "none" /\ Deleted.phase = "deleted"
  /\ \A row \in Row : row.phase \in Terminal \cup Active
  BY DEF NoRow, Deleted, Row, Terminal, Active

\* The share of the secondary version is a weight, and so is the rest.
LEMMA ShareIsWeight ==
  ASSUME NEW action, NEW arg \in Weights, NEW row \in Row
  PROVE  /\ Share(action, arg, row) \in Weights
         /\ Full - Share(action, arg, row) \in Weights
         /\ Share(action, arg, row) + (Full - Share(action, arg, row)) = Full
<1>1. Share(action, arg, row) \in Weights
  BY WeightAssumption DEF Share, Weights, Row
<1>. QED BY <1>1, WeightAssumption DEF Weights

\* An action that is allowed on a sound row leaves a sound row of the release.
LEMMA NextRowIsSound ==
  ASSUME NEW action \in Actions \ {"delete"}, NEW arg \in Weights, NEW row \in Row,
         Allowed(action, row), SoundRow(row)
  PROVE  LET new == NextRow(action, arg, row)
         IN /\ new \in Row /\ SoundRow(new)
            /\ new.strategy = row.strategy
            /\ new.primary = row.primary /\ new.secondary = row.secondary
            /\ row.strategy = "bluegreen" => new.phase = "active"
            /\ row.strategy = "canary" => new.phase = NextPhase(action, row)
<1>. DEFINE new == NextRow(action, arg, row)
<1>1. CASE row.strategy = "bluegreen"
  <2>1. new = [row EXCEPT !.previous = row.primary]
    BY <1>1 DEF NextRow
  <2>. QED BY <1>1, <2>1 DEF Row, SoundRow
<1>2. CASE row.strategy = "canary"
  <2>1. NextPhase(action, row) \in {"running", "paused", "completed", "rolled_back"}
    BY <1>2 DEF NextPhase, Allowed, Actions, SoundRow
  <2>2. new = [row EXCEPT !.phase = NextPhase(action, row),
                          !.pw = Full - Share(action, arg, row),
                          !.sw = Share(action, arg, row)]
    BY <1>2 DEF NextRow
  <2>3. Share(action, arg, row) \in Weights /\ Full - Share(action, arg, row) \in Weights
    BY ShareIsWeight
  <2>4. new \in Row
    BY <2>1, <2>2, <2>3 DEF Row, Terminal, Active
  <2>. QED BY <1>2, <2>1, <2>2, <2>4 DEF Row, SoundRow
<1>. QED BY <1>1, <1>2, NameAssumption DEF Row

------------------------------------------------------------------------------
(* Steps that touch only what one actor has read.                          *)

\* A transaction is started or goes on, and the database is left alone.
LEMMA TxStepKeeps ==
  ASSUME IInv, NEW a \in Actors, NEW t \in Tx \cup {Idle},
         tx' = [tx EXCEPT ![a] = t], UNCHANGED <<weight, rel, last>>,
         t.pc \in {"baseline", "commit"} =>
           /\ t.seen \in Row /\ SoundRow(t.seen) /\ Allowed(t.action, t.seen)
           /\ rel[t.release] # NoRow
           /\ rel[t.release] \in Row => /\ rel[t.release].strategy = t.seen.strategy
                                        /\ rel[t.release].primary = t.seen.primary
                                        /\ rel[t.release].secondary = t.seen.secondary
  PROVE  IInv'
<1>. USE DEF IInv
<1>1. TypeOK'
  BY DEF TypeOK
<1>2. OneActive' /\ TrafficFollowsPhase' /\ SplitIsOwned' /\ RowsAreSound' /\ LastExists'
  BY DEF OneActive, TrafficFollowsPhase, SplitIsOwned, RowsAreSound, LastExists
<1>3. TxIsSound'
  <2>. SUFFICES ASSUME NEW b \in Actors, tx'[b].pc \in {"baseline", "commit"}
                PROVE  LET row == rel'[tx'[b].release]
                           old == tx'[b].seen
                       IN /\ old \in Row /\ SoundRow(old) /\ Allowed(tx'[b].action, old)
                          /\ row # NoRow
                          /\ row \in Row => /\ row.strategy = old.strategy
                                            /\ row.primary = old.primary
                                            /\ row.secondary = old.secondary
    BY DEF TxIsSound
  <2>1. CASE b = a
    BY <2>1 DEF TypeOK
  <2>2. CASE b # a
    <3>1. tx'[b] = tx[b]
      BY <2>2 DEF TypeOK
    <3>. QED BY <3>1 DEF TxIsSound
  <2>. QED BY <2>1, <2>2
<1>. QED BY <1>1, <1>2, <1>3

\* The release is read within a transaction.
LEMMA ReadKeeps ==
  ASSUME IInv, NEW a \in Actors, NEW r \in Releases, NEW action \in Actions,
         NEW arg \in Weights, Read(a, r, action, arg)
  PROVE  IInv'
<1>. DEFINE t == [pc |-> IF action = "start" THEN "baseline" ELSE "commit",
                  release |-> r, action |-> action, arg |-> arg, seen |-> rel[r]]
<1>1. t \in Tx
  BY DEF Read, Tx
<1>2. SoundRow(rel[r]) /\ rel[r] # NoRow
  BY Marks DEF Read, IInv, RowsAreSound
<1>3. tx' = [tx EXCEPT ![a] = t] /\ UNCHANGED <<weight, rel, last>>
  BY DEF Read
<1>4. t.seen = rel[r] /\ t.action = action /\ t.release = r
  OBVIOUS
<1>. HIDE DEF t
<1>. QED BY <1>1, <1>2, <1>3, <1>4, TxStepKeeps DEF Read

\* A transaction ends without an effect.
LEMMA GiveUpKeeps ==
  ASSUME IInv, NEW a \in Actors, tx' = [tx EXCEPT ![a] = Idle], UNCHANGED <<weight, rel, last>>
  PROVE  IInv'
<1>1. Idle.pc = "idle"
  BY DEF Idle
<1>. QED BY <1>1, TxStepKeeps

\* The start of a canary checks its baseline.
LEMMA BaselineKeeps ==
  ASSUME IInv, NEW a \in Actors, Baseline(a)
  PROVE  IInv'
<1>1. CASE weight[tx[a].seen.primary] = Full
  <2>. DEFINE t == [tx[a] EXCEPT !.pc = "commit"]
  <2>1. tx[a] \in Tx
    BY DEF Baseline, IInv, TypeOK, Idle
  <2>2. t \in Tx /\ t.seen = tx[a].seen /\ t.action = tx[a].action /\ t.release = tx[a].release
    BY <2>1 DEF Tx
  <2>3. tx' = [tx EXCEPT ![a] = t] /\ UNCHANGED <<weight, rel, last>>
    BY <1>1 DEF Baseline
  <2>4. tx[a].pc = "baseline"
    BY DEF Baseline
  <2>. HIDE DEF t
  <2>5. /\ t.seen \in Row /\ SoundRow(t.seen) /\ Allowed(t.action, t.seen)
        /\ rel[t.release] # NoRow
        /\ rel[t.release] \in Row => /\ rel[t.release].strategy = t.seen.strategy
                                     /\ rel[t.release].primary = t.seen.primary
                                     /\ rel[t.release].secondary = t.seen.secondary
    BY <2>2, <2>4 DEF IInv, TxIsSound
  <2>. QED BY <2>2, <2>3, <2>5, TxStepKeeps
<1>2. CASE weight[tx[a].seen.primary] # Full
  BY <1>2, GiveUpKeeps DEF Baseline
<1>. QED BY <1>1, <1>2

\* An executor decides on a weight.
LEMMA JudgeKeeps ==
  ASSUME IInv, NEW a \in Actors, NEW r \in Releases, NEW w \in Weights, Judge(a, r, w)
  PROVE  IInv'
<1>. DEFINE t == [pc |-> "ask", release |-> r, action |-> "weight", arg |-> w, seen |-> NoRow]
<1>1. t \in Tx /\ t.pc = "ask"
  BY DEF Tx, Actions
<1>2. tx' = [tx EXCEPT ![a] = t] /\ UNCHANGED <<weight, rel, last>>
  BY DEF Judge
<1>. HIDE DEF t
<1>. QED BY <1>1, <1>2, TxStepKeeps
------------------------------------------------------------------------------
(* Steps that write.                                                       *)

\* What a transaction has read stays sound while only its release is written,
\* and only by a row with the same strategy and versions, or by its deletion.
LEMMA OtherTxStaySound ==
  ASSUME IInv, NEW r \in Releases, NEW row \in Row \cup {Deleted},
         rel' = [rel EXCEPT ![r] = row],
         rel[r] = NoRow \/ row = Deleted \/
           /\ rel[r] \in Row
           /\ row.strategy = rel[r].strategy
           /\ row.primary = rel[r].primary
           /\ row.secondary = rel[r].secondary,
         NEW b \in Actors, tx'[b] = tx[b], tx[b].pc \in {"baseline", "commit"}
  PROVE  LET new == rel'[tx'[b].release]
             old == tx'[b].seen
         IN /\ old \in Row /\ SoundRow(old) /\ Allowed(tx'[b].action, old)
            /\ new # NoRow
            /\ new \in Row => /\ new.strategy = old.strategy
                              /\ new.primary = old.primary
                              /\ new.secondary = old.secondary
<1>1. tx[b] \in Tx
  BY DEF IInv, TypeOK, Idle
<1>2. tx[b].release \in Releases
  BY <1>1 DEF Tx
<1>3. rel[tx[b].release] # NoRow
  BY DEF IInv, TxIsSound
<1>4. CASE tx[b].release # r
  <2>1. rel'[tx[b].release] = rel[tx[b].release]
    BY <1>2, <1>4 DEF IInv, TypeOK
  <2>. QED BY <2>1 DEF IInv, TxIsSound
<1>5. CASE tx[b].release = r
  <2>1. rel'[tx[b].release] = row
    BY <1>2, <1>5 DEF IInv, TypeOK
  <2>2. row # NoRow
    BY Marks
  <2>. QED BY <1>3, <1>5, <2>1, <2>2, Marks DEF IInv, TxIsSound
<1>. QED BY <1>4, <1>5

\* A release is created.
LEMMA CreateKeeps ==
  ASSUME IInv, NEW r \in Releases, NEW s \in Strategies,
         NEW p \in Versions, NEW q \in Versions, Create(r, s, p, q)
  PROVE  IInv'
<1>. USE DEF IInv
<1>. DEFINE row == [strategy |-> s, phase |-> IF s = "canary" THEN "created" ELSE "active",
                    primary |-> p, secondary |-> q, pw |-> Full, sw |-> 0,
                    previous |-> NoVersion]
<1>0. p # q /\ s \in {"canary", "bluegreen"}
  BY NameAssumption DEF Create
<1>1. /\ row \in Row /\ SoundRow(row)
      /\ row.primary = p /\ row.secondary = q
      /\ row.phase = IF s = "canary" THEN "created" ELSE "active"
  BY <1>0, WeightAssumption DEF Row, SoundRow, Weights, Terminal, Active
<1>2. rel' = [rel EXCEPT ![r] = row] /\ rel[r] = NoRow /\ p # q /\ tx' = tx
  BY DEF Create
<1>3. \A u \in Releases \ {r} : rel[u].phase \notin Active
  BY DEF Create, IndexAllows, Active
<1>. HIDE DEF row
<1>4. \A u \in Releases : u # r => rel'[u] = rel[u]
  BY <1>2 DEF TypeOK
<1>5. rel'[r] = row
  BY <1>2 DEF TypeOK
<1>6. TypeOK'
  <2>1. weight' \in [Versions -> Weights] /\ last' \in SUBSET Releases
    BY WeightAssumption DEF TypeOK, Create, Weights
  <2>2. rel' \in [Releases -> Row \cup {NoRow, Deleted}] /\ tx' \in [Actors -> Tx \cup {Idle}]
    BY <1>1, <1>2 DEF TypeOK
  <2>. QED BY <2>1, <2>2 DEF TypeOK
<1>7. OneActive'
  BY <1>3, <1>4 DEF OneActive
<1>8. RowsAreSound'
  BY <1>1, <1>4, <1>5 DEF RowsAreSound
<1>9. TxIsSound'
  BY <1>1, <1>2, OtherTxStaySound DEF TxIsSound
<1>10. TrafficFollowsPhase' /\ SplitIsOwned'
  <2>1. CASE s = "canary"
    <3>1. UNCHANGED <<weight, last>> /\ row.phase = "created"
      BY <1>1, <2>1 DEF Create
    <3>2. SplitIsOwned'
      BY <1>4, <1>5, <3>1 DEF SplitIsOwned
    <3>3. TrafficFollowsPhase'
      <4>. SUFFICES ASSUME NEW u \in last, rel'[u] \in Row
                    PROVE  /\ weight[rel'[u].primary] + weight[rel'[u].secondary] = Full
                           /\ rel'[u].phase = "completed" => weight[rel'[u].secondary] = Full
                           /\ rel'[u].phase = "rolled_back" => weight[rel'[u].secondary] = 0
                           /\ rel'[u].phase = "active" =>
                                {weight[rel'[u].primary], weight[rel'[u].secondary]} = {0, Full}
        BY <3>1 DEF TrafficFollowsPhase
      <4>1. u # r
        BY <1>2 DEF LastExists
      <4>. QED BY <1>4, <4>1 DEF TrafficFollowsPhase, TypeOK
    <3>. QED BY <3>2, <3>3
  <2>2. CASE s # "canary"
    <3>1. /\ weight' = [weight EXCEPT ![p] = Full, ![q] = 0] /\ last' = {r}
          /\ row.phase = "active"
      BY <1>1, <2>2 DEF Create
    <3>2. weight'[p] = Full /\ weight'[q] = 0
      BY <1>2, <3>1 DEF TypeOK
    <3>3. SplitIsOwned'
      BY <1>3, <1>4, <3>1 DEF SplitIsOwned, Active
    <3>4. Full + 0 = Full /\ {Full, 0} = {0, Full}
      BY WeightAssumption
    <3>5. TrafficFollowsPhase'
      BY <1>1, <1>5, <3>1, <3>2, <3>4 DEF TrafficFollowsPhase
    <3>. QED BY <3>3, <3>5
  <2>. QED BY <2>1, <2>2
<1>11. LastExists'
  BY <1>1, <1>2, <1>4, <1>5, Marks DEF LastExists, Create
<1>. QED BY <1>6, <1>7, <1>8, <1>9, <1>10, <1>11
\* What the transaction that commits knows.
LEMMA CommitFacts ==
  ASSUME IInv, NEW a \in Actors, Commit(a)
  PROVE  LET t   == tx[a]
             row == NextRow(t.action, t.arg, t.seen)
         IN /\ t \in Tx /\ t.action \in Actions \ {"delete"} /\ t.arg \in Weights
            /\ t.release \in Releases /\ rel[t.release] \in Row
            /\ t.seen \in Row /\ SoundRow(t.seen) /\ Allowed(t.action, t.seen)
            /\ rel[t.release].phase = t.seen.phase
            /\ rel[t.release].strategy = t.seen.strategy
            /\ rel[t.release].primary = t.seen.primary
            /\ rel[t.release].secondary = t.seen.secondary
            /\ row \in Row /\ SoundRow(row)
            /\ row.strategy = t.seen.strategy
            /\ row.primary = t.seen.primary /\ row.secondary = t.seen.secondary
            /\ row.strategy = "bluegreen" => row.phase = "active"
            /\ row.strategy = "canary" => row.phase = NextPhase(t.action, t.seen)
            /\ rel' = [rel EXCEPT ![t.release] = row]
<1>. DEFINE t == tx[a]
            row == NextRow(t.action, t.arg, t.seen)
<1>1. t.pc = "commit" /\ t.action # "delete" /\ rel[t.release].phase = t.seen.phase
  BY DEF Commit, Fresh
<1>2. t \in Tx
  BY <1>1 DEF IInv, TypeOK, Idle
<1>3. t.action \in Actions \ {"delete"} /\ t.arg \in Weights /\ t.release \in Releases
  BY <1>1, <1>2 DEF Tx
<1>4. t.seen \in Row /\ SoundRow(t.seen) /\ Allowed(t.action, t.seen)
  BY <1>1 DEF IInv, TxIsSound
<1>5. rel[t.release] \in Row
  <2>1. t.seen.phase \notin {"none", "deleted"}
    BY <1>4 DEF Row, Terminal, Active
  <2>2. rel[t.release] \in Row \cup {NoRow, Deleted}
    BY <1>3 DEF IInv, TypeOK
  <2>. QED BY <1>1, <2>1, <2>2, Marks
<1>6. /\ rel[t.release].strategy = t.seen.strategy
      /\ rel[t.release].primary = t.seen.primary
      /\ rel[t.release].secondary = t.seen.secondary
  BY <1>1, <1>5 DEF IInv, TxIsSound
<1>7. rel' = [rel EXCEPT ![t.release] = row]
  BY DEF Commit
<1>8. /\ row \in Row /\ SoundRow(row)
      /\ row.strategy = t.seen.strategy
      /\ row.primary = t.seen.primary /\ row.secondary = t.seen.secondary
      /\ row.strategy = "bluegreen" => row.phase = "active"
      /\ row.strategy = "canary" => row.phase = NextPhase(t.action, t.seen)
  BY <1>3, <1>4, NextRowIsSound
<1>. QED BY <1>1, <1>2, <1>3, <1>4, <1>5, <1>6, <1>7, <1>8

\* A transaction commits.
LEMMA CommitKeeps ==
  ASSUME IInv, NEW a \in Actors, Commit(a)
  PROVE  IInv'
<1>. USE DEF IInv
<1>. DEFINE t   == tx[a]
            r   == t.release
            old == t.seen
            row == NextRow(t.action, t.arg, t.seen)
            share == Share(t.action, t.arg, t.seen)
<1>1. /\ t \in Tx /\ t.action \in Actions \ {"delete"} /\ t.arg \in Weights
      /\ r \in Releases /\ rel[r] \in Row
      /\ old \in Row /\ SoundRow(old) /\ Allowed(t.action, old)
      /\ rel[r].phase = old.phase /\ rel[r].strategy = old.strategy
      /\ rel[r].primary = old.primary /\ rel[r].secondary = old.secondary
      /\ row \in Row /\ SoundRow(row) /\ row.strategy = old.strategy
      /\ row.primary = old.primary /\ row.secondary = old.secondary
      /\ row.strategy = "bluegreen" => row.phase = "active"
      /\ row.strategy = "canary" => row.phase = NextPhase(t.action, old)
      /\ rel' = [rel EXCEPT ![r] = row]
  BY CommitFacts
<1>2. share \in Weights /\ Full - share \in Weights /\ share + (Full - share) = Full
  BY <1>1, ShareIsWeight
<1>3. /\ IndexAllows(r, row.phase)
      /\ tx' = [tx EXCEPT ![a] = After(a)]
      /\ \/ /\ WritesWeights(t.action) /\ last' = {r}
            /\ weight' = [weight EXCEPT ![old.secondary] = share,
                                        ![old.primary] = Full - share]
         \/ ~WritesWeights(t.action) /\ UNCHANGED <<weight, last>>
  BY DEF Commit
<1>4. After(a) \in Tx \cup {Idle} /\ After(a).pc \in {"ask", "idle"}
  BY <1>1 DEF After, Tx, Idle, Actions
<1>5. old.primary \in Versions /\ old.secondary \in Versions /\ old.primary # old.secondary
  BY <1>1 DEF Row, SoundRow
<1>6. \/ old.strategy = "bluegreen" /\ old.phase = "active" /\ row.phase = "active"
      \/ /\ old.strategy = "canary" /\ row.phase = NextPhase(t.action, old)
         /\ t.action \in {"start", "pause", "resume", "weight", "promote", "rollback"}
  BY <1>1, NameAssumption DEF Row, SoundRow, Allowed, Terminal
<1>. HIDE DEF t, r, old, row, share
<1>7. rel'[r] = row /\ \A u \in Releases : u # r => rel'[u] = rel[u]
  BY <1>1 DEF TypeOK
<1>8. TypeOK'
  <2>1. weight' \in [Versions -> Weights] /\ last' \in SUBSET Releases
    BY <1>1, <1>2, <1>3 DEF TypeOK
  <2>2. rel' \in [Releases -> Row \cup {NoRow, Deleted}] /\ tx' \in [Actors -> Tx \cup {Idle}]
    BY <1>1, <1>3, <1>4 DEF TypeOK
  <2>. QED BY <2>1, <2>2 DEF TypeOK
<1>9. OneActive'
  BY <1>3, <1>7 DEF OneActive, IndexAllows
<1>10. RowsAreSound' /\ LastExists'
  BY <1>1, <1>3, <1>7, Marks DEF RowsAreSound, LastExists
<1>11. TxIsSound'
  <2>1. tx'[a].pc \notin {"baseline", "commit"}
    BY <1>3, <1>4 DEF TypeOK
  <2>2. \A b \in Actors : b # a => tx'[b] = tx[b]
    BY <1>3 DEF TypeOK
  <2>. QED BY <1>1, <2>1, <2>2, OtherTxStaySound DEF TxIsSound
<1>12. CASE WritesWeights(t.action)
  <2>1. last' = {r} /\ weight'[old.secondary] = share /\ weight'[old.primary] = Full - share
    BY <1>3, <1>5, <1>12 DEF TypeOK
  <2>2. Full - share + share = Full
    BY <1>2, WeightAssumption DEF Weights
  <2>3. /\ row.phase = "completed" => share = Full
        /\ row.phase = "rolled_back" => share = 0
        /\ row.phase = "active" => share = Full
    <3>1. share = Share(t.action, t.arg, old)
      BY DEF share, old
    <3>2. CASE old.strategy = "bluegreen"
      BY <1>1, <1>6, <3>1, <3>2 DEF Share, Allowed, SoundRow, Terminal
    <3>3. CASE old.strategy = "canary"
      <4>1. t.action = "promote" => row.phase = "completed" /\ share = Full
        BY <1>6, <3>1, <3>3 DEF Share, NextPhase
      <4>2. t.action = "rollback" => row.phase = "rolled_back" /\ share = 0
        BY <1>6, <3>1, <3>3 DEF Share, NextPhase
      <4>3. t.action = "start" => row.phase = "running"
        BY <1>6, <3>3 DEF NextPhase
      <4>4. t.action = "weight" => row.phase \in {"running", "paused"}
        BY <1>1, <1>6, <3>3 DEF Allowed, NextPhase
      <4>. QED BY <1>6, <1>12, <3>3, <4>1, <4>2, <4>3, <4>4 DEF WritesWeights
    <3>. QED BY <1>6, <3>2, <3>3
  <2>4. Full - Full = 0 /\ {0, Full} = {Full, 0}
    BY WeightAssumption
  <2>5. TrafficFollowsPhase'
    BY <1>1, <1>7, <2>1, <2>2, <2>3, <2>4 DEF TrafficFollowsPhase
  <2>6. old.phase \in Active \/ row.phase \in Active
    BY <1>1, <1>6 DEF Allowed, NextPhase, Active
  <2>7. \A u \in Releases : u # r => rel[u].phase \notin Active
    BY <1>1, <1>3, <2>6 DEF OneActive, IndexAllows
  <2>8. SplitIsOwned'
    BY <1>7, <2>1, <2>7 DEF SplitIsOwned, Active
  <2>. QED BY <1>8, <1>9, <1>10, <1>11, <2>5, <2>8
<1>13. CASE ~WritesWeights(t.action)
  <2>1. UNCHANGED <<weight, last>> /\ t.action \in {"pause", "resume"}
    BY <1>3, <1>13 DEF WritesWeights
  <2>2. old.phase \in {"running", "paused"} /\ row.phase \in {"running", "paused"}
    BY <1>1, <1>6, <2>1 DEF Allowed, NextPhase
  <2>3. SplitIsOwned'
    BY <1>1, <1>7, <2>1, <2>2 DEF SplitIsOwned
  <2>4. TrafficFollowsPhase'
    <3>. SUFFICES ASSUME NEW u \in last, rel'[u] \in Row
                  PROVE  /\ weight[rel'[u].primary] + weight[rel'[u].secondary] = Full
                         /\ rel'[u].phase = "completed" => weight[rel'[u].secondary] = Full
                         /\ rel'[u].phase = "rolled_back" => weight[rel'[u].secondary] = 0
                         /\ rel'[u].phase = "active" =>
                              {weight[rel'[u].primary], weight[rel'[u].secondary]} = {0, Full}
      BY <2>1 DEF TrafficFollowsPhase
    <3>1. CASE u = r
      BY <1>1, <1>7, <2>2, <3>1 DEF TrafficFollowsPhase
    <3>2. CASE u # r
      BY <1>7, <3>2 DEF TrafficFollowsPhase, TypeOK
    <3>. QED BY <3>1, <3>2
  <2>. QED BY <1>8, <1>9, <1>10, <1>11, <2>3, <2>4
<1>. QED BY <1>12, <1>13

\* A release is deleted.
LEMMA CommitDeleteKeeps ==
  ASSUME IInv, NEW a \in Actors, CommitDelete(a)
  PROVE  IInv'
<1>. USE DEF IInv
<1>. DEFINE r == tx[a].release
<1>1. rel' = [rel EXCEPT ![r] = Deleted] /\ tx' = [tx EXCEPT ![a] = Idle]
      /\ UNCHANGED <<weight, last>>
  BY DEF CommitDelete
<1>2. r \in Releases
  BY DEF CommitDelete, TypeOK, Idle, Tx
<1>. HIDE DEF r
<1>3. rel'[r] = Deleted /\ \A u \in Releases : u # r => rel'[u] = rel[u]
  BY <1>1, <1>2 DEF TypeOK
<1>4. TypeOK'
  BY <1>1, <1>2 DEF TypeOK
<1>5. OneActive' /\ SplitIsOwned' /\ RowsAreSound' /\ LastExists'
  BY <1>1, <1>3, Marks DEF OneActive, SplitIsOwned, RowsAreSound, LastExists, Active, TypeOK
<1>6. TrafficFollowsPhase'
  <2>. SUFFICES ASSUME NEW u \in last, rel'[u] \in Row
                PROVE  /\ weight[rel'[u].primary] + weight[rel'[u].secondary] = Full
                       /\ rel'[u].phase = "completed" => weight[rel'[u].secondary] = Full
                       /\ rel'[u].phase = "rolled_back" => weight[rel'[u].secondary] = 0
                       /\ rel'[u].phase = "active" =>
                            {weight[rel'[u].primary], weight[rel'[u].secondary]} = {0, Full}
    BY <1>1 DEF TrafficFollowsPhase
  <2>1. u # r
    BY <1>3, Marks
  <2>. QED BY <1>3, <2>1 DEF TrafficFollowsPhase, TypeOK
<1>7. TxIsSound'
  <2>1. tx'[a].pc \notin {"baseline", "commit"}
    BY <1>1 DEF TypeOK, Idle
  <2>2. \A b \in Actors : b # a => tx'[b] = tx[b]
    BY <1>1 DEF TypeOK
  <2>. QED BY <1>1, <1>2, <2>1, <2>2, OtherTxStaySound DEF TxIsSound
<1>. QED BY <1>4, <1>5, <1>6, <1>7

------------------------------------------------------------------------------
LEMMA InitHolds == Init => IInv
<1>. SUFFICES ASSUME Init PROVE IInv
  OBVIOUS
<1>1. TypeOK
  BY WeightAssumption DEF Init, TypeOK, Weights
<1>2. \A r \in Releases : rel[r] = NoRow
  BY DEF Init
<1>3. OneActive /\ SplitIsOwned /\ RowsAreSound
  BY <1>2, Marks DEF OneActive, SplitIsOwned, RowsAreSound, Active
<1>4. TrafficFollowsPhase /\ LastExists
  BY DEF Init, TrafficFollowsPhase, LastExists
<1>5. TxIsSound
  BY DEF Init, TxIsSound, Idle
<1>. QED BY <1>1, <1>3, <1>4, <1>5 DEF IInv

LEMMA StepHolds == IInv /\ [Next]_vars => IInv'
<1>. SUFFICES ASSUME IInv, [Next]_vars PROVE IInv'
  OBVIOUS
<1>1. CASE UNCHANGED vars
  BY <1>1 DEF vars, IInv, TypeOK, OneActive, TrafficFollowsPhase, SplitIsOwned,
              RowsAreSound, LastExists, TxIsSound
<1>2. ASSUME NEW a \in Requests, RequestStep(a) PROVE IInv'
  BY <1>2, CreateKeeps, ReadKeeps DEF RequestStep, Ask, Actors
<1>3. ASSUME NEW a \in Autos, AutoStep(a) PROVE IInv'
  <2>. a \in Actors
    BY DEF Actors
  <2>1. ASSUME NEW r \in Releases, StopLoss(a, r) \/ StepUp(a, r) PROVE IInv'
    <3>1. 0 \in Weights
      BY WeightAssumption DEF Weights
    <3>. QED BY <2>1, <3>1, JudgeKeeps DEF StopLoss, StepUp
  <2>2. CASE AutoAsk(a)
    <3>1. tx[a] \in Tx
      BY <2>2 DEF AutoAsk, IInv, TypeOK, Idle
    <3>2. tx[a].release \in Releases /\ tx[a].action \in Actions /\ tx[a].arg \in Weights
      BY <3>1 DEF Tx
    <3>. QED BY <2>2, <3>2, ReadKeeps DEF AutoAsk
  <2>3. CASE AutoRefused(a)
    BY <2>3, GiveUpKeeps DEF AutoRefused
  <2>. QED BY <1>3, <2>1, <2>2, <2>3 DEF AutoStep
<1>4. ASSUME NEW a \in Actors, TxStep(a) PROVE IInv'
  BY <1>4, BaselineKeeps, CommitKeeps, CommitDeleteKeeps, GiveUpKeeps DEF TxStep, Abort
<1>. QED BY <1>1, <1>2, <1>3, <1>4 DEF Next

\* The inductive invariant, for any number of versions, releases, concurrent
\* requests and gateway instances, and any weights.
THEOREM Invariance == Spec => []IInv
  BY InitHolds, StepHolds, PTL DEF Spec

\* Rows, transactions and weights have their types.
THEOREM TypeCorrect == Spec => []TypeOK
<1>1. IInv => TypeOK
  BY DEF IInv
<1>. QED BY <1>1, Invariance, PTL

\* A deployment has at most one active release.
THEOREM AtMostOneActive == Spec => []OneActive
<1>1. IInv => OneActive
  BY DEF IInv
<1>. QED BY <1>1, Invariance, PTL

\* The weights are those of the phase of the release that last wrote them.
THEOREM WeightsFollowPhase == Spec => []TrafficFollowsPhase
<1>1. IInv => TrafficFollowsPhase
  BY DEF IInv
<1>. QED BY <1>1, Invariance, PTL

\* Only the release that splits the traffic has written weights.
THEOREM OwnedSplit == Spec => []SplitIsOwned
<1>1. IInv => SplitIsOwned
  BY DEF IInv
<1>. QED BY <1>1, Invariance, PTL

\* No step takes a promotion back.
LEMMA StepCompleted == IInv /\ [Next]_vars => [CompletedStays]_vars
<1>. SUFFICES ASSUME IInv, Next PROVE CompletedStays
  OBVIOUS
<1>. SUFFICES ASSUME NEW r \in Releases, rel[r].phase = "completed"
              PROVE  rel'[r].phase \in {"completed", "deleted"}
  BY DEF CompletedStays
<1>1. CASE UNCHANGED rel
  BY <1>1
<1>2. ASSUME NEW q \in Releases, NEW s \in Strategies,
             NEW v \in Versions, NEW w \in Versions, Create(q, s, v, w)
      PROVE  rel'[r].phase \in {"completed", "deleted"}
  <2>1. q # r
    BY <1>2, Marks DEF Create
  <2>. QED BY <1>2, <2>1 DEF Create, IInv, TypeOK
<1>3. ASSUME NEW a \in Actors, Commit(a)
      PROVE  rel'[r].phase \in {"completed", "deleted"}
  <2>. DEFINE t == tx[a]
  <2>1. /\ Allowed(t.action, t.seen) /\ SoundRow(t.seen) /\ t.action # "delete"
        /\ rel[t.release].phase = t.seen.phase
        /\ rel' = [rel EXCEPT ![t.release] = NextRow(t.action, t.arg, t.seen)]
    BY <1>3, CommitFacts
  <2>2. t.release # r
    BY <2>1 DEF Allowed, SoundRow
  <2>. QED BY <2>1, <2>2 DEF IInv, TypeOK
<1>4. ASSUME NEW a \in Actors, CommitDelete(a)
      PROVE  rel'[r].phase \in {"completed", "deleted"}
  BY <1>4, Marks DEF CommitDelete, IInv, TypeOK
<1>. QED
  BY <1>1, <1>2, <1>3, <1>4
  DEF Next, RequestStep, AutoStep, TxStep, Actors, Ask, Read, Baseline, Abort,
      StopLoss, StepUp, Judge, AutoAsk, AutoRefused

\* No step takes a promotion back, however late its transaction.
THEOREM PromotionIsFinal == Spec => CompletedIsFinal
  BY Invariance, StepCompleted, PTL DEF Spec, CompletedIsFinal

------------------------------------------------------------------------------
(* The promise.                                                            *)

\* What the promise knows of a release is its phase, and of a row its pair.
LEMMA StageFacts ==
  ASSUME TypeOK, NEW r \in Releases
  PROVE  /\ stageBar[r] = StageOf(rel[r])
         /\ stageBar[r].phase = rel[r].phase
         /\ rel[r] \in Row => stageBar[r] = [phase     |-> rel[r].phase,
                                            primary   |-> rel[r].primary,
                                            secondary |-> rel[r].secondary]
         /\ rel[r] = NoRow => stageBar[r] = Promise!Absent
<1>1. rel[r] \in Row \cup {NoRow, Deleted}
  BY DEF TypeOK
<1>2. stageBar[r] = StageOf(rel[r])
  BY DEF stageBar
<1>3. CASE rel[r] \in Row
  BY <1>2, <1>3, Marks DEF StageOf
<1>4. CASE rel[r] \in {NoRow, Deleted}
  BY <1>2, <1>4, Marks DEF StageOf, Terminal, Active, NoRow, Promise!Absent
<1>. QED BY <1>1, <1>2, <1>3, <1>4

\* A release that is given another row gets another stage, the others keep theirs.
LEMMA StageChanges ==
  ASSUME TypeOK, NEW r \in Releases, NEW row, rel' = [rel EXCEPT ![r] = row]
  PROVE  stageBar' = [stageBar EXCEPT ![r] = StageOf(row)]
<1>1. rel' = [q \in Releases |-> IF q = r THEN row ELSE rel[q]]
  BY DEF TypeOK
<1>2. stageBar' = [q \in Releases |-> StageOf(rel'[q])]
  BY DEF stageBar, StageOf
<1>3. stageBar = [q \in Releases |-> StageOf(rel[q])]
  BY DEF stageBar
<1>. HIDE DEF stageBar, StageOf
<1>4. \A q \in Releases : StageOf(rel'[q]) = IF q = r THEN StageOf(row) ELSE StageOf(rel[q])
  BY <1>1
<1>. QED BY <1>2, <1>3, <1>4

\* What the unique index lets through is free in the promise.
LEMMA IndexIsFree ==
  ASSUME TypeOK, NEW r \in Releases, NEW phase \in Active, IndexAllows(r, phase)
  PROVE  Promise!Free(r)
<1>1. \A q \in Releases : stageBar[q].phase = rel[q].phase
  BY StageFacts
<1>. QED BY <1>1 DEF IndexAllows, Active, Promise!Free, Promise!Busy

\* A creation is Open.
LEMMA CreateImplements ==
  ASSUME IInv, NEW r \in Releases, NEW s \in Strategies,
         NEW p \in Versions, NEW q \in Versions, Create(r, s, p, q)
  PROVE  Promise!Open(r)
<1>. DEFINE row == [strategy |-> s, phase |-> IF s = "canary" THEN "created" ELSE "active",
                    primary |-> p, secondary |-> q, pw |-> Full, sw |-> 0,
                    previous |-> NoVersion]
            pair == [primary |-> p, secondary |-> q]
<1>1. TypeOK /\ rel[r] = NoRow /\ p # q /\ rel' = [rel EXCEPT ![r] = row]
  BY DEF IInv, Create
<1>2. stageBar[r] = Promise!Absent /\ Promise!Free(r)
  BY <1>1, StageFacts, IndexIsFree DEF Create, Active
<1>3. StageOf(row) = [phase |-> row.phase, primary |-> p, secondary |-> q]
  BY DEF StageOf, Terminal, Active
<1>4. stageBar' = [stageBar EXCEPT ![r] = StageOf(row)]
  BY <1>1, StageChanges
<1>5. Promise!Enter(r, pair, row.phase)
  BY <1>3, <1>4 DEF Promise!Enter
<1>6. pair \in Promise!Pairs
  BY <1>1 DEF Promise!Pairs
<1>7. CASE s = "canary"
  <2>1. row.phase = "created" /\ UNCHANGED weight
    BY <1>7 DEF Create
  <2>. QED BY <1>2, <1>5, <1>6, <2>1 DEF Promise!Open
<1>8. CASE s # "canary"
  <2>1. row.phase = "active"
    BY <1>8
  <2>2. weight' = [weight EXCEPT ![q] = 0, ![p] = Full - 0]
    BY <1>1, <1>8, WeightAssumption DEF Create, IInv, TypeOK
  <2>3. Promise!Split(pair, 0)
    BY <2>2 DEF Promise!Split
  <2>. QED BY <1>2, <1>5, <1>6, <2>1, <2>3 DEF Promise!Open
<1>. QED BY <1>7, <1>8

\* What a commit does to the promise's variables: the release goes to the phase
\* of its new row, and its pair shares the traffic as the action says.
LEMMA CommitIsSerial ==
  ASSUME IInv, NEW a \in Actors, Commit(a)
  PROVE  LET t     == tx[a]
             r     == t.release
             new   == NextRow(t.action, t.arg, t.seen).phase
             share == Share(t.action, t.arg, t.seen)
         IN /\ r \in Releases /\ rel[r] \in Row
            /\ stageBar[r].phase = t.seen.phase
            /\ stageBar' = [stageBar EXCEPT ![r].phase = new]
            /\ new = t.seen.phase => stageBar' = stageBar
            /\ new \in Active => Promise!Free(r)
            /\ share \in 0..Full
            /\ WritesWeights(t.action) => Promise!Split(stageBar[r], share)
            /\ ~WritesWeights(t.action) => UNCHANGED weight
<1>. DEFINE t     == tx[a]
            r     == t.release
            old   == t.seen
            row   == NextRow(t.action, t.arg, t.seen)
            share == Share(t.action, t.arg, t.seen)
<1>1. /\ r \in Releases /\ rel[r] \in Row /\ t.arg \in Weights /\ old \in Row
      /\ rel[r].phase = old.phase
      /\ rel[r].primary = old.primary /\ rel[r].secondary = old.secondary
      /\ row \in Row /\ row.primary = old.primary /\ row.secondary = old.secondary
      /\ rel' = [rel EXCEPT ![r] = row]
  BY CommitFacts
<1>2. TypeOK /\ IndexAllows(r, row.phase)
  BY DEF IInv, Commit
<1>3. stageBar[r] = [phase |-> old.phase, primary |-> old.primary, secondary |-> old.secondary]
  BY <1>1, <1>2, StageFacts
<1>4. StageOf(row) = [phase |-> row.phase, primary |-> old.primary, secondary |-> old.secondary]
  BY <1>1, Marks DEF StageOf
<1>5. stageBar' = [stageBar EXCEPT ![r] = StageOf(row)]
  BY <1>1, <1>2, StageChanges
<1>6. stageBar = [q \in Releases |-> stageBar[q]]
  BY DEF stageBar
<1>7. share \in 0..Full
  BY <1>1, ShareIsWeight DEF Weights
<1>8. /\ WritesWeights(t.action) =>
           weight' = [weight EXCEPT ![old.secondary] = share, ![old.primary] = Full - share]
      /\ ~WritesWeights(t.action) => UNCHANGED weight
  BY DEF Commit
<1>9. row.phase \in Active => Promise!Free(r)
  BY <1>1, <1>2, IndexIsFree
<1>. HIDE DEF t, r, old, row, share
<1>10. /\ stageBar' = [stageBar EXCEPT ![r].phase = row.phase]
       /\ row.phase = old.phase => stageBar' = stageBar
  <2>1. [stageBar EXCEPT ![r].phase = row.phase]
          = [stageBar EXCEPT ![r] = [stageBar[r] EXCEPT !.phase = row.phase]]
    BY <1>1, <1>6
  <2>2. [stageBar[r] EXCEPT !.phase = row.phase] = StageOf(row)
    BY <1>3, <1>4
  <2>3. row.phase = old.phase => StageOf(row) = stageBar[r]
    BY <1>3, <1>4
  <2>4. [stageBar EXCEPT ![r] = stageBar[r]] = stageBar
    BY <1>6
  <2>. QED BY <1>5, <2>1, <2>2, <2>3, <2>4
<1>11. WritesWeights(t.action) => Promise!Split(stageBar[r], share)
  BY <1>3, <1>8 DEF Promise!Split
<1>. QED BY <1>1, <1>3, <1>7, <1>8, <1>9, <1>10, <1>11 DEF t, r, old, row, share

\* A commit is the operation that its transaction was asked for, as if it had
\* read nothing before.
LEMMA CommitImplements ==
  ASSUME IInv, NEW a \in Actors, Commit(a)
  PROVE  [Promise!Next]_Promise!vars
<1>. DEFINE t     == tx[a]
            r     == t.release
            old   == t.seen
            new   == NextRow(t.action, t.arg, t.seen).phase
            share == Share(t.action, t.arg, t.seen)
<1>1. /\ t.action \in Actions \ {"delete"} /\ t.arg \in Weights
      /\ old \in Row /\ SoundRow(old) /\ Allowed(t.action, old)
      /\ old.strategy = "bluegreen" => new = "active"
      /\ old.strategy = "canary" => new = NextPhase(t.action, old)
  BY CommitFacts
<1>2. /\ r \in Releases
      /\ stageBar[r].phase = old.phase
      /\ stageBar' = [stageBar EXCEPT ![r].phase = new]
      /\ new = old.phase => stageBar' = stageBar
      /\ new \in Active => Promise!Free(r)
      /\ share \in 0..Full
      /\ WritesWeights(t.action) => Promise!Split(stageBar[r], share)
      /\ ~WritesWeights(t.action) => UNCHANGED weight
  BY CommitIsSerial
<1>3. /\ t.action \in {"promote", "switch"} => share = Full
      /\ t.action = "rollback" => share = IF old.strategy = "bluegreen" THEN Full ELSE 0
      /\ t.action = "start" => share > 0
  BY <1>1, WeightAssumption DEF Share, Row, Weights
<1>. HIDE DEF t, r, old, new, share
<1>. SUFFICES ASSUME Promise!vars' # Promise!vars PROVE Promise!Next
  OBVIOUS
<1>4. CASE old.strategy = "bluegreen"
  <2>1. old.phase = "active" /\ t.action \in {"switch", "rollback"}
    BY <1>1, <1>4 DEF Allowed, SoundRow, Terminal
  <2>2. Promise!Switch(r)
    BY <1>1, <1>2, <1>3, <1>4, <2>1 DEF WritesWeights, Promise!Switch
  <2>. QED BY <1>2, <2>2 DEF Promise!Next
<1>5. CASE old.strategy = "canary" /\ t.action = "start"
  <2>1. new = "running" /\ old.phase \in {"created", "paused", "rolled_back"}
    BY <1>1, <1>5 DEF Allowed, NextPhase
  <2>2. share \in 1..Full
    BY <1>2, <1>3, <1>5, WeightAssumption
  <2>3. Promise!Start(r)
    BY <1>2, <1>5, <2>1, <2>2 DEF WritesWeights, Active, Promise!Start, Promise!Move
  <2>. QED BY <1>2, <2>3 DEF Promise!Next
<1>6. CASE old.strategy = "canary" /\ t.action = "pause"
  <2>1. Promise!Pause(r)
    BY <1>1, <1>2, <1>6
    DEF Allowed, NextPhase, WritesWeights, Promise!Pause, Promise!Move
  <2>. QED BY <1>2, <2>1 DEF Promise!Next
<1>7. CASE old.strategy = "canary" /\ t.action = "resume"
  <2>1. Promise!Resume(r)
    BY <1>1, <1>2, <1>7
    DEF Allowed, NextPhase, WritesWeights, Promise!Resume, Promise!Move
  <2>. QED BY <1>2, <2>1 DEF Promise!Next
<1>8. CASE old.strategy = "canary" /\ t.action = "weight"
  <2>1. Promise!Adjust(r)
    BY <1>1, <1>2, <1>8 DEF Allowed, NextPhase, WritesWeights, Promise!Adjust
  <2>. QED BY <1>2, <2>1 DEF Promise!Next
<1>9. CASE old.strategy = "canary" /\ t.action = "promote"
  <2>1. Promise!Promote(r)
    BY <1>1, <1>2, <1>3, <1>9
    DEF Allowed, NextPhase, WritesWeights, Promise!Promote, Promise!Move
  <2>. QED BY <1>2, <2>1 DEF Promise!Next
<1>10. CASE old.strategy = "canary" /\ t.action = "rollback"
  <2>1. Promise!RollBack(r)
    BY <1>1, <1>2, <1>3, <1>10
    DEF Allowed, NextPhase, WritesWeights, Promise!RollBack, Promise!Move
  <2>. QED BY <1>2, <2>1 DEF Promise!Next
<1>11. old.strategy \in {"canary", "bluegreen"}
  BY <1>1, NameAssumption DEF Row
<1>12. CASE old.strategy = "canary" /\ t.action = "switch"
  BY <1>1, <1>12 DEF Allowed
<1>. QED BY <1>1, <1>4, <1>5, <1>6, <1>7, <1>8, <1>9, <1>10, <1>11, <1>12 DEF Actions

\* A deletion is Remove: only a canary has ever been in a phase that allowed it.
LEMMA DeleteImplements ==
  ASSUME IInv, NEW a \in Actors, CommitDelete(a)
  PROVE  [Promise!Next]_Promise!vars
<1>. DEFINE t == tx[a]
            r == t.release
<1>1. t \in Tx /\ t.pc = "commit" /\ t.action = "delete" /\ r \in Releases
  BY DEF CommitDelete, IInv, TypeOK, Tx, Idle
<1>2. /\ SoundRow(t.seen) /\ Allowed(t.action, t.seen) /\ rel[r] # NoRow
      /\ rel[r] \in Row => rel[r].strategy = t.seen.strategy /\ SoundRow(rel[r])
  BY <1>1 DEF IInv, TxIsSound, RowsAreSound
<1>3. t.seen.strategy # "bluegreen"
  BY <1>1, <1>2 DEF Allowed, SoundRow, Terminal
<1>4. rel[r].phase \notin {"none", "active"}
  <2>1. rel[r] \in Row \cup {Deleted}
    BY <1>1, <1>2 DEF IInv, TypeOK
  <2>2. CASE rel[r] \in Row
    BY <1>2, <1>3, <2>2, Marks DEF SoundRow, Terminal, Active
  <2>. QED BY <2>1, <2>2, Marks
<1>5. stageBar[r].phase = rel[r].phase
  BY <1>1, StageFacts DEF IInv
<1>6. stageBar' = [stageBar EXCEPT ![r] = Promise!Removed]
  <2>1. StageOf(Deleted) = Promise!Removed
    BY DEF StageOf, Deleted, Terminal, Active, Promise!Removed
  <2>2. stageBar' = [stageBar EXCEPT ![r] = StageOf(Deleted)]
    BY <1>1, StageChanges DEF IInv, CommitDelete
  <2>. QED BY <2>1, <2>2
<1>7. Promise!Remove(r)
  BY <1>4, <1>5, <1>6 DEF Promise!Remove, CommitDelete
<1>. SUFFICES ASSUME Promise!vars' # Promise!vars PROVE Promise!Next
  OBVIOUS
<1>. QED BY <1>1, <1>7 DEF Promise!Next

\* The releases start as the promise does.
LEMMA InitImplements == Init => Promise!Init
<1>. SUFFICES ASSUME Init PROVE Promise!Init
  OBVIOUS
<1>1. StageOf(NoRow) = Promise!Absent
  BY DEF StageOf, NoRow, Terminal, Active, Promise!Absent
<1>2. stageBar = [r \in Releases |-> Promise!Absent]
  BY <1>1 DEF Init, stageBar
<1>. QED BY <1>2 DEF Init, Promise!Init

\* Every step is one of the promise, or a stutter: what transactions and
\* executors read is nothing it knows of.
LEMMA StepImplements == IInv /\ [Next]_vars => [Promise!Next]_Promise!vars
<1>. SUFFICES ASSUME IInv, [Next]_vars PROVE [Promise!Next]_Promise!vars
  OBVIOUS
<1>1. CASE UNCHANGED <<weight, rel>>
  BY <1>1 DEF Promise!vars, stageBar, StageOf
<1>2. CASE UNCHANGED vars
  BY <1>1, <1>2 DEF vars
<1>3. ASSUME NEW r \in Releases, NEW s \in Strategies, NEW p \in Versions,
             NEW q \in Versions, Create(r, s, p, q)
      PROVE  [Promise!Next]_Promise!vars
  BY <1>3, CreateImplements DEF Promise!Next
<1>4. ASSUME NEW a \in Actors, Commit(a)
      PROVE  [Promise!Next]_Promise!vars
  BY <1>4, CommitImplements
<1>5. ASSUME NEW a \in Actors, CommitDelete(a)
      PROVE  [Promise!Next]_Promise!vars
  BY <1>5, DeleteImplements
<1>. QED
  BY <1>1, <1>2, <1>3, <1>4, <1>5
  DEF Next, RequestStep, AutoStep, TxStep, Ask, Read, Baseline, Abort,
      StopLoss, StepUp, Judge, AutoAsk, AutoRefused

\* The release orchestration implements its promise: whatever was read before,
\* each operation takes effect at its commit, alone (Transition, updateState,
\* the index of the active releases).
THEOREM Refinement == Spec => Implements
<1>1. Init => Promise!Init
  BY InitImplements
<1>2. IInv /\ [Next]_vars => [Promise!Next]_Promise!vars
  BY StepImplements
<1>. QED BY <1>1, <1>2, Invariance, PTL DEF Spec, Implements, Promise!Spec
==============================================================================
