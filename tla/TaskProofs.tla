------------------------------ MODULE TaskProofs -----------------------------
(***************************************************************************)
(* Proofs about the task system: that of the container manager alone       *)
(* (TaskManager), with and without a database and for any number of        *)
(* restarts; that it implements TaskPromise; and the one composed with the *)
(* sessions and the agents (TaskSystem).  They hold for every set of       *)
(* tasks, nodes and sessions, and for queues of any length.                *)
(***************************************************************************)
EXTENDS TaskRefinement, TaskSystem, TLAPS


------------------------------------------------------------------------------
(*****************************************************************************)
(* The task table.                                                           *)
(*****************************************************************************)

\* The steps of Next by name, each with its parameters, so that the proofs
\* below have one case for each.
LEMMA NextCases ==
  ASSUME Next
  PROVE  \/ \E t \in Tasks, n \in Nodes, k \in Kinds : Create(t, n, k)
         \/ \E t, orig \in Tasks : Retry(t, orig)
         \/ \E t \in Tasks, found \in BOOLEAN : Route(t, found)
         \/ \E t \in Tasks, accepted \in BOOLEAN : Send(t, accepted)
         \/ \E t \in Tasks : MarkDispatched(t)
         \/ \E t \in Tasks : MarkBounced(t)
         \/ \E t \in Tasks : Wake(t)
         \/ \E t \in Tasks : GiveUp(t)
         \/ \E t \in Tasks : Return(t)
         \/ \E t \in Tasks, n \in Nodes : OnAck(n, t)
         \/ \E t \in Tasks, n \in Nodes : OnProgress(n, t)
         \/ \E t \in Tasks, n \in Nodes, r \in Results : sent[t] > 0 /\ OnResult(n, t, r)
         \/ \E t \in Tasks : AdminCancel(t)
         \/ \E t \in Tasks : Sweep(t)
         \/ \E th \in Threads : TakeSnapshot(th)
         \/ \E th \in Threads, ok \in BOOLEAN : WriteRow(th, ok)
         \/ \E th \in Threads : Notify(th)
         \/ \E ok \in BOOLEAN : Restart(ok)
  BY DEF Next, CallerStep, SaveStep, AgentFrame

\* Where the threads are: tasks, nodes, the sweeper and the administrator.
LEMMA ThreadsContain ==
  /\ Tasks \subseteq Threads
  /\ Nodes \subseteq Threads
  /\ Sweeper \in Threads
  /\ Admin \in Threads
  BY DEF Threads

\* A thread that is not idle holds a save or a cancel of a task.
LEMMA BusyThread ==
  ASSUME slot \in [Threads -> Slot], NEW th \in Threads, slot[th].phase # "idle"
  PROVE  slot[th] \in Busy
  BY DEF Slot, Free

\* A persisted thread holds a well-formed slot.
LEMMA PersistType ==
  ASSUME slot \in [Threads -> Slot], NEW th \in Threads, NEW t \in Tasks,
         NEW k, NEW notify \in BOOLEAN, Persist(th, t, k, notify)
  PROVE  slot' \in [Threads -> Slot]
  BY DEF Persist, Slot, Busy, Free, Absent

\* setStatus keeps the types.
LEMMA SetStatusType ==
  ASSUME status \in [Tasks -> Status \cup {Absent}], done \in [Tasks -> BOOLEAN],
         NEW t \in Tasks, NEW s \in Status, SetStatus(t, s)
  PROVE  /\ status' \in [Tasks -> Status \cup {Absent}]
         /\ done' \in [Tasks -> BOOLEAN]
  BY DEF SetStatus

\* So does a cancellation.
LEMMA CancelByType ==
  ASSUME TypeOK, NEW th \in Threads, NEW n, NEW t \in Tasks, CancelBy(th, n, t)
  PROVE  /\ status' \in [Tasks -> Status \cup {Absent}]
         /\ done' \in [Tasks -> BOOLEAN]
         /\ slot' \in [Threads -> Slot]
<1>1. CASE Lookup(n, t) /\ status[t] \notin Terminal
  <2>1. SetStatus(t, "cancelled") /\ Persist(th, t, kind[t], TRUE)
    BY <1>1 DEF CancelBy
  <2>2. "cancelled" \in Status
    BY DEF Status, Terminal
  <2>. QED BY <2>1, <2>2, SetStatusType, PersistType DEF TypeOK
<1>2. CASE ~(Lookup(n, t) /\ status[t] \notin Terminal)
  BY <1>2 DEF CancelBy, TypeOK
<1>. QED BY <1>1, <1>2

\* So does creating a task.
LEMMA InsertType ==
  ASSUME TypeOK, NEW t \in Tasks, NEW n \in Nodes \cup {NoTask}, NEW k \in Kinds,
         NEW par \in Tasks \cup {NoTask}, Insert(t, n, k, par)
  PROVE  TypeOK'
<1>1. slot' \in [Threads -> Slot]
  BY PersistType, ThreadsContain DEF Insert, TypeOK
<1>2. status' \in [Tasks -> Status \cup {Absent}]
  BY DEF Insert, TypeOK, Status
<1>3. pc' \in [Tasks -> PC]
  BY DEF Insert, TypeOK, PC, Undelivered
<1>. QED BY <1>1, <1>2, <1>3 DEF Insert, TypeOK, history

\* Every step keeps the types.
LEMMA TypeStep ==
  ASSUME TypeOK, [Next]_vars
  PROVE  TypeOK'
<1>. USE ThreadsContain
<1>1. CASE \E t \in Tasks, n \in Nodes, k \in Kinds : Create(t, n, k)
  BY <1>1, InsertType DEF Create
<1>2. CASE \E t, orig \in Tasks : Retry(t, orig)
  <2>1. "dispatch" \in Kinds BY DEF Kinds
  <2>2. \A orig \in Tasks : nodeOf[orig] \in Nodes \cup {NoTask} BY DEF TypeOK
  <2>. QED BY <1>2, <2>1, <2>2, InsertType DEF Retry
<1>3. CASE \E t \in Tasks, found \in BOOLEAN : Route(t, found)
  <2>. PICK t \in Tasks, found \in BOOLEAN : Route(t, found) BY <1>3
  <2>1. "failed" \in Status BY DEF Status, Terminal
  <2>2. /\ status' \in [Tasks -> Status \cup {Absent}]
        /\ done' \in [Tasks -> BOOLEAN]
        /\ slot' \in [Threads -> Slot]
    BY <2>1, SetStatusType, PersistType DEF Route, TypeOK, taskVars
  <2>3. pc' \in [Tasks -> PC]
    BY DEF Route, TypeOK, PC, Undelivered
  <2>. QED BY <2>2, <2>3 DEF Route, TypeOK, taskVars, history
<1>4. CASE \E t \in Tasks, accepted \in BOOLEAN : Send(t, accepted)
  BY <1>4 DEF Send, TypeOK, taskVars, PC, Undelivered
<1>5. CASE \E t \in Tasks : MarkDispatched(t)
  <2>. PICK t \in Tasks : MarkDispatched(t) BY <1>5
  <2>1. "dispatching" \in Status BY DEF Status
  <2>2. /\ status' \in [Tasks -> Status \cup {Absent}]
        /\ done' \in [Tasks -> BOOLEAN]
        /\ slot' \in [Threads -> Slot]
    BY <2>1, SetStatusType, PersistType DEF MarkDispatched, TypeOK
  <2>3. pc' \in [Tasks -> PC]
    BY DEF MarkDispatched, TypeOK, PC
  <2>. QED BY <2>2, <2>3 DEF MarkDispatched, TypeOK, history
<1>6. CASE \E t \in Tasks : MarkBounced(t)
  <2>. PICK t \in Tasks : MarkBounced(t) BY <1>6
  <2>1. "failed" \in Status BY DEF Status, Terminal
  <2>2. /\ status' \in [Tasks -> Status \cup {Absent}]
        /\ done' \in [Tasks -> BOOLEAN]
        /\ slot' \in [Threads -> Slot]
    BY <2>1, SetStatusType, PersistType DEF MarkBounced, TypeOK
  <2>3. pc' \in [Tasks -> PC]
    BY DEF MarkBounced, TypeOK, PC
  <2>. QED BY <2>2, <2>3 DEF MarkBounced, TypeOK, history
<1>7. CASE \E t \in Tasks : Wake(t)
  BY <1>7 DEF Wake, TypeOK, taskVars, history, PC
<1>8. CASE \E t \in Tasks : GiveUp(t)
  <2>. PICK t \in Tasks : GiveUp(t) BY <1>8
  <2>1. /\ status' \in [Tasks -> Status \cup {Absent}]
        /\ done' \in [Tasks -> BOOLEAN]
        /\ slot' \in [Threads -> Slot]
    BY CancelByType DEF GiveUp
  <2>2. pc' \in [Tasks -> PC]
    BY DEF GiveUp, TypeOK, PC
  <2>. QED BY <2>1, <2>2 DEF GiveUp, TypeOK, history
<1>9. CASE \E t \in Tasks : Return(t)
  BY <1>9 DEF Return, TypeOK, history, PC
<1>10. CASE \E t \in Tasks, n \in Nodes : OnAck(n, t)
  <2>. PICK t \in Tasks, n \in Nodes : OnAck(n, t) BY <1>10
  <2>1. "running" \in Status BY DEF Status
  <2>2. /\ status' \in [Tasks -> Status \cup {Absent}]
        /\ done' \in [Tasks -> BOOLEAN]
        /\ slot' \in [Threads -> Slot]
    BY <2>1, SetStatusType, PersistType DEF OnAck, TypeOK
  <2>. QED BY <2>2 DEF OnAck, TypeOK, history
<1>11. CASE \E t \in Tasks, n \in Nodes : OnProgress(n, t)
  <2>. PICK t \in Tasks, n \in Nodes : OnProgress(n, t) BY <1>11
  <2>1. slot' \in [Threads -> Slot]
    BY PersistType DEF OnProgress, TypeOK
  <2>. QED BY <2>1 DEF OnProgress, TypeOK, taskVars, history
<1>12. CASE \E t \in Tasks, n \in Nodes, r \in Results : sent[t] > 0 /\ OnResult(n, t, r)
  <2>. PICK t \in Tasks, n \in Nodes, r \in Results : OnResult(n, t, r) BY <1>12
  <2>1. (IF r = "success" THEN "success" ELSE "failed") \in Status
    BY DEF Status, Terminal
  <2>2. /\ status' \in [Tasks -> Status \cup {Absent}]
        /\ done' \in [Tasks -> BOOLEAN]
        /\ slot' \in [Threads -> Slot]
    BY <2>1, SetStatusType, PersistType DEF OnResult, TypeOK
  <2>. QED BY <2>2 DEF OnResult, TypeOK
<1>13. CASE \E t \in Tasks : AdminCancel(t)
  BY <1>13, CancelByType DEF AdminCancel, TypeOK, history
<1>14. CASE \E t \in Tasks : Sweep(t)
  <2>. PICK t \in Tasks : Sweep(t) BY <1>14
  <2>1. "timeout" \in Status BY DEF Status, Terminal
  <2>2. /\ status' \in [Tasks -> Status \cup {Absent}]
        /\ done' \in [Tasks -> BOOLEAN]
        /\ slot' \in [Threads -> Slot]
    BY <2>1, SetStatusType, PersistType DEF Sweep, TypeOK
  <2>. QED BY <2>2 DEF Sweep, TypeOK, history
<1>15. CASE \E th \in Threads : TakeSnapshot(th)
  <2>. PICK th \in Threads : TakeSnapshot(th) BY <1>15
  <2>1. slot[th] \in Busy
    BY BusyThread DEF TakeSnapshot, TypeOK
  <2>2. status[slot[th].task] \in Status \cup {Absent}
    BY <2>1 DEF TypeOK, Busy
  <2>3. [slot[th] EXCEPT !.phase = "write", !.snap = status[slot[th].task]] \in Slot
    BY <2>1, <2>2 DEF Busy, Slot
  <2>4. slot' \in [Threads -> Slot]
    BY <2>3 DEF TakeSnapshot, TypeOK
  <2>. QED BY <2>4 DEF TakeSnapshot, TypeOK, taskVars, history
<1>16. CASE \E th \in Threads, ok \in BOOLEAN : WriteRow(th, ok)
  <2>. PICK th \in Threads, ok \in BOOLEAN : WriteRow(th, ok) BY <1>16
  <2>1. slot[th] \in Busy
    BY BusyThread DEF WriteRow, TypeOK
  <2>2. [slot[th] EXCEPT !.phase = "notify", !.snap = Absent] \in Slot
    BY <2>1 DEF Busy, Slot
  <2>3. slot' \in [Threads -> Slot]
    BY <2>2 DEF WriteRow, TypeOK, Slot
  <2>4. slot[th].task \in Tasks /\ slot[th].snap \in Status \cup {Absent}
    BY <2>1 DEF Busy
  <2>5. row' \in [Tasks -> Status \cup {Absent}] /\ failedWrites' \in SUBSET Tasks
    BY <2>4 DEF WriteRow, TypeOK
  <2>. QED BY <2>3, <2>5 DEF WriteRow, TypeOK, taskVars
<1>17. CASE \E th \in Threads : Notify(th)
  BY <1>17 DEF Notify, TypeOK, taskVars, history, Slot, Busy, Free
<1>18. CASE \E ok \in BOOLEAN : Restart(ok)
  BY <1>18 DEF Restart, TypeOK, history, Slot, Busy, Free, PC, LoadedStatus, Status, Terminal
<1>19. CASE UNCHANGED vars
  BY <1>19 DEF vars, TypeOK, taskVars, history
<1>. QED
  BY <1>1, <1>2, <1>3, <1>4, <1>5, <1>6, <1>7, <1>8, <1>9, <1>10, <1>11,
     <1>12, <1>13, <1>14, <1>15, <1>16, <1>17, <1>18, <1>19, NextCases

\* Type correctness: every state of the task manager has the declared types.
THEOREM TypeCorrect == Spec => []TypeOK
<1>1. Init => TypeOK
  BY BoundAssumption DEF Init, TypeOK, PC, Slot, Busy, Free, Absent, Status
<1>. QED BY <1>1, TypeStep, PTL DEF Spec

------------------------------------------------------------------------------
(* The inductive invariant: one lemma for each step, and under it one proof *)
(* for each part of IInv that the step can disturb.                         *)

\* A thread that turns to saving, or cancelling, a task of this process.
LEMMA PersistKeepsSaveInv ==
  ASSUME TypeOK, SaveInv,
         NEW th \in Threads, NEW t \in Tasks, NEW notify \in BOOLEAN,
         Persist(th, t, kind'[t], notify),
         pc'[t] \notin Gone,
         th \in Tasks => th = t,
         \A u \in Tasks : pc[u] \notin Gone => pc'[u] \notin Gone /\ kind'[u] = kind[u],
         reported \subseteq reported'
  PROVE  SaveInv'
<1> SUFFICES ASSUME NEW x \in Threads, slot'[x].phase # "idle"
             PROVE  /\ pc'[slot'[x].task] \notin Gone
                    /\ slot'[x].phase \in {"snapshot", "write"} => Saved(kind'[slot'[x].task])
                    /\ slot'[x].phase = "write" => slot'[x].snap \in Status
                    /\ slot'[x].snap = "success" => slot'[x].task \in reported'
                    /\ x \in Tasks => x = slot'[x].task
  BY DEF SaveInv, Saved
<1>1. CASE x = th
  BY <1>1 DEF Persist, TypeOK, Free, Absent
<1>2. CASE x # th
  <2>1. slot'[x] = slot[x]
    BY <1>2 DEF Persist, TypeOK
  <2>2. slot[x].task \in Tasks
    BY <2>1, BusyThread DEF TypeOK, Busy
  <2>. QED BY <2>1, <2>2 DEF SaveInv
<1>. QED BY <1>1, <1>2

\* A task whose status is not terminal and that a frame or a request has
\* found in the table belongs to this process.
LEMMA OpenHasCaller ==
  ASSUME IInv, NEW t \in Tasks, t \in table, status[t] \notin Terminal
  PROVE  pc[t] \notin Gone
  BY DEF IInv, OrphansAreSettled, UnbornIsNowhere, Gone

\* What Cancel does when the status allows it, and what it keeps.
LEMMA CancelBySaves ==
  ASSUME IInv, NEW th \in Threads, NEW n, NEW t \in Tasks, CancelBy(th, n, t),
         th \in Tasks => th = t,
         \A u \in Tasks : pc[u] \notin Gone => pc'[u] \notin Gone,
         UNCHANGED <<kind, reported>>
  PROVE  SaveInv'
<1>1. CASE Lookup(n, t) /\ status[t] \notin Terminal
  <2>1. pc'[t] \notin Gone
    BY <1>1, OpenHasCaller DEF Lookup
  <2>2. Persist(th, t, kind'[t], TRUE)
    BY <1>1 DEF CancelBy
  <2>. QED BY <2>1, <2>2, PersistKeepsSaveInv DEF IInv
<1>2. CASE ~(Lookup(n, t) /\ status[t] \notin Terminal)
  <2>1. UNCHANGED slot
    BY <1>2 DEF CancelBy
  <2>2. \A x \in Threads : slot[x].phase # "idle" => slot[x].task \in Tasks
    BY BusyThread DEF IInv, TypeOK, Busy
  <2>. QED BY <2>1, <2>2 DEF IInv, SaveInv
<1>. QED BY <1>1, <1>2

\* Creating a task, at first or by a retry, keeps the invariant.
LEMMA InsertStep ==
  ASSUME IInv, TypeOK', NEW t \in Tasks, NEW n \in Nodes \cup {NoTask}, NEW k \in Kinds,
         NEW par \in Tasks \cup {NoTask}, Insert(t, n, k, par)
  PROVE  IInv'
<1>1. UnbornIsNowhere'
  BY DEF Insert, IInv, UnbornIsNowhere, TypeOK
<1>2. SaveInv'
  BY PersistKeepsSaveInv, ThreadsContain DEF Insert, IInv, TypeOK, Gone, history
<1>3. LiveHasStatus'
  BY DEF Insert, IInv, LiveHasStatus, TypeOK, Status
<1>4. FirstSaveInv'
  BY ThreadsContain DEF Insert, IInv, FirstSaveInv, Persist, TypeOK, history
<1>5. NotSentYet'
  BY DEF Insert, IInv, NotSentYet, history
<1>6. ToldOnReturn'
  BY DEF Insert, IInv, ToldOnReturn
<1>7. CallerHasTask'
  BY DEF Insert, IInv, CallerHasTask, Persist, TypeOK, taskVars, history
<1>8. AnsweredOnReturn'
  BY DEF Insert, IInv, AnsweredOnReturn, Persist, TypeOK, taskVars, history
<1>9. SuccessIsReported'
  BY DEF Insert, IInv, SuccessIsReported, history
<1>10. ToldIsKept'
  BY DEF Insert, IInv, ToldIsKept, ToldOnReturn
<1>11. ProbeLeavesNoTrace'
  BY DEF Insert, IInv, ProbeLeavesNoTrace, UnbornIsNowhere
<1>12. SentIsRecorded'
  BY DEF Insert, IInv, SentIsRecorded, NotSentYet, history
<1>13. OrphansAreSettled'
  BY DEF Insert, IInv, OrphansAreSettled
<1>14. ExecuteSentOnce'
  BY DEF Insert, IInv, ExecuteSentOnce, taskVars, history
<1>. QED BY <1>1, <1>2, <1>3, <1>4, <1>5, <1>6, <1>7, <1>8, <1>9, <1>10, <1>11, <1>12,
     <1>13, <1>14 DEF IInv

\* Looking up the sender keeps the invariant.
LEMMA RouteStep ==
  ASSUME IInv, TypeOK', NEW t \in Tasks, NEW found \in BOOLEAN, Route(t, found)
  PROVE  IInv'
<1>1. UnbornIsNowhere'
  BY DEF Route, IInv, UnbornIsNowhere, SetStatus, Persist, TypeOK, taskVars
<1>2. SaveInv'
  <2>1. CASE found
    <3>1. \A x \in Threads : slot[x].phase # "idle" => slot[x].task \in Tasks
      BY BusyThread DEF IInv, TypeOK, Busy
    <3>. QED BY <2>1, <3>1 DEF Route, IInv, SaveInv, TypeOK, Gone, taskVars, history
  <2>2. CASE ~found
    <3>1. Persist(t, t, kind'[t], FALSE)
      BY <2>2 DEF Route
    <3>2. pc'[t] \notin Gone /\ \A u \in Tasks : pc[u] \notin Gone => pc'[u] \notin Gone
      BY <2>2 DEF Route, IInv, TypeOK, Gone
    <3>3. UNCHANGED <<kind, reported>>
      BY <2>2 DEF Route, history
    <3>. QED BY <3>1, <3>2, <3>3, PersistKeepsSaveInv, ThreadsContain DEF IInv
  <2>. QED BY <2>1, <2>2
<1>3. LiveHasStatus'
  BY DEF Route, IInv, LiveHasStatus, SetStatus, Persist, TypeOK, Gone, Status, Terminal,
         taskVars
<1>4. FirstSaveInv'
  BY ThreadsContain
     DEF Route, IInv, FirstSaveInv, Persist, TypeOK, Gone, Idle, taskVars, history
<1>5. NotSentYet'
  BY DEF Route, IInv, NotSentYet, Persist, TypeOK, history
<1>6. ToldOnReturn'
  BY DEF Route, IInv, ToldOnReturn, Persist, TypeOK
<1>7. CallerHasTask'
  BY DEF Route, IInv, CallerHasTask, SetStatus, Persist, TypeOK, taskVars, history
<1>8. AnsweredOnReturn'
  <2>1. CASE found
    BY <2>1 DEF Route, IInv, AnsweredOnReturn, TypeOK, taskVars
  <2>2. CASE ~found
    BY <2>2 DEF Route, IInv, AnsweredOnReturn, TypeOK, Absent
  <2>. QED BY <2>1, <2>2
<1>9. SuccessIsReported'
  BY DEF Route, IInv, SuccessIsReported, SetStatus, Persist, TypeOK, taskVars, history
<1>10. ToldIsKept'
  BY DEF Route, IInv, ToldIsKept, SetStatus, Persist, TypeOK, Terminal, taskVars
<1>11. ProbeLeavesNoTrace'
  BY DEF Route, IInv, ProbeLeavesNoTrace, Persist, TypeOK, taskVars
<1>12. OrphansAreSettled'
  BY DEF Route, IInv, OrphansAreSettled, SetStatus, Persist, TypeOK, taskVars
<1>13. ExecuteSentOnce' /\ SentIsRecorded'
  BY DEF Route, IInv, ExecuteSentOnce, SentIsRecorded, taskVars, history
<1>. QED BY <1>1, <1>2, <1>3, <1>4, <1>5, <1>6, <1>7, <1>8, <1>9, <1>10, <1>11, <1>12,
     <1>13 DEF IInv

\* Handing the envelope over keeps the invariant: the row exists by then.
LEMMA SendStep ==
  ASSUME IInv, TypeOK', NEW t \in Tasks, NEW accepted \in BOOLEAN, Send(t, accepted)
  PROVE  IInv'
<1>1. UnbornIsNowhere'
  BY DEF Send, IInv, UnbornIsNowhere, taskVars
<1>2. SaveInv'
  BY DEF Send, IInv, SaveInv, Gone, taskVars
<1>3. LiveHasStatus'
  BY DEF Send, IInv, LiveHasStatus, Gone, taskVars
<1>4. FirstSaveInv'
  BY DEF Send, IInv, FirstSaveInv, Gone, taskVars
<1>5. NotSentYet'
  BY DEF Send, IInv, NotSentYet, TypeOK
<1>6. ToldOnReturn'
  BY DEF Send, IInv, ToldOnReturn
<1>7. CallerHasTask'
  BY DEF Send, IInv, CallerHasTask, TypeOK, taskVars, history
<1>8. AnsweredOnReturn'
  BY DEF Send, IInv, AnsweredOnReturn, TypeOK, taskVars, history
<1>9. ProbeLeavesNoTrace'
  BY DEF Send, IInv, ProbeLeavesNoTrace, taskVars
<1>10. ExecuteSentOnce'
  BY DEF Send, IInv, ExecuteSentOnce, NotSentYet
<1>11. SentIsRecorded'
  BY DEF Send, IInv, SentIsRecorded, FirstSaveInv, Gone, taskVars
<1>12. OrphansAreSettled'
  BY DEF Send, IInv, OrphansAreSettled, taskVars
<1>13. SuccessIsReported' /\ ToldIsKept'
  BY DEF Send, IInv, SuccessIsReported, ToldIsKept, taskVars, history
<1>. QED BY <1>1, <1>2, <1>3, <1>4, <1>5, <1>6, <1>7, <1>8, <1>9, <1>10, <1>11, <1>12,
     <1>13 DEF IInv

\* The late "dispatching" keeps the invariant: nobody was told an outcome yet.
LEMMA MarkDispatchedStep ==
  ASSUME IInv, TypeOK', NEW t \in Tasks, MarkDispatched(t)
  PROVE  IInv'
<1>1. UnbornIsNowhere'
  BY DEF MarkDispatched, IInv, UnbornIsNowhere, SetStatus
<1>2. SaveInv'
  BY PersistKeepsSaveInv, ThreadsContain DEF MarkDispatched, IInv, TypeOK, Gone, history
<1>3. LiveHasStatus'
  BY DEF MarkDispatched, IInv, LiveHasStatus, SetStatus, TypeOK, Status
<1>4. FirstSaveInv'
  BY DEF MarkDispatched, IInv, FirstSaveInv, Persist, Gone, history
<1>5. NotSentYet'
  BY DEF MarkDispatched, IInv, NotSentYet, history
<1>6. ToldOnReturn'
  BY DEF MarkDispatched, IInv, ToldOnReturn
<1>7. CallerHasTask'
  BY DEF MarkDispatched, IInv, CallerHasTask, SetStatus, Persist, TypeOK, taskVars, history
<1>8. AnsweredOnReturn'
  BY DEF MarkDispatched, IInv, AnsweredOnReturn, SetStatus, Persist, TypeOK, taskVars,
         history
<1>9. SuccessIsReported'
  BY DEF MarkDispatched, IInv, SuccessIsReported, SetStatus, history
<1>10. ToldIsKept'
  BY DEF MarkDispatched, IInv, ToldIsKept, SetStatus, ToldOnReturn
<1>11. ProbeLeavesNoTrace'
  BY DEF MarkDispatched, IInv, ProbeLeavesNoTrace
<1>12. OrphansAreSettled'
  BY DEF MarkDispatched, IInv, OrphansAreSettled, SetStatus
<1>13. ExecuteSentOnce' /\ SentIsRecorded'
  BY DEF MarkDispatched, IInv, ExecuteSentOnce, SentIsRecorded, taskVars, history
<1>. QED BY <1>1, <1>2, <1>3, <1>4, <1>5, <1>6, <1>7, <1>8, <1>9, <1>10, <1>11, <1>12,
     <1>13 DEF IInv

\* A refused envelope fails the task.
LEMMA MarkBouncedStep ==
  ASSUME IInv, TypeOK', NEW t \in Tasks, MarkBounced(t)
  PROVE  IInv'
<1>1. UnbornIsNowhere'
  BY DEF MarkBounced, IInv, UnbornIsNowhere, SetStatus
<1>2. SaveInv'
  BY PersistKeepsSaveInv, ThreadsContain DEF MarkBounced, IInv, TypeOK, Gone, history
<1>3. LiveHasStatus'
  BY DEF MarkBounced, IInv, LiveHasStatus, SetStatus, TypeOK, Status, Terminal
<1>4. FirstSaveInv'
  BY DEF MarkBounced, IInv, FirstSaveInv, Persist, Gone, history
<1>5. NotSentYet'
  BY DEF MarkBounced, IInv, NotSentYet, history
<1>6. ToldOnReturn'
  BY DEF MarkBounced, IInv, ToldOnReturn, TypeOK
<1>7. CallerHasTask'
  BY DEF MarkBounced, IInv, CallerHasTask, SetStatus, Persist, TypeOK, taskVars, history
<1>8. AnsweredOnReturn'
  BY DEF MarkBounced, IInv, AnsweredOnReturn, TypeOK, Absent
<1>9. SuccessIsReported'
  BY DEF MarkBounced, IInv, SuccessIsReported, SetStatus, history
<1>10. ToldIsKept'
  BY DEF MarkBounced, IInv, ToldIsKept, SetStatus, TypeOK, Terminal
<1>11. ProbeLeavesNoTrace'
  BY DEF MarkBounced, IInv, ProbeLeavesNoTrace
<1>12. OrphansAreSettled'
  BY DEF MarkBounced, IInv, OrphansAreSettled, SetStatus
<1>13. ExecuteSentOnce' /\ SentIsRecorded'
  BY DEF MarkBounced, IInv, ExecuteSentOnce, SentIsRecorded, taskVars, history
<1>. QED BY <1>1, <1>2, <1>3, <1>4, <1>5, <1>6, <1>7, <1>8, <1>9, <1>10, <1>11, <1>12,
     <1>13 DEF IInv

\* A caller that wakes up is told the status of that moment.
LEMMA WakeStep ==
  ASSUME IInv, TypeOK', NEW t \in Tasks, Wake(t)
  PROVE  IInv'
<1>1. UnbornIsNowhere'
  BY DEF Wake, IInv, UnbornIsNowhere, taskVars
<1>2. SaveInv'
  BY DEF Wake, IInv, SaveInv, Gone, taskVars, history
<1>3. LiveHasStatus'
  BY DEF Wake, IInv, LiveHasStatus, Gone, taskVars
<1>4. FirstSaveInv'
  BY DEF Wake, IInv, FirstSaveInv, Gone, taskVars, history
<1>5. NotSentYet'
  BY DEF Wake, IInv, NotSentYet, history
<1>6. ToldOnReturn'
  BY DEF Wake, IInv, ToldOnReturn, TypeOK
<1>7. CallerHasTask'
  BY DEF Wake, IInv, CallerHasTask, TypeOK, taskVars, history
<1>8. AnsweredOnReturn'
  BY DEF Wake, IInv, AnsweredOnReturn, TypeOK, taskVars, LiveHasStatus, Gone, Status,
         Terminal, Absent
<1>9. SuccessIsReported'
  BY DEF Wake, IInv, SuccessIsReported, taskVars, history
<1>10. ToldIsKept'
  BY DEF Wake, IInv, ToldIsKept, taskVars
<1>11. ProbeLeavesNoTrace'
  BY DEF Wake, IInv, ProbeLeavesNoTrace, taskVars
<1>12. OrphansAreSettled'
  BY DEF Wake, IInv, OrphansAreSettled, taskVars
<1>13. ExecuteSentOnce' /\ SentIsRecorded'
  BY DEF Wake, IInv, ExecuteSentOnce, SentIsRecorded, taskVars, history
<1>. QED BY <1>1, <1>2, <1>3, <1>4, <1>5, <1>6, <1>7, <1>8, <1>9, <1>10, <1>11, <1>12,
     <1>13 DEF IInv

\* A caller that gives up cancels its task.
LEMMA GiveUpStep ==
  ASSUME IInv, TypeOK', NEW t \in Tasks, GiveUp(t)
  PROVE  IInv'
<1>1. UnbornIsNowhere'
  BY DEF GiveUp, IInv, UnbornIsNowhere, CancelBy, SetStatus, Persist, TypeOK
<1>2. SaveInv'
  BY CancelBySaves, ThreadsContain DEF GiveUp, IInv, TypeOK, Gone, history
<1>3. LiveHasStatus'
  BY DEF GiveUp, IInv, LiveHasStatus, CancelBy, SetStatus, Persist, TypeOK, Gone, Status,
         Terminal
<1>4. FirstSaveInv'
  BY ThreadsContain DEF GiveUp, IInv, FirstSaveInv, CancelBy, Persist, TypeOK, Gone, history
<1>5. NotSentYet'
  BY DEF GiveUp, IInv, NotSentYet, history
<1>6. ToldOnReturn'
  BY DEF GiveUp, IInv, ToldOnReturn, TypeOK
<1>7. CallerHasTask'
  BY DEF GiveUp, IInv, CallerHasTask, CancelBy, Lookup, SetStatus, Persist, TypeOK,
         taskVars, history
<1>8. AnsweredOnReturn'
  BY DEF GiveUp, IInv, AnsweredOnReturn, TypeOK, Absent
<1>9. SuccessIsReported'
  BY DEF GiveUp, IInv, SuccessIsReported, CancelBy, SetStatus, Persist, TypeOK, history
<1>10. ToldIsKept'
  BY DEF GiveUp, IInv, ToldIsKept, CancelBy, SetStatus, Persist, TypeOK, Terminal
<1>11. ProbeLeavesNoTrace'
  BY DEF GiveUp, IInv, ProbeLeavesNoTrace
<1>12. OrphansAreSettled'
  BY DEF GiveUp, IInv, OrphansAreSettled, CancelBy, SetStatus, Persist, TypeOK
<1>13. ExecuteSentOnce' /\ SentIsRecorded'
  BY DEF GiveUp, IInv, ExecuteSentOnce, SentIsRecorded, taskVars, history
<1>. QED BY <1>1, <1>2, <1>3, <1>4, <1>5, <1>6, <1>7, <1>8, <1>9, <1>10, <1>11, <1>12,
     <1>13 DEF IInv

\* A caller returns, and drops its probe.
LEMMA ReturnStep ==
  ASSUME IInv, TypeOK', NEW t \in Tasks, Return(t)
  PROVE  IInv'
<1>1. UnbornIsNowhere'
  BY DEF Return, IInv, UnbornIsNowhere
<1>2. SaveInv'
  BY DEF Return, IInv, SaveInv, Gone, history
<1>3. LiveHasStatus'
  BY DEF Return, IInv, LiveHasStatus, Gone
<1>4. FirstSaveInv'
  BY DEF Return, IInv, FirstSaveInv, Gone, history
<1>5. NotSentYet'
  BY DEF Return, IInv, NotSentYet, history
<1>6. ToldOnReturn'
  BY DEF Return, IInv, ToldOnReturn
<1>7. CallerHasTask'
  BY DEF Return, IInv, CallerHasTask, TypeOK, taskVars, history
<1>8. AnsweredOnReturn'
  BY DEF Return, IInv, AnsweredOnReturn, TypeOK, taskVars, history
<1>9. ProbeLeavesNoTrace'
  BY DEF Return, IInv, ProbeLeavesNoTrace
<1>10. OrphansAreSettled'
  BY DEF Return, IInv, OrphansAreSettled
<1>11. SuccessIsReported' /\ ToldIsKept' /\ ExecuteSentOnce' /\ SentIsRecorded'
  BY DEF Return, IInv, SuccessIsReported, ToldIsKept, ExecuteSentOnce, SentIsRecorded,
         taskVars, history
<1>. QED BY <1>1, <1>2, <1>3, <1>4, <1>5, <1>6, <1>7, <1>8, <1>9, <1>10, <1>11 DEF IInv

\* A task.ack only moves a dispatching task on.
LEMMA OnAckStep ==
  ASSUME IInv, TypeOK', NEW t \in Tasks, NEW n \in Nodes, OnAck(n, t)
  PROVE  IInv'
<1>1. UnbornIsNowhere'
  BY DEF OnAck, IInv, UnbornIsNowhere, Lookup, SetStatus, Persist, TypeOK
<1>2. SaveInv'
  <2>1. CASE Lookup(n, t) /\ status[t] = "dispatching"
    <3>1. pc[t] \notin Gone
      BY <2>1, OpenHasCaller DEF Lookup, Terminal
    <3>2. Persist(n, t, kind'[t], FALSE)
      BY <2>1 DEF OnAck
    <3>. QED BY <3>1, <3>2, PersistKeepsSaveInv, ThreadsContain,
    ThreadAssumption DEF IInv, OnAck, history
  <2>2. CASE ~(Lookup(n, t) /\ status[t] = "dispatching")
    BY <2>2 DEF IInv, SaveInv, TypeOK, OnAck, history
  <2>. QED BY <2>1, <2>2
<1>3. LiveHasStatus'
  BY DEF OnAck, IInv, LiveHasStatus, Lookup, SetStatus, Persist, TypeOK, Status, Terminal
<1>4. FirstSaveInv'
  BY ThreadsContain DEF OnAck, IInv, FirstSaveInv, Persist, TypeOK, Idle, history
<1>5. SuccessIsReported'
  BY DEF OnAck, IInv, SuccessIsReported, Lookup, SetStatus, Persist, TypeOK, history
<1>6. ToldIsKept'
  BY DEF OnAck, IInv, ToldIsKept, Lookup, SetStatus, Persist, TypeOK, Terminal
<1>7. OrphansAreSettled'
  BY DEF OnAck, IInv, OrphansAreSettled, Lookup, SetStatus, Persist, TypeOK, Terminal
<1>8. NotSentYet' /\ ToldOnReturn' /\ CallerHasTask' /\ AnsweredOnReturn'
     /\ ProbeLeavesNoTrace' /\ ExecuteSentOnce' /\ SentIsRecorded'
  BY DEF OnAck, IInv, NotSentYet, ToldOnReturn, CallerHasTask, AnsweredOnReturn,
         ProbeLeavesNoTrace, ExecuteSentOnce, SentIsRecorded, taskVars, history
<1>. QED BY <1>1, <1>2, <1>3, <1>4, <1>5, <1>6, <1>7, <1>8 DEF IInv

\* A task.progress only saves.
LEMMA OnProgressStep ==
  ASSUME IInv, TypeOK', NEW t \in Tasks, NEW n \in Nodes, OnProgress(n, t)
  PROVE  IInv'
<1>1. SaveInv'
  <2>1. CASE Lookup(n, t) /\ status[t] \in {"running", "dispatching"}
    <3>1. pc[t] \notin Gone
      BY <2>1, OpenHasCaller DEF Lookup, Terminal
    <3>2. Persist(n, t, kind'[t], FALSE)
      BY <2>1 DEF OnProgress, taskVars
    <3>. QED BY <3>1, <3>2, PersistKeepsSaveInv, ThreadsContain,
    ThreadAssumption DEF IInv, OnProgress, taskVars, history
  <2>2. CASE ~(Lookup(n, t) /\ status[t] \in {"running", "dispatching"})
    BY <2>2 DEF IInv, SaveInv, TypeOK, OnProgress, taskVars, history
  <2>. QED BY <2>1, <2>2
<1>2. FirstSaveInv'
  BY ThreadsContain
     DEF OnProgress, IInv, FirstSaveInv, Persist, TypeOK, Idle, taskVars, history
<1>3. UnbornIsNowhere' /\ LiveHasStatus' /\ NotSentYet' /\ ToldOnReturn'
     /\ CallerHasTask' /\ AnsweredOnReturn' /\ SuccessIsReported' /\ ToldIsKept'
     /\ ProbeLeavesNoTrace' /\ ExecuteSentOnce' /\ SentIsRecorded' /\ OrphansAreSettled'
  BY DEF OnProgress, IInv, UnbornIsNowhere, LiveHasStatus, NotSentYet, ToldOnReturn,
         CallerHasTask, AnsweredOnReturn, SuccessIsReported, ToldIsKept,
         ProbeLeavesNoTrace, ExecuteSentOnce, SentIsRecorded, OrphansAreSettled,
         taskVars, history
<1>. QED BY <1>1, <1>2, <1>3 DEF IInv

\* A task.result only settles tasks that have not ended.
LEMMA OnResultStep ==
  ASSUME IInv, TypeOK', NEW t \in Tasks, NEW n \in Nodes, NEW r \in Results, OnResult(n,
  t, r)
  PROVE  IInv'
<1>1. UnbornIsNowhere'
  BY DEF OnResult, IInv, UnbornIsNowhere, Lookup, SetStatus, Persist, TypeOK
<1>2. SaveInv'
  <2>1. CASE Lookup(n, t) /\ status[t] \notin Terminal
    <3>1. pc[t] \notin Gone
      BY <2>1, OpenHasCaller DEF Lookup, Terminal
    <3>2. Persist(n, t, kind'[t], FALSE)
      BY <2>1 DEF OnResult
    <3>. QED BY <3>1, <3>2, PersistKeepsSaveInv, ThreadsContain,
    ThreadAssumption DEF IInv, OnResult
  <2>2. CASE ~(Lookup(n, t) /\ status[t] \notin Terminal)
    BY <2>2 DEF IInv, SaveInv, TypeOK, OnResult
  <2>. QED BY <2>1, <2>2
<1>3. LiveHasStatus'
  BY DEF OnResult, IInv, LiveHasStatus, SetStatus, Persist, TypeOK, Status, Terminal
<1>4. FirstSaveInv'
  BY ThreadsContain DEF OnResult, IInv, FirstSaveInv, Persist, TypeOK, Idle
<1>5. SuccessIsReported'
  BY DEF OnResult, IInv, SuccessIsReported, Lookup, SetStatus, Persist, TypeOK
<1>6. ToldIsKept'
  BY DEF OnResult, IInv, ToldIsKept, SetStatus, Persist, TypeOK
<1>7. OrphansAreSettled'
  BY DEF OnResult, IInv, OrphansAreSettled, SetStatus, Persist, TypeOK
<1>8. NotSentYet' /\ ToldOnReturn' /\ CallerHasTask' /\ AnsweredOnReturn'
     /\ ProbeLeavesNoTrace' /\ ExecuteSentOnce' /\ SentIsRecorded'
  BY DEF OnResult, IInv, NotSentYet, ToldOnReturn, CallerHasTask, AnsweredOnReturn,
         ProbeLeavesNoTrace, ExecuteSentOnce, SentIsRecorded, taskVars, history
<1>. QED BY <1>1, <1>2, <1>3, <1>4, <1>5, <1>6, <1>7, <1>8 DEF IInv

\* The administrator only cancels tasks that have not ended.
LEMMA AdminCancelStep ==
  ASSUME IInv, TypeOK', NEW t \in Tasks, AdminCancel(t)
  PROVE  IInv'
<1>1. UnbornIsNowhere'
  BY DEF AdminCancel, IInv, UnbornIsNowhere, CancelBy, Lookup, SetStatus, TypeOK
<1>2. SaveInv'
  BY CancelBySaves, ThreadsContain, ThreadAssumption DEF AdminCancel, history
<1>3. LiveHasStatus'
  BY DEF AdminCancel, IInv, LiveHasStatus, CancelBy, Lookup, SetStatus, TypeOK,
         Status, Terminal
<1>4. FirstSaveInv'
  BY ThreadsContain, ThreadAssumption
     DEF AdminCancel, IInv, FirstSaveInv, CancelBy, Persist, TypeOK, Idle, history
<1>5. SuccessIsReported'
  BY DEF AdminCancel, IInv, SuccessIsReported, CancelBy, Lookup, SetStatus,
         TypeOK, history
<1>6. ToldIsKept'
  BY DEF AdminCancel, IInv, ToldIsKept, CancelBy, Lookup, SetStatus, TypeOK
<1>7. OrphansAreSettled'
  BY DEF AdminCancel, IInv, OrphansAreSettled, CancelBy, Lookup, SetStatus, TypeOK
<1>8. NotSentYet' /\ ToldOnReturn' /\ CallerHasTask' /\ AnsweredOnReturn'
     /\ ProbeLeavesNoTrace' /\ ExecuteSentOnce' /\ SentIsRecorded'
  BY DEF AdminCancel, IInv, NotSentYet, ToldOnReturn, CallerHasTask, AnsweredOnReturn,
         ProbeLeavesNoTrace, ExecuteSentOnce, SentIsRecorded, taskVars, history
<1>. QED BY <1>1, <1>2, <1>3, <1>4, <1>5, <1>6, <1>7, <1>8 DEF IInv

\* The sweeper only settles tasks that have not ended.
LEMMA SweepStep ==
  ASSUME IInv, TypeOK', NEW t \in Tasks, Sweep(t)
  PROVE  IInv'
<1>1. UnbornIsNowhere'
  BY DEF Sweep, IInv, UnbornIsNowhere, SetStatus
<1>2. SaveInv'
  BY OpenHasCaller, PersistKeepsSaveInv, ThreadsContain, ThreadAssumption
     DEF Sweep, IInv, history
<1>3. LiveHasStatus'
  BY DEF Sweep, IInv, LiveHasStatus, SetStatus, Status, Terminal
<1>4. FirstSaveInv'
  BY DEF Sweep, IInv, FirstSaveInv, Persist, Idle, history
<1>5. SuccessIsReported'
  BY DEF Sweep, IInv, SuccessIsReported, SetStatus, history
<1>6. ToldIsKept'
  BY DEF Sweep, IInv, ToldIsKept, SetStatus
<1>7. OrphansAreSettled'
  BY DEF Sweep, IInv, OrphansAreSettled, SetStatus
<1>8. NotSentYet' /\ ToldOnReturn' /\ CallerHasTask' /\ AnsweredOnReturn'
     /\ ProbeLeavesNoTrace' /\ ExecuteSentOnce' /\ SentIsRecorded'
  BY DEF Sweep, IInv, NotSentYet, ToldOnReturn, CallerHasTask, AnsweredOnReturn,
         ProbeLeavesNoTrace, ExecuteSentOnce, SentIsRecorded, taskVars, history
<1>. QED BY <1>1, <1>2, <1>3, <1>4, <1>5, <1>6, <1>7, <1>8 DEF IInv

\* A snapshot is a status the task has.
LEMMA TakeSnapshotStep ==
  ASSUME IInv, TypeOK', NEW th \in Threads, TakeSnapshot(th)
  PROVE  IInv'
<1>1. SaveInv'
  BY DEF TakeSnapshot, IInv, SaveInv, TypeOK, LiveHasStatus, Free, Slot, Busy, taskVars,
         history
<1>2. FirstSaveInv'
  BY ThreadsContain DEF TakeSnapshot, IInv, FirstSaveInv, TypeOK, taskVars, history
<1>3. UnbornIsNowhere' /\ LiveHasStatus' /\ NotSentYet' /\ ToldOnReturn'
     /\ CallerHasTask' /\ AnsweredOnReturn' /\ SuccessIsReported' /\ ToldIsKept'
     /\ ProbeLeavesNoTrace' /\ ExecuteSentOnce' /\ SentIsRecorded' /\ OrphansAreSettled'
  BY DEF TakeSnapshot, IInv, UnbornIsNowhere, LiveHasStatus, NotSentYet, ToldOnReturn,
         CallerHasTask, AnsweredOnReturn, SuccessIsReported, ToldIsKept,
         ProbeLeavesNoTrace, ExecuteSentOnce, SentIsRecorded, OrphansAreSettled,
         taskVars, history
<1>. QED BY <1>1, <1>2, <1>3 DEF IInv

\* A row is written from a snapshot, and never for a probe.
LEMMA WriteRowStep ==
  ASSUME IInv, TypeOK', NEW th \in Threads, NEW ok \in BOOLEAN, WriteRow(th, ok)
  PROVE  IInv'
<1>1. UnbornIsNowhere'
  BY DEF WriteRow, IInv, UnbornIsNowhere, SaveInv, Gone, taskVars
<1>2. SaveInv'
  BY DEF WriteRow, IInv, SaveInv, Free, Absent, taskVars
<1>3. FirstSaveInv'
  BY DEF WriteRow, IInv, FirstSaveInv, TypeOK, SaveInv, Absent, Status, Terminal, taskVars
<1>4. SuccessIsReported'
  BY DEF WriteRow, IInv, SuccessIsReported, SaveInv, taskVars
<1>5. ProbeLeavesNoTrace'
  BY DEF WriteRow, IInv, ProbeLeavesNoTrace, SaveInv, Saved, taskVars
<1>6. SentIsRecorded'
  BY DEF WriteRow, IInv, SentIsRecorded, SaveInv, Absent, Status, Terminal, taskVars
<1>7. LiveHasStatus' /\ NotSentYet' /\ ToldOnReturn' /\ CallerHasTask'
     /\ AnsweredOnReturn' /\ ToldIsKept' /\ ExecuteSentOnce' /\ OrphansAreSettled'
  BY DEF WriteRow, IInv, LiveHasStatus, NotSentYet, ToldOnReturn, CallerHasTask,
         AnsweredOnReturn, ToldIsKept, ExecuteSentOnce, OrphansAreSettled, taskVars, history
<1>. QED BY <1>1, <1>2, <1>3, <1>4, <1>5, <1>6, <1>7 DEF IInv

\* Sending a task.cancel changes no task.
LEMMA NotifyStep ==
  ASSUME IInv, TypeOK', NEW th \in Threads, Notify(th)
  PROVE  IInv'
<1>1. SaveInv'
  BY DEF Notify, IInv, SaveInv, Free, taskVars, history
<1>2. FirstSaveInv'
  BY DEF Notify, IInv, FirstSaveInv, taskVars, history
<1>3. UnbornIsNowhere' /\ LiveHasStatus' /\ NotSentYet' /\ ToldOnReturn'
     /\ CallerHasTask' /\ AnsweredOnReturn' /\ SuccessIsReported' /\ ToldIsKept'
     /\ ProbeLeavesNoTrace' /\ ExecuteSentOnce' /\ SentIsRecorded' /\ OrphansAreSettled'
  BY DEF Notify, IInv, UnbornIsNowhere, LiveHasStatus, NotSentYet, ToldOnReturn,
         CallerHasTask, AnsweredOnReturn, SuccessIsReported, ToldIsKept,
         ProbeLeavesNoTrace, ExecuteSentOnce, SentIsRecorded, OrphansAreSettled,
         taskVars, history
<1>. QED BY <1>1, <1>2, <1>3 DEF IInv

\* What a restart loads is settled.
LEMMA RestartStep ==
  ASSUME IInv, TypeOK', NEW ok \in BOOLEAN, Restart(ok)
  PROVE  IInv'
<1>1. \A t \in Tasks :
        /\ t \in table' <=> row[t] # Absent
        /\ status'[t] = LoadedStatus(t) /\ row'[t] \in {row[t], LoadedStatus(t)}
        /\ pc'[t] = IF pc[t] = "unborn" THEN "unborn" ELSE "dead"
        /\ verdict'[t] = Absent
        /\ kind'[t] = kind[t] /\ sent'[t] = sent[t]
        /\ t \in reported' <=> t \in reported
        /\ t \in failedWrites' <=> t \in failedWrites
  BY DEF Restart, history
<1>2. \A t \in Tasks :
        /\ LoadedStatus(t) \in Terminal \cup {Absent}
        /\ LoadedStatus(t) = Absent <=> row[t] = Absent
        /\ LoadedStatus(t) = "success" => row[t] = "success"
  BY DEF LoadedStatus, Terminal, Absent
<1>3. UnbornIsNowhere' /\ NotSentYet' /\ ExecuteSentOnce'
  BY <1>1, <1>2 DEF IInv, UnbornIsNowhere, NotSentYet, ExecuteSentOnce
<1>4. SaveInv'
  BY DEF Restart, SaveInv, Free
<1>5. LiveHasStatus' /\ CallerHasTask' /\ AnsweredOnReturn'
  BY <1>1 DEF LiveHasStatus, CallerHasTask, AnsweredOnReturn, Gone
<1>6. FirstSaveInv'
  BY <1>1 DEF FirstSaveInv, Gone
<1>7. ToldOnReturn' /\ ToldIsKept'
  BY <1>1 DEF ToldOnReturn, ToldIsKept, Terminal, Absent
<1>8. SuccessIsReported'
  BY <1>1, <1>2 DEF IInv, SuccessIsReported, Absent
<1>9. ProbeLeavesNoTrace'
  BY <1>1, <1>2 DEF IInv, ProbeLeavesNoTrace
<1>10. SentIsRecorded'
  BY <1>1, <1>2 DEF IInv, SentIsRecorded, Saved
<1>11. OrphansAreSettled'
  BY <1>1, <1>2 DEF OrphansAreSettled, TypeOK
<1>. QED
  BY <1>3, <1>4, <1>5, <1>6, <1>7, <1>8, <1>9, <1>10, <1>11 DEF IInv

\* A step that changes nothing.
LEMMA StutterStep ==
  ASSUME IInv, UNCHANGED vars
  PROVE  IInv'
<1>. USE DEF vars, taskVars, history
<1>1. TypeOK' /\ UnbornIsNowhere' /\ SaveInv' /\ LiveHasStatus' /\ FirstSaveInv'
  BY DEF IInv, TypeOK, UnbornIsNowhere, SaveInv, LiveHasStatus, FirstSaveInv
<1>2. NotSentYet' /\ ToldOnReturn' /\ CallerHasTask' /\ AnsweredOnReturn'
  BY DEF IInv, NotSentYet, ToldOnReturn, CallerHasTask, AnsweredOnReturn
<1>3. SuccessIsReported' /\ ToldIsKept' /\ ProbeLeavesNoTrace'
  BY DEF IInv, SuccessIsReported, ToldIsKept, ProbeLeavesNoTrace
<1>4. ExecuteSentOnce' /\ SentIsRecorded' /\ OrphansAreSettled'
  BY DEF IInv, ExecuteSentOnce, SentIsRecorded, OrphansAreSettled
<1>. QED BY <1>1, <1>2, <1>3, <1>4 DEF IInv

\* The invariant holds initially.
LEMMA InitInv == Init => IInv
<1>. SUFFICES ASSUME Init PROVE IInv
  OBVIOUS
<1>1. TypeOK
  BY BoundAssumption DEF Init, TypeOK, PC, Slot, Busy, Free, Absent, Status
<1>2. UnbornIsNowhere /\ LiveHasStatus /\ FirstSaveInv /\ NotSentYet
  BY DEF Init, UnbornIsNowhere, LiveHasStatus, FirstSaveInv, NotSentYet, Gone
<1>3. SaveInv /\ ToldOnReturn /\ CallerHasTask /\ AnsweredOnReturn
  BY DEF Init, SaveInv, Free, ToldOnReturn, CallerHasTask, AnsweredOnReturn, Terminal,
         Absent
<1>4. SuccessIsReported /\ ToldIsKept /\ ProbeLeavesNoTrace
  BY DEF Init, SuccessIsReported, ToldIsKept, ProbeLeavesNoTrace, Terminal, Absent
<1>5. ExecuteSentOnce /\ SentIsRecorded /\ OrphansAreSettled
  BY DEF Init, ExecuteSentOnce, SentIsRecorded, OrphansAreSettled
<1>. QED BY <1>1, <1>2, <1>3, <1>4, <1>5 DEF IInv

\* Every step keeps the invariant.
LEMMA InvStep ==
  ASSUME IInv, [Next]_vars
  PROVE  IInv'
<1>1. CASE Next
  <2>. USE <1>1
  <2>1. TypeOK'
    BY TypeStep DEF IInv
  <2>2. \A t \in Tasks, n \in Nodes, k \in Kinds : Create(t, n, k) => IInv'
    BY <2>1, InsertStep DEF Create
  <2>3. \A t, orig \in Tasks : Retry(t, orig) => IInv'
    <3>1. "dispatch" \in Kinds BY DEF Kinds
    <3>2. \A orig \in Tasks : nodeOf[orig] \in Nodes \cup {NoTask} BY DEF IInv, TypeOK
    <3>. QED BY <2>1, <3>1, <3>2, InsertStep DEF Retry
  <2>4. \A t \in Tasks, found \in BOOLEAN : Route(t, found) => IInv'
    BY <2>1, RouteStep
  <2>5. \A t \in Tasks, accepted \in BOOLEAN : Send(t, accepted) => IInv'
    BY <2>1, SendStep
  <2>6. \A t \in Tasks : MarkDispatched(t) \/ MarkBounced(t) \/ Wake(t) \/ GiveUp(t) \/ Return(t) => IInv'
    BY <2>1, MarkDispatchedStep, MarkBouncedStep, WakeStep, GiveUpStep, ReturnStep
  <2>7. \A t \in Tasks, n \in Nodes : OnAck(n, t) \/ OnProgress(n, t) => IInv'
    BY <2>1, OnAckStep, OnProgressStep
  <2>8. \A t \in Tasks, n \in Nodes, r \in Results : OnResult(n, t, r) => IInv'
    BY <2>1, OnResultStep
  <2>9. \A t \in Tasks : AdminCancel(t) \/ Sweep(t) => IInv'
    BY <2>1, AdminCancelStep, SweepStep
  <2>10. \A th \in Threads : TakeSnapshot(th) \/ Notify(th) => IInv'
    BY <2>1, TakeSnapshotStep, NotifyStep
  <2>11. \A th \in Threads, ok \in BOOLEAN : WriteRow(th, ok) => IInv'
    BY <2>1, WriteRowStep
  <2>12. \A ok \in BOOLEAN : Restart(ok) => IInv'
    BY <2>1, RestartStep
  <2>. QED
    BY <2>2, <2>3, <2>4, <2>5, <2>6, <2>7, <2>8, <2>9, <2>10, <2>11, <2>12, NextCases
<1>2. CASE UNCHANGED vars
  BY <1>2, StutterStep
<1>. QED BY <1>1, <1>2

------------------------------------------------------------------------------
\* The inductive invariant holds in every reachable state.
THEOREM Inductive == Spec => []IInv
  BY InitInv, InvStep, PTL DEF Spec

\* A task shown as successful, in memory, in the database or to its caller,
\* was reported as successful by its own node.
THEOREM SuccessHolds == Spec => []SuccessIsReported
<1>1. IInv => SuccessIsReported BY DEF IInv
<1>. QED BY <1>1, Inductive, PTL

\* What a caller was told remains the outcome of its task.
THEOREM ToldHolds == Spec => []ToldIsKept
<1>1. IInv => ToldIsKept BY DEF IInv
<1>. QED BY <1>1, Inductive, PTL

\* Probes are not in the database, nor in the table after their return.
THEOREM ProbeHolds == Spec => []ProbeLeavesNoTrace
<1>1. IInv => ProbeLeavesNoTrace BY DEF IInv
<1>. QED BY <1>1, Inductive, PTL

\* An agent is asked at most once to execute a task.
THEOREM OnceHolds == Spec => []ExecuteSentOnce
<1>1. IInv => ExecuteSentOnce BY DEF IInv
<1>. QED BY <1>1, Inductive, PTL

\* The row of a task is written before its envelope leaves.
THEOREM RecordedHolds == Spec => []SentIsRecorded
<1>1. IInv => SentIsRecorded BY DEF IInv
<1>. QED BY <1>1, Inductive, PTL

\* A restart leaves no task open.
THEOREM OrphansHold == Spec => []OrphansAreSettled
<1>1. IInv => OrphansAreSettled BY DEF IInv
<1>. QED BY <1>1, Inductive, PTL

\* A task whose delivery is over and that has ended keeps its status for as
\* long as the process lives.
THEOREM SettledHolds == Spec => SettledIsFinal
<1>1. ASSUME IInv, [Next]_vars
      PROVE  [SettledStays]_vars
  <2>. SUFFICES ASSUME Next, NEW u \in Tasks, status[u] \in Terminal,
                       pc[u] \notin Undelivered, restarts' = restarts
                PROVE  status'[u] = status[u]
    BY <1>1 DEF SettledStays
  <2>. USE <1>1 DEF IInv, TypeOK
  <2>1. \A t \in Tasks : \A n, k, par : Insert(t, n, k, par) => status'[u] = status[u]
    BY DEF Insert, UnbornIsNowhere, Terminal, Absent
  <2>2. \A t \in Tasks, found \in BOOLEAN : Route(t, found) => status'[u] = status[u]
    BY DEF Route, SetStatus, Undelivered, taskVars
  <2>3. \A t \in Tasks : MarkDispatched(t) \/ MarkBounced(t) => status'[u] = status[u]
    BY DEF MarkDispatched, MarkBounced, SetStatus, Undelivered
  <2>5. \A t \in Tasks : GiveUp(t) \/ AdminCancel(t) \/ Sweep(t) => status'[u] = status[u]
    BY DEF GiveUp, AdminCancel, CancelBy, Sweep, SetStatus
  <2>6. \A t \in Tasks, n \in Nodes : OnAck(n, t) => status'[u] = status[u]
    BY DEF OnAck, SetStatus, Terminal
  <2>7. \A t \in Tasks, n \in Nodes, r \in Results : OnResult(n, t,
  r) => status'[u] = status[u]
    BY DEF OnResult, SetStatus
  <2>8. \A ok \in BOOLEAN : ~Restart(ok)
    BY BoundAssumption DEF Restart
  <2>9. \A t \in Tasks, accepted \in BOOLEAN : Send(t, accepted) => status' = status
    BY DEF Send, taskVars
  <2>10. \A t \in Tasks : Wake(t) \/ Return(t) => status' = status
    BY DEF Wake, Return, taskVars
  <2>11. \A t \in Tasks, n \in Nodes : OnProgress(n, t) => status' = status
    BY DEF OnProgress, taskVars
  <2>12. \A th \in Threads : TakeSnapshot(th) \/ Notify(th) => status' = status
    BY DEF TakeSnapshot, Notify, taskVars
  <2>13. \A th \in Threads, ok \in BOOLEAN : WriteRow(th, ok) => status' = status
    BY DEF WriteRow, taskVars
  <2>. QED
    BY <2>1, <2>2, <2>3, <2>5, <2>6, <2>7, <2>8, <2>9, <2>10, <2>11, <2>12, <2>13, NextCases
    DEF Create, Retry
<1>. QED BY <1>1, Inductive, PTL DEF Spec, SettledIsFinal

------------------------------------------------------------------------------
(*****************************************************************************)
(* The task table keeps its promise.                                         *)
(*****************************************************************************)

\* The values of the refinement mapping.
LEMMA BarValues ==
  ASSUME NEW t \in Tasks
  PROVE  /\ outcomeBar[t] = Outcome(t)
         /\ toldBar[t] = Told(t)
         /\ t \in handedBar <=> sent[t] > 0
  BY DEF outcomeBar, toldBar, handedBar

\* A step that changes the outcome and the answer of one task only.
LEMMA OneTask ==
  ASSUME NEW t \in Tasks, NEW o, NEW a,
         Outcome(t)' = o, Told(t)' = a,
         \A u \in Tasks \ {t} : Outcome(u)' = Outcome(u) /\ Told(u)' = Told(u)
  PROVE  /\ outcomeBar' = [outcomeBar EXCEPT ![t] = o]
         /\ toldBar' = [toldBar EXCEPT ![t] = a]
  BY DEF outcomeBar, toldBar

\* A step that changes no outcome and no answer.
LEMMA NoTaskChanged ==
  ASSUME \A u \in Tasks : Outcome(u)' = Outcome(u) /\ Told(u)' = Told(u)
  PROVE  UNCHANGED <<outcomeBar, toldBar>>
  BY DEF outcomeBar, toldBar

\* Creating a task opens it.
LEMMA InsertRefines ==
  ASSUME IInv, NEW t \in Tasks, NEW n, NEW k, NEW par, Insert(t, n, k, par)
  PROVE  Promise!Open(t)
<1>. USE DEF IInv, TypeOK
<1>1. Outcome(t) = "none" /\ Outcome(t)' = "open" /\ Told(t)' = Told(t)
  BY DEF Insert, Outcome, Told, Undelivered
<1>2. \A u \in Tasks \ {t} : Outcome(u)' = Outcome(u) /\ Told(u)' = Told(u)
  BY DEF Insert, Outcome, Told
<1>3. UNCHANGED <<handedBar, reported>>
  BY DEF Insert, handedBar, history
<1>4. toldBar' = toldBar /\ outcomeBar' = [outcomeBar EXCEPT ![t] = "open"]
  BY <1>1, <1>2, OneTask DEF toldBar
<1>. QED BY <1>1, <1>3, <1>4, BarValues DEF Promise!Open

\* A task in the table that is being delivered or has not ended is open.
LEMMA OpenOutcome ==
  ASSUME IInv, NEW t \in Tasks, t \in table, pc[t] \in Undelivered \/ status[t] \notin Terminal
  PROVE  Outcome(t) = "open"
  BY DEF IInv, UnbornIsNowhere, Outcome, Undelivered

\* Without a sender the task is settled as failed, and its caller told so.
LEMMA RouteRefines ==
  ASSUME IInv, NEW t \in Tasks, NEW found \in BOOLEAN, Route(t, found)
  PROVE  Promise!Settle(t, "failed") \/ UNCHANGED <<outcomeBar, toldBar, handedBar, reported>>
<1>. USE DEF IInv, TypeOK
<1>1. UNCHANGED <<handedBar, reported>>
  BY DEF Route, handedBar, history
<1>2. \A u \in Tasks \ {t} : Outcome(u)' = Outcome(u) /\ Told(u)' = Told(u)
  BY DEF Route, Outcome, Told, SetStatus, taskVars
<1>3. t \in table /\ Outcome(t) = "open"
  BY OpenOutcome DEF CallerHasTask, Route, Undelivered
<1>4. CASE found
  <2>1. Outcome(t)' = Outcome(t) /\ Told(t)' = Told(t)
    BY <1>3, <1>4 DEF Route, Outcome, Told, Undelivered, taskVars
  <2>. QED BY <1>1, <1>2, <2>1, NoTaskChanged
<1>5. CASE ~found
  <2>1. Outcome(t)' = "failed"
    BY <1>3, <1>5 DEF Route, Outcome, SetStatus, Undelivered, Terminal
  <2>2. Told(t)' = "error"
    BY <1>5 DEF Route, Told, Terminal, Absent
  <2>. QED BY <1>1, <1>2, <1>3, <2>1, <2>2, OneTask, BarValues DEF Promise!Settle
<1>. QED BY <1>4, <1>5

\* An accepted envelope hands the task over.
LEMMA SendRefines ==
  ASSUME IInv, NEW t \in Tasks, NEW accepted \in BOOLEAN, Send(t, accepted)
  PROVE  Promise!Hand(t) \/ UNCHANGED <<outcomeBar, toldBar, handedBar, reported>>
<1>. USE DEF IInv, TypeOK
<1>1. t \in table /\ Outcome(t) = "open"
  BY OpenOutcome DEF CallerHasTask, Send, Undelivered
<1>2. UNCHANGED <<outcomeBar, toldBar, reported>>
  <2>1. \A u \in Tasks : Outcome(u)' = Outcome(u) /\ Told(u)' = Told(u)
    BY <1>1 DEF Send, Outcome, Told, Undelivered, taskVars
  <2>. QED BY <2>1, NoTaskChanged DEF Send
<1>3. CASE accepted
  <2>1. sent[t] = 0
    BY DEF Send, NotSentYet
  <2>2. handedBar' = handedBar \cup {t}
    BY <1>3 DEF Send, handedBar
  <2>. QED BY <1>1, <1>2, <2>1, <2>2, BarValues DEF Promise!Hand
<1>4. CASE ~accepted
  BY <1>2, <1>4 DEF Send, handedBar
<1>. QED BY <1>3, <1>4

\* The late "dispatching" is invisible: the task was still open.
LEMMA MarkDispatchedRefines ==
  ASSUME IInv, NEW t \in Tasks, MarkDispatched(t)
  PROVE  UNCHANGED <<outcomeBar, toldBar, handedBar, reported>>
<1>. USE DEF IInv, TypeOK
<1>1. t \in table /\ Outcome(t) = "open"
  BY OpenOutcome DEF CallerHasTask, MarkDispatched, Undelivered
<1>2. \A u \in Tasks : Outcome(u)' = Outcome(u) /\ Told(u)' = Told(u)
  BY <1>1 DEF MarkDispatched, SetStatus, Outcome, Told, Undelivered, Terminal
<1>. QED BY <1>2, NoTaskChanged DEF MarkDispatched, handedBar, history

\* A refused envelope settles the task as failed.
LEMMA MarkBouncedRefines ==
  ASSUME IInv, NEW t \in Tasks, MarkBounced(t)
  PROVE  Promise!Settle(t, "failed")
<1>. USE DEF IInv, TypeOK
<1>1. t \in table /\ Outcome(t) = "open"
  BY OpenOutcome DEF CallerHasTask, MarkBounced, Undelivered
<1>2. \A u \in Tasks \ {t} : Outcome(u)' = Outcome(u) /\ Told(u)' = Told(u)
  BY DEF MarkBounced, Outcome, Told, SetStatus
<1>3. Outcome(t)' = "failed" /\ Told(t)' = "error"
  BY <1>1 DEF MarkBounced, Outcome, Told, SetStatus, Undelivered, Terminal, Absent
<1>4. UNCHANGED <<handedBar, reported>>
  BY DEF MarkBounced, handedBar, history
<1>. QED BY <1>1, <1>2, <1>3, <1>4, OneTask, BarValues DEF Promise!Settle

\* A caller that wakes up is told.
LEMMA WakeRefines ==
  ASSUME IInv, NEW t \in Tasks, Wake(t)
  PROVE  Promise!Tell(t)
<1>. USE DEF IInv, TypeOK
<1>1. t \in table /\ Outcome(t) # "none"
  BY DEF CallerHasTask, Wake, Outcome, Status, Terminal, Absent, Undelivered
<1>2. \A u \in Tasks : Outcome(u)' = Outcome(u) /\ (u # t => Told(u)' = Told(u))
  BY <1>1 DEF Wake, Outcome, Told, Undelivered, taskVars
<1>3. status[t] \in Terminal => Told(t)' = status[t] /\ Outcome(t) = status[t]
  BY <1>1 DEF Wake, Outcome, Told, Undelivered, Terminal, Absent
<1>4. status[t] \notin Terminal => Told(t)' = "error"
  BY DEF Wake, Told, LiveHasStatus, Gone, Status, Terminal, Absent
<1>5. UNCHANGED <<outcomeBar, handedBar, reported>>
  BY <1>2 DEF Wake, outcomeBar, handedBar, history
<1>6. toldBar' = [toldBar EXCEPT ![t] = Told(t)']
  BY <1>2 DEF toldBar
<1>. QED BY <1>1, <1>3, <1>4, <1>5, <1>6, BarValues DEF Promise!Tell, Promise!Settled, Terminal

\* A probe is forgotten when its caller returns.
LEMMA ReturnRefines ==
  ASSUME IInv, NEW t \in Tasks, Return(t)
  PROVE  Promise!Forget(t) \/ UNCHANGED <<outcomeBar, toldBar, handedBar, reported>>
<1>. USE DEF IInv, TypeOK
<1>1. t \in table /\ Outcome(t) # "none"
  BY DEF CallerHasTask, Return, Outcome, Status, Terminal, Absent, Undelivered
<1>2. UNCHANGED <<toldBar, handedBar, reported>>
  BY DEF Return, toldBar, Told, handedBar, history
<1>3. \A u \in Tasks \ {t} : Outcome(u)' = Outcome(u)
  BY DEF Return, Outcome
<1>4. CASE kind[t] = "probe"
  <2>1. Outcome(t)' = "gone"
    BY <1>4 DEF Return, Outcome
  <2>2. Told(t) # "nothing"
    BY <1>4 DEF Return, AnsweredOnReturn, Told, Terminal
  <2>3. outcomeBar' = [outcomeBar EXCEPT ![t] = "gone"]
    BY <1>3, <2>1 DEF outcomeBar
  <2>. QED BY <1>1, <1>2, <2>2, <2>3, BarValues DEF Promise!Forget
<1>5. CASE kind[t] # "probe"
  <2>1. Outcome(t)' = Outcome(t)
    BY <1>5 DEF Return, Outcome, Undelivered
  <2>. QED BY <1>2, <1>3, <2>1 DEF outcomeBar
<1>. QED BY <1>4, <1>5

\* What settles the status of an open task settles its outcome, unless its
\* delivery is still running.
LEMMA SetStatusOutcome ==
  ASSUME IInv, NEW t \in Tasks, NEW s \in Terminal, SetStatus(t, s),
         t \in table, status[t] \notin Terminal, table' = table,
         \A u \in Tasks : /\ pc'[u] = pc[u] \/ (pc[u] = "await" /\ pc'[u] = "return")
  PROVE  /\ Outcome(t) = "open"
         /\ Outcome(t)' = IF pc[t] \in Undelivered THEN "open" ELSE s
         /\ \A u \in Tasks \ {t} : Outcome(u)' = Outcome(u)
<1>. USE DEF IInv, TypeOK
<1>1. pc[t] # "unborn"
  BY DEF UnbornIsNowhere
<1>2. Outcome(t) = "open"
  BY OpenOutcome
<1>3. Outcome(t)' = IF pc[t] \in Undelivered THEN "open" ELSE s
  BY <1>1 DEF SetStatus, Outcome, Undelivered
<1>4. \A u \in Tasks \ {t} : Outcome(u)' = Outcome(u)
  BY DEF SetStatus, Outcome, Undelivered
<1>. QED BY <1>2, <1>3, <1>4

\* A caller that gives up settles its task, or only gets its error.
LEMMA GiveUpRefines ==
  ASSUME IInv, NEW t \in Tasks, GiveUp(t)
  PROVE  Promise!Settle(t, "cancelled") \/ Promise!Tell(t)
<1>. USE DEF IInv, TypeOK
<1>1. t \in table /\ pc[t] = "await" /\ Outcome(t) # "none"
  BY DEF CallerHasTask, GiveUp, Outcome, Status, Terminal, Absent, Undelivered
<1>2. UNCHANGED <<handedBar, reported>>
  BY DEF GiveUp, handedBar, history
<1>3. toldBar' = [toldBar EXCEPT ![t] = "error"]
  BY DEF GiveUp, toldBar, Told, Terminal, Absent
<1>4. \A u \in Tasks : pc'[u] = pc[u] \/ (pc[u] = "await" /\ pc'[u] = "return")
  BY DEF GiveUp
<1>5. CASE status[t] \notin Terminal
  <2>1. SetStatus(t, "cancelled")
    BY <1>1, <1>5 DEF GiveUp, CancelBy, Lookup
  <2>2. /\ Outcome(t) = "open" /\ Outcome(t)' = "cancelled"
        /\ \A u \in Tasks \ {t} : Outcome(u)' = Outcome(u)
    BY <1>1, <1>4, <1>5, <2>1, SetStatusOutcome DEF GiveUp, Terminal, Undelivered
  <2>3. outcomeBar' = [outcomeBar EXCEPT ![t] = "cancelled"]
    BY <2>2 DEF outcomeBar
  <2>. QED BY <1>2, <1>3, <2>2, <2>3, BarValues DEF Promise!Settle
<1>6. CASE status[t] \in Terminal
  <2>1. status' = status
    BY <1>6 DEF GiveUp, CancelBy
  <2>2. UNCHANGED outcomeBar
    BY <1>4, <2>1 DEF GiveUp, outcomeBar, Outcome, Undelivered
  <2>. QED BY <1>1, <1>2, <1>3, <2>2, BarValues DEF Promise!Tell
<1>. QED BY <1>5, <1>6

\* Settling by AdminCancel or Sweep, which tell no caller anything.
LEMMA SetStatusRefines ==
  ASSUME IInv, NEW t \in Tasks, NEW s \in Terminal \ {"success"}, SetStatus(t, s),
         t \in table, status[t] \notin Terminal,
         UNCHANGED <<table, pc, verdict, sent, reported>>
  PROVE  Promise!Settle(t, s) \/ UNCHANGED <<outcomeBar, toldBar, handedBar, reported>>
<1>1. /\ Outcome(t) = "open" /\ Outcome(t)' = IF pc[t] \in Undelivered THEN "open" ELSE s
      /\ \A u \in Tasks \ {t} : Outcome(u)' = Outcome(u)
  BY SetStatusOutcome
<1>2. UNCHANGED <<toldBar, handedBar, reported>>
  BY DEF toldBar, Told, handedBar
<1>3. CASE pc[t] \in Undelivered
  BY <1>1, <1>2, <1>3 DEF outcomeBar
<1>4. CASE pc[t] \notin Undelivered
  <2>1. outcomeBar' = [outcomeBar EXCEPT ![t] = s]
    BY <1>1, <1>4 DEF outcomeBar
  <2>. QED BY <1>1, <1>2, <2>1, BarValues DEF Promise!Settle
<1>. QED BY <1>3, <1>4

\* A cancellation or a sweep settles the task, unless its delivery is still running.
LEMMA CancelsRefine ==
  ASSUME IInv, NEW t \in Tasks, AdminCancel(t) \/ Sweep(t)
  PROVE  \/ \E o \in Terminal : Promise!Settle(t, o)
         \/ UNCHANGED <<outcomeBar, toldBar, handedBar, reported>>
<1>1. CASE AdminCancel(t)
  <2>1. t \in table /\ status[t] \notin Terminal /\ SetStatus(t, "cancelled")
    BY <1>1 DEF AdminCancel, CancelBy, Lookup
  <2>2. UNCHANGED <<table, pc, verdict, sent, reported>>
    BY <1>1 DEF AdminCancel, history
  <2>3. "cancelled" \in Terminal \ {"success"}
    BY DEF Terminal
  <2>. QED BY <2>1, <2>2, <2>3, SetStatusRefines
<1>2. CASE Sweep(t)
  <2>1. t \in table /\ status[t] \notin Terminal /\ SetStatus(t, "timeout")
    BY <1>2 DEF Sweep
  <2>2. UNCHANGED <<table, pc, verdict, sent, reported>>
    BY <1>2 DEF Sweep, history
  <2>3. "timeout" \in Terminal \ {"success"}
    BY DEF Terminal
  <2>. QED BY <2>1, <2>2, <2>3, SetStatusRefines
<1>. QED BY <1>1, <1>2

\* A result settles the task, or is only a report.
LEMMA OnResultRefines ==
  ASSUME IInv, NEW t \in Tasks, NEW n \in Nodes, NEW r \in Results,
         sent[t] > 0, OnResult(n, t, r)
  PROVE  \/ \E o \in Terminal : Promise!Settle(t, o)
         \/ Promise!Report(t)
         \/ UNCHANGED <<outcomeBar, toldBar, handedBar, reported>>
<1>. DEFINE s == IF r = "success" THEN "success" ELSE "failed"
<1>1. UNCHANGED <<toldBar, handedBar>>
  BY DEF OnResult, toldBar, Told, handedBar
<1>2. reported' \in {reported, reported \cup {t}}
  BY DEF OnResult
<1>3. t \in handedBar /\ handedBar \cap {t} = {t}
  BY BarValues
<1>4. CASE Lookup(n, t) /\ status[t] \notin Terminal
  <2>1. t \in table /\ SetStatus(t, s) /\ (s = "success" => t \in reported')
    BY <1>4 DEF OnResult, Lookup
  <2>2. s \in Terminal
    BY DEF Terminal
  <2>. HIDE DEF s
  <2>3. /\ Outcome(t) = "open" /\ Outcome(t)' = IF pc[t] \in Undelivered THEN "open" ELSE s
        /\ \A u \in Tasks \ {t} : Outcome(u)' = Outcome(u)
    BY <1>4, <2>1, <2>2, SetStatusOutcome DEF OnResult
  <2>4. CASE pc[t] \in Undelivered
    <3>1. UNCHANGED outcomeBar
      BY <2>3, <2>4 DEF outcomeBar
    <3>. QED BY <1>1, <1>2, <1>3, <3>1 DEF Promise!Report
  <2>5. CASE pc[t] \notin Undelivered
    <3>1. outcomeBar' = [outcomeBar EXCEPT ![t] = s]
      BY <2>3, <2>5 DEF outcomeBar
    <3>2. Promise!Settle(t, s)
      BY <1>1, <1>2, <1>3, <2>1, <2>3, <3>1, BarValues DEF Promise!Settle
    <3>. QED BY <2>2, <3>2
  <2>. QED BY <2>4, <2>5
<1>5. CASE ~(Lookup(n, t) /\ status[t] \notin Terminal)
  <2>1. UNCHANGED outcomeBar
    BY <1>5 DEF OnResult, outcomeBar, Outcome
  <2>. QED BY <1>1, <1>2, <1>3, <2>1 DEF Promise!Report
<1>. QED BY <1>4, <1>5

\* An acknowledgement is invisible.
LEMMA OnAckRefines ==
  ASSUME IInv, NEW t \in Tasks, NEW n \in Nodes, OnAck(n, t)
  PROVE  UNCHANGED <<outcomeBar, toldBar, handedBar, reported>>
<1>1. UNCHANGED <<toldBar, handedBar, reported>>
  BY DEF OnAck, toldBar, Told, handedBar, history
<1>2. \A u \in Tasks : Outcome(u)' = Outcome(u)
  BY DEF IInv, TypeOK, OnAck, Outcome, SetStatus, Terminal
<1>. QED BY <1>1, <1>2 DEF outcomeBar

\* Progress frames, saves and cancellations sent are not the promise's matter.
LEMMA OthersStutter ==
  ASSUME \/ \E t \in Tasks, n \in Nodes : OnProgress(n, t)
         \/ \E th \in Threads : TakeSnapshot(th) \/ Notify(th)
         \/ \E th \in Threads, ok \in BOOLEAN : WriteRow(th, ok)
         \/ UNCHANGED vars
  PROVE  UNCHANGED <<outcomeBar, toldBar, handedBar, reported>>
<1>1. UNCHANGED <<table, status, pc, verdict, sent, reported>>
  BY DEF OnProgress, TakeSnapshot, Notify, WriteRow, vars, taskVars, history
<1>. QED BY <1>1 DEF outcomeBar, Outcome, toldBar, Told, handedBar

\* A restart is a crash of the promise.
LEMMA RestartRefines ==
  ASSUME IInv, NEW ok \in BOOLEAN, Restart(ok)
  PROVE  Promise!Crash
<1>. USE DEF IInv, TypeOK
<1>1. \A t \in Tasks :
        /\ pc[t] = "unborn" => Outcome(t)' = "none"
        /\ pc[t] # "unborn" => Outcome(t)' \in {"gone"} \cup Terminal
        /\ Outcome(t)' = "success" => row[t] = "success"
  BY DEF Restart, Outcome, LoadedStatus, Undelivered, Terminal, Absent
<1>2. \A t \in Tasks : Outcome(t) = "none" <=> pc[t] = "unborn"
  BY DEF Outcome, Terminal
<1>3. \A t \in Tasks : Outcome(t)' = "success" => t \in reported
  BY <1>1 DEF SuccessIsReported
<1>4. toldBar' = [t \in Tasks |-> "nothing"]
  BY DEF Restart, toldBar, Told
<1>5. UNCHANGED <<handedBar, reported>>
  BY DEF Restart, handedBar, history
<1>6. outcomeBar' \in [Tasks -> {"none", "gone"} \cup Promise!Settled]
  BY <1>1 DEF outcomeBar, Promise!Settled, Terminal
<1>7. \A t \in Tasks :
        /\ outcomeBar[t] = "none" <=> outcomeBar'[t] = "none"
        /\ outcomeBar'[t] = "success" => t \in reported
  BY <1>1, <1>2, <1>3 DEF outcomeBar, Terminal
<1>. QED BY <1>4, <1>5, <1>6, <1>7 DEF Promise!Crash

\* Every step of the task manager is a step of the promise or a stutter.
LEMMA StepRefines ==
  ASSUME IInv, [Next]_vars
  PROVE  [Promise!Next]_(Promise!vars)
<1>1. Promise!Settled = Terminal
  BY DEF Promise!Settled, Terminal
<1>2. ASSUME UNCHANGED <<outcomeBar, toldBar, handedBar, reported>>
      PROVE  UNCHANGED Promise!vars
  BY <1>2 DEF Promise!vars
<1>3. CASE UNCHANGED vars
  BY <1>2, <1>3, OthersStutter
<1>4. CASE Next
  <2>. USE <1>1, <1>2
  <2>1. CASE \E t \in Tasks, n \in Nodes, k \in Kinds : Create(t, n, k)
    BY <2>1, InsertRefines DEF Create, Promise!Next
  <2>2. CASE \E t, orig \in Tasks : Retry(t, orig)
    BY <2>2, InsertRefines DEF Retry, Promise!Next
  <2>3. CASE \E t \in Tasks, found \in BOOLEAN : Route(t, found)
    <3>1. "failed" \in Terminal BY DEF Terminal
    <3>. QED BY <2>3, <3>1, RouteRefines DEF Promise!Next
  <2>4. CASE \E t \in Tasks, accepted \in BOOLEAN : Send(t, accepted)
    BY <2>4, SendRefines DEF Promise!Next
  <2>5. CASE \E t \in Tasks : MarkDispatched(t)
    BY <2>5, MarkDispatchedRefines
  <2>6. CASE \E t \in Tasks : MarkBounced(t)
    <3>1. "failed" \in Terminal BY DEF Terminal
    <3>. QED BY <2>6, <3>1, MarkBouncedRefines DEF Promise!Next
  <2>7. CASE \E t \in Tasks : Wake(t)
    BY <2>7, WakeRefines DEF Promise!Next
  <2>8. CASE \E t \in Tasks : GiveUp(t)
    <3>1. "cancelled" \in Terminal BY DEF Terminal
    <3>. QED BY <2>8, <3>1, GiveUpRefines DEF Promise!Next
  <2>9. CASE \E t \in Tasks : Return(t)
    BY <2>9, ReturnRefines DEF Promise!Next
  <2>10. CASE \E t \in Tasks, n \in Nodes : OnAck(n, t)
    BY <2>10, OnAckRefines
  <2>11. CASE \E t \in Tasks, n \in Nodes, r \in Results : sent[t] > 0 /\ OnResult(n, t, r)
    BY <2>11, OnResultRefines DEF Promise!Next
  <2>12. CASE \E t \in Tasks : AdminCancel(t) \/ Sweep(t)
    BY <2>12, CancelsRefine DEF Promise!Next
  <2>13. CASE \/ \E t \in Tasks, n \in Nodes : OnProgress(n, t)
              \/ \E th \in Threads : TakeSnapshot(th) \/ Notify(th)
              \/ \E th \in Threads, ok \in BOOLEAN : WriteRow(th, ok)
    BY <2>13, OthersStutter
  <2>14. CASE \E ok \in BOOLEAN : Restart(ok)
    BY <2>14, RestartRefines DEF Promise!Next
  <2>. QED
    BY <1>4, <2>1, <2>2, <2>3, <2>4, <2>5, <2>6, <2>7, <2>8, <2>9, <2>10, <2>11,
       <2>12, <2>13, <2>14, NextCases
<1>. QED BY <1>3, <1>4

\* The task manager keeps its promise.
THEOREM Refinement == Spec => Implements
<1>1. Init => Promise!Init
  BY DEF Init, Promise!Init, outcomeBar, Outcome, toldBar, Told, handedBar
<1>2. ASSUME IInv, [Next]_vars
      PROVE  [Promise!Next]_(Promise!vars)
  BY <1>2, StepRefines
<1>. QED BY <1>1, <1>2, Inductive, PTL DEF Spec, Implements, Promise!Spec

------------------------------------------------------------------------------
(*****************************************************************************)
(* The task table, the sessions and the agents.                              *)
(*****************************************************************************)

\* The steps of SystemNext by name.
LEMMA SystemCases ==
  ASSUME SystemNext
  PROVE  \/ TableStep
         \/ \E t \in Tasks : RouteToHub(t)
         \/ \E t \in Tasks : SendToSession(t)
         \/ \E t \in Tasks, r \in Results : AgentFinish(t, r)
         \/ \E th \in Threads : NotifySession(th)
         \/ \E s \in Sessions : Receive(s)
         \/ \E n \in Nodes : AgentExecute(n)
         \/ \E n \in Nodes : AgentCancel(n)
         \/ \E n \in Nodes : AgentCrash(n)
         \/ Link!LinkStep /\ UNCHANGED <<vars, execVars>>
         \/ RestartSystem
  BY DEF SystemNext

\* The steps of the connections by name.
LEMMA LinkCases ==
  ASSUME Link!LinkStep
  PROVE  \/ \E n \in Nodes, s \in Sessions : Link!Dial(n, s)
         \/ \E s \in Sessions : Link!HubAdd(s)
         \/ \E s \in Sessions : Link!Kick(s)
         \/ \E s \in Sessions : Link!SendReady(s)
         \/ \E s \in Sessions : Link!PumpFails(s)
         \/ \E s \in Sessions : Link!ReadEnds(s)
         \/ \E s \in Sessions : Link!HubRemove(s)
         \/ \E s \in Sessions : Link!SessionEnd(s)
         \/ \E n \in Nodes : Link!Handshake(n)
         \/ \E n \in Nodes : Link!HangUp(n)
  BY DEF Link!LinkStep, Link!HandlerStep

------------------------------------------------------------------------------
(* Queues.                                                                 *)

\* The frames of a queue without its first.
LEMMA TailOf ==
  ASSUME NEW q \in Seq(Frames), q # <<>>
  PROVE  /\ Tail(q) \in Seq(Frames) /\ Head(q) = q[1] /\ 1 \in DOMAIN q /\ Head(q) \in Frames
         /\ \A i \in DOMAIN Tail(q) : i \in Nat /\ i # 0 /\ i + 1 \in DOMAIN q /\ Tail(q)[i] = q[i + 1]
  OBVIOUS

\* The frames of a queue with one more.
LEMMA AppendOf ==
  ASSUME NEW q \in Seq(Frames), NEW f \in Frames
  PROVE  /\ Append(q, f) \in Seq(Frames)
         /\ \A i \in DOMAIN Append(q, f) :
              \/ i \in DOMAIN q /\ Append(q, f)[i] = q[i]
              \/ i = Len(q) + 1 /\ Append(q, f)[i] = f
         /\ \A i \in DOMAIN q : i \in Nat /\ i <= Len(q)
  OBVIOUS

\* Every queue is one that was there, without some of its first frames.
Shrunk(new, old) ==
  \A s \in Sessions : \E k \in Nat :
    \A i \in DOMAIN new[s] : i \in Nat /\ i + k \in DOMAIN old[s] /\ new[s][i] = old[s][i + k]

LEMMA SameShrunk ==
  ASSUME NEW q \in [Sessions -> Seq(Frames)] PROVE Shrunk(q, q)
<1>1. \A s \in Sessions : \A i \in DOMAIN q[s] : i \in Nat /\ i + 0 = i
  OBVIOUS
<1>2. 0 \in Nat OBVIOUS
<1>. QED BY <1>1, <1>2 DEF Shrunk

LEMMA TailShrunk ==
  ASSUME NEW q \in [Sessions -> Seq(Frames)], NEW r \in Sessions, q[r] # <<>>
  PROVE  Shrunk([q EXCEPT ![r] = Tail(@)], q)
<1>. DEFINE new == [q EXCEPT ![r] = Tail(@)]
<1>1. ASSUME NEW s \in Sessions, s # r
      PROVE  \E k \in Nat : \A i \in DOMAIN new[s] : i \in Nat /\ i + k \in DOMAIN q[s] /\ new[s][i] = q[s][i + k]
  BY <1>1, SameShrunk DEF Shrunk
<1>2. \A i \in DOMAIN new[r] : i \in Nat /\ i + 1 \in DOMAIN q[r] /\ new[r][i] = q[r][i + 1]
  BY TailOf
<1>. QED BY <1>1, <1>2 DEF Shrunk

LEMMA EmptyShrunk ==
  ASSUME NEW q \in [Sessions -> Seq(Frames)], NEW new,
         \A s \in Sessions : new[s] = q[s] \/ new[s] = <<>>
  PROVE  Shrunk(new, q)
<1>1. ASSUME NEW s \in Sessions
      PROVE  \E k \in Nat : \A i \in DOMAIN new[s] : i \in Nat /\ i + k \in DOMAIN q[s] /\ new[s][i] = q[s][i + k]
  <2>1. CASE new[s] = q[s]
    <3>1. \A i \in DOMAIN new[s] : i \in Nat /\ i + 0 \in DOMAIN q[s] /\ new[s][i] = q[s][i + 0]
      BY <2>1
    <3>. QED BY <3>1
  <2>2. CASE new[s] = <<>>
    <3>1. \A i \in DOMAIN new[s] : i \in Nat /\ i + 0 \in DOMAIN q[s] /\ new[s][i] = q[s][i + 0]
      BY <2>2
    <3>. QED BY <3>1
  <2>. QED BY <1>1, <2>1, <2>2
<1>. QED BY <1>1 DEF Shrunk

LEMMA SelfShrunk ==
  ASSUME NEW q \in [Sessions -> Seq(Frames)], NEW new, new = q PROVE Shrunk(new, q)
  BY EmptyShrunk

------------------------------------------------------------------------------
(* Preservation, by what a step does to the queues.                        *)

\* What the tables of tasks and executions keep over most steps.
Onward ==
  \A t \in Tasks :
    /\ pc[t] # "unborn" => nodeOf'[t] = nodeOf[t] /\ pc'[t] # "unborn"
    /\ Delivered(t) => pc'[t] \notin Undelivered \cup {"unborn"}
    /\ sent[t] > 0 => sent'[t] > 0

\* Frames for the agents that go on are still right.
LEMMA DownShrinks ==
  ASSUME SystemInv, Shrunk(down', down), Onward,
         \A s \in Sessions : down[s] # <<>> => node'[s] = node[s]
  PROVE  CancelIsForNode' /\ OneExecute' /\ LateIsLater'
<1>. USE DEF SystemInv
<1>1. CancelIsForNode'
  <2>. SUFFICES ASSUME NEW s \in Sessions, NEW i \in DOMAIN down'[s], down'[s][i].type = "cancel"
       PROVE  LET f == down'[s][i] IN
              /\ f.task \in Tasks /\ pc'[f.task] # "unborn" /\ node'[s] = nodeOf'[f.task]
              /\ f.result = "late" => pc'[f.task] \notin Undelivered \cup {"unborn"}
    BY DEF CancelIsForNode, Delivered
  <2>1. PICK k \in Nat : i + k \in DOMAIN down[s] /\ down'[s][i] = down[s][i + k]
    BY DEF Shrunk
  <2>2. down[s] # <<>> BY <2>1
  <2>. QED BY <2>1, <2>2 DEF CancelIsForNode, Onward
<1>2. OneExecute'
  <2>. SUFFICES ASSUME NEW r \in Sessions, NEW s \in Sessions,
                       NEW i \in DOMAIN down'[r], NEW j \in DOMAIN down'[s],
                       down'[r][i].type = "execute", down'[s][j].type = "execute",
                       down'[r][i].task = down'[s][j].task
                PROVE  r = s /\ i = j
    BY DEF OneExecute
  <2>1. PICK k \in Nat : \A x \in DOMAIN down'[r] :
          x \in Nat /\ x + k \in DOMAIN down[r] /\ down'[r][x] = down[r][x + k]
    BY DEF Shrunk
  <2>2. PICK m \in Nat : \A x \in DOMAIN down'[s] :
          x \in Nat /\ x + m \in DOMAIN down[s] /\ down'[s][x] = down[s][x + m]
    BY DEF Shrunk
  <2>3. r = s
    BY <2>1, <2>2 DEF OneExecute
  <2>4. i + k = j + k
    BY <2>1, <2>3 DEF OneExecute
  <2>. QED BY <2>1, <2>2, <2>3, <2>4
<1>3. LateIsLater'
  <2>. SUFFICES ASSUME NEW s \in Sessions, NEW i \in DOMAIN down'[s], NEW j \in DOMAIN down'[s],
                       down'[s][i].type = "execute",
                       down'[s][j].type = "cancel", down'[s][j].result = "late",
                       down'[s][i].task = down'[s][j].task
                PROVE  i < j
    BY DEF LateIsLater
  <2>1. PICK k \in Nat : \A x \in DOMAIN down'[s] :
          x \in Nat /\ x + k \in DOMAIN down[s] /\ down'[s][x] = down[s][x + k]
    BY DEF Shrunk
  <2>2. i + k < j + k
    BY <2>1 DEF LateIsLater
  <2>. QED BY <2>1, <2>2
<1>. QED BY <1>1, <1>2, <1>3

\* So are executes, as long as nothing more is run or cancelled.
LEMMA ExecutesShrink ==
  ASSUME SystemInv, Shrunk(down', down), Onward, UNCHANGED <<runs, caught>>,
         \A s \in Sessions : down[s] # <<>> => node'[s] = node[s]
  PROVE  ExecuteIsFirst'
<1>. USE DEF SystemInv
<1>. SUFFICES ASSUME NEW s \in Sessions, NEW i \in DOMAIN down'[s], down'[s][i].type = "execute"
     PROVE  LET f == down'[s][i] IN
            /\ f.task \in Tasks /\ node'[s] = nodeOf'[f.task]
            /\ sent'[f.task] > 0 /\ runs'[f.task] = 0 /\ f.task \notin caught'
  BY DEF ExecuteIsFirst
<1>1. PICK k \in Nat : i + k \in DOMAIN down[s] /\ down'[s][i] = down[s][i + k]
  BY DEF Shrunk
<1>2. down[s] # <<>> BY <1>1
<1>3. down'[s][i].task \in Tasks /\ sent[down'[s][i].task] > 0
  BY <1>1 DEF ExecuteIsFirst
<1>4. pc[down'[s][i].task] # "unborn"
  BY <1>3 DEF IInv, NotSentYet
<1>. QED BY <1>1, <1>2, <1>3, <1>4 DEF ExecuteIsFirst, Onward

\* Answers under way stay true while their tasks' outcomes stay.
LEMMA UpShrinks ==
  ASSUME SystemInv, Shrunk(up', up), Onward,
         \A t \in Tasks : outcome[t] # "none" => outcome'[t] = outcome[t]
  PROVE  AnswersAreTrue'
<1>. USE DEF SystemInv
<1>. SUFFICES ASSUME NEW s \in Sessions, NEW i \in DOMAIN up'[s]
     PROVE  LET f == up'[s][i] IN
            /\ f.type \in {"ack", "result"} /\ f.task \in Tasks /\ sent'[f.task] > 0
            /\ f.type = "result" => f.result \in Results /\ outcome'[f.task] = f.result
  BY DEF AnswersAreTrue
<1>1. PICK k \in Nat : i + k \in DOMAIN up[s] /\ up'[s][i] = up[s][i + k]
  BY DEF Shrunk
<1>2. "none" \notin Results
  BY DEF Results
<1>. QED BY <1>1, <1>2 DEF AnswersAreTrue, Onward

\* A frame that is put last in a queue for an agent.
LEMMA DownGrows ==
  ASSUME SystemInv, Onward, UNCHANGED <<node, runs, caught>>,
         NEW r \in Sessions, NEW f \in Frames, down' = [down EXCEPT ![r] = Append(@, f)],
         f.type = "execute" =>
           /\ f.task \in Tasks /\ node[r] = nodeOf[f.task] /\ nodeOf'[f.task] = nodeOf[f.task]
           /\ sent[f.task] = 0 /\ sent'[f.task] > 0 /\ ~Delivered(f.task),
         f.type = "cancel" =>
           /\ f.task \in Tasks /\ node[r] = nodeOf[f.task] /\ pc[f.task] # "unborn"
           /\ f.result = "late" => Delivered(f.task)
  PROVE  ExecuteIsFirst' /\ CancelIsForNode' /\ OneExecute' /\ LateIsLater'
<1>. USE DEF SystemInv
<1>1. down \in [Sessions -> Seq(Frames)]
  BY DEF SystemTypeOK, Link!TypeOK
<1>2. \A s \in Sessions : \A i \in DOMAIN down'[s] :
        \/ i \in DOMAIN down[s] /\ down'[s][i] = down[s][i]
        \/ s = r /\ i = Len(down[r]) + 1 /\ down'[s][i] = f
  BY <1>1, AppendOf
<1>3. \A s \in Sessions : \A i \in DOMAIN down[s] : i \in Nat /\ i <= Len(down[s])
  BY <1>1, AppendOf
<1>4. Len(down[r]) \in Nat
  BY <1>1
<1>5. ASSUME NEW s \in Sessions, NEW i \in DOMAIN down[s], down[s][i].type = "execute"
      PROVE  /\ down[s][i].task \in Tasks /\ pc[down[s][i].task] # "unborn"
             /\ f.type = "execute" => f.task # down[s][i].task
  BY <1>5 DEF ExecuteIsFirst, IInv, NotSentYet
<1>6. f.type = "execute" => runs[f.task] = 0 /\ f.task \notin caught
  <2>1. \A t \in Tasks : runs[t] \in Nat
    BY DEF SystemTypeOK
  <2>. QED BY <2>1 DEF RunsAreRecorded
<1>7. ExecuteIsFirst'
  <2>. SUFFICES ASSUME NEW s \in Sessions, NEW i \in DOMAIN down'[s], down'[s][i].type = "execute"
       PROVE  LET g == down'[s][i] IN
              /\ g.task \in Tasks /\ node'[s] = nodeOf'[g.task]
              /\ sent'[g.task] > 0 /\ runs'[g.task] = 0 /\ g.task \notin caught'
    BY DEF ExecuteIsFirst
  <2>1. CASE i \in DOMAIN down[s] /\ down'[s][i] = down[s][i]
    BY <2>1, <1>5 DEF ExecuteIsFirst, Onward
  <2>2. CASE s = r /\ down'[s][i] = f
    BY <2>2, <1>6
  <2>. QED BY <2>1, <2>2, <1>2
<1>8. CancelIsForNode'
  <2>. SUFFICES ASSUME NEW s \in Sessions, NEW i \in DOMAIN down'[s], down'[s][i].type = "cancel"
       PROVE  LET g == down'[s][i] IN
              /\ g.task \in Tasks /\ pc'[g.task] # "unborn" /\ node'[s] = nodeOf'[g.task]
              /\ g.result = "late" => pc'[g.task] \notin Undelivered \cup {"unborn"}
    BY DEF CancelIsForNode, Delivered
  <2>1. CASE i \in DOMAIN down[s] /\ down'[s][i] = down[s][i]
    BY <2>1 DEF CancelIsForNode, Onward
  <2>2. CASE s = r /\ down'[s][i] = f
    BY <2>2 DEF Onward
  <2>. QED BY <2>1, <2>2, <1>2
<1>9. OneExecute'
  <2>. SUFFICES ASSUME NEW q \in Sessions, NEW s \in Sessions,
                       NEW i \in DOMAIN down'[q], NEW j \in DOMAIN down'[s],
                       down'[q][i].type = "execute", down'[s][j].type = "execute",
                       down'[q][i].task = down'[s][j].task
                PROVE  q = s /\ i = j
    BY DEF OneExecute
  <2>1. CASE i \in DOMAIN down[q] /\ down'[q][i] = down[q][i] /\ j \in DOMAIN down[s] /\ down'[s][j] = down[s][j]
    BY <2>1 DEF OneExecute
  <2>. QED BY <2>1, <1>2, <1>5
<1>10. LateIsLater'
  <2>. SUFFICES ASSUME NEW s \in Sessions, NEW i \in DOMAIN down'[s], NEW j \in DOMAIN down'[s],
                       down'[s][i].type = "execute",
                       down'[s][j].type = "cancel", down'[s][j].result = "late",
                       down'[s][i].task = down'[s][j].task
                PROVE  i < j
    BY DEF LateIsLater
  <2>1. CASE i \in DOMAIN down[s] /\ down'[s][i] = down[s][i] /\ j \in DOMAIN down[s] /\ down'[s][j] = down[s][j]
    BY <2>1 DEF LateIsLater
  <2>2. CASE i \in DOMAIN down[s] /\ s = r /\ j = Len(down[r]) + 1
    BY <2>2, <1>3, <1>4
  <2>3. CASE i \notin DOMAIN down[s]
    <3>1. down'[s][i] = f /\ i = Len(down[r]) + 1 /\ s = r BY <2>3, <1>2
    <3>2. down'[s][j] # f BY <3>1
    <3>3. j \in DOMAIN down[s] /\ down'[s][j] = down[s][j] BY <3>2, <1>2
    <3>. QED BY <3>1, <3>3 DEF CancelIsForNode
  <2>. QED BY <2>1, <2>2, <2>3, <1>2
<1>. QED BY <1>7, <1>8, <1>9, <1>10

\* An answer that is put last in the queue of a connection.
LEMMA UpGrows ==
  ASSUME SystemInv, Onward,
         \A t \in Tasks : outcome[t] # "none" => outcome'[t] = outcome[t],
         NEW r \in Sessions, NEW f \in Frames, up' = [up EXCEPT ![r] = Append(@, f)],
         f.type \in {"ack", "result"} /\ f.task \in Tasks /\ sent'[f.task] > 0,
         f.type = "result" => f.result \in Results /\ outcome'[f.task] = f.result
  PROVE  AnswersAreTrue'
<1>. USE DEF SystemInv
<1>1. up \in [Sessions -> Seq(Frames)]
  BY DEF SystemTypeOK, Link!TypeOK
<1>2. \A s \in Sessions : \A i \in DOMAIN up'[s] :
        \/ i \in DOMAIN up[s] /\ up'[s][i] = up[s][i]
        \/ up'[s][i] = f
  BY <1>1, AppendOf
<1>3. "none" \notin Results
  BY DEF Results
<1>. SUFFICES ASSUME NEW s \in Sessions, NEW i \in DOMAIN up'[s]
     PROVE  LET g == up'[s][i] IN
            /\ g.type \in {"ack", "result"} /\ g.task \in Tasks /\ sent'[g.task] > 0
            /\ g.type = "result" => g.result \in Results /\ outcome'[g.task] = g.result
  BY DEF AnswersAreTrue
<1>4. CASE i \in DOMAIN up[s] /\ up'[s][i] = up[s][i]
  BY <1>4, <1>3 DEF AnswersAreTrue, Onward
<1>5. CASE up'[s][i] = f
  BY <1>5
<1>. QED BY <1>4, <1>5, <1>2

------------------------------------------------------------------------------
(* Preservation, by what a step leaves alone.                              *)

\* A task that is known to an agent exists.
LEMMA KnownExists ==
  ASSUME SystemInv, NEW t \in Tasks, sent[t] > 0 \/ runs[t] > 0 \/ over[t] # NoSession
  PROVE  pc[t] # "unborn" /\ sent[t] > 0
<1>1. runs[t] \in Nat BY DEF SystemInv, SystemTypeOK
<1>. QED BY <1>1 DEF SystemInv, RunsAreRecorded, IInv, NotSentYet

\* A session that an execution was asked on, or a sender found, was dialled.
LEMMA KnownSession ==
  ASSUME SystemInv, NEW s \in Sessions,
         \/ \E t \in Tasks : over[t] = s \/ sender[t] = s
         \/ \E n \in Nodes : hub[n] = s \/ conn[n] = s
         \/ down[s] # <<>> \/ up[s] # <<>>
  PROVE  handler[s] # "none"
  BY DEF SystemInv, FreshIsUnknown

\* The record of the executions, when none starts or ends.
LEMMA RecordsKept ==
  ASSUME SystemInv, Onward, UNCHANGED <<exec, over, outcome, runs, caught, cancelled>>,
         \A s \in Sessions : handler[s] # "none" => node'[s] = node[s],
         \A t \in reported' : t \in reported \/ outcome[t] = "success"
  PROVE  RunsAreRecorded' /\ RunsOnceOnItsNode' /\ CancelCatches'
<1>. USE DEF SystemInv
<1>1. RunsAreRecorded'
  BY DEF RunsAreRecorded, Onward, Delivered
<1>2. RunsOnceOnItsNode'
  <2>1. \A t \in Tasks : over[t] # NoSession => over[t] \in Sessions
    BY DEF SystemTypeOK
  <2>. QED BY <2>1, KnownExists, KnownSession DEF RunsOnceOnItsNode, Onward
<1>3. CancelCatches'
  BY DEF CancelCatches
<1>. QED BY <1>1, <1>2, <1>3

\* The connections, when nothing happens to them.
LEMMA LinkKept ==
  ASSUME SystemInv, Onward, UNCHANGED <<serverVars, agentVars>>,
         \A t \in Tasks : pc'[t] = "send" =>
           sender'[t] \in Sessions /\ handler[sender'[t]] # "none" /\ node[sender'[t]] = nodeOf[t]
             /\ pc[t] # "unborn"
  PROVE  SessionsAreOf' /\ HubKeepsTheLive'
<1>. USE DEF SystemInv
<1>1. SessionsAreOf'
  BY DEF SessionsAreOf, Onward, serverVars, agentVars
<1>2. HubKeepsTheLive'
  BY DEF HubKeepsTheLive, Link!HubKeepsTheLive, Link!Live, Link!Condemned, serverVars
<1>. QED BY <1>1, <1>2

------------------------------------------------------------------------------
(* Every step of the system is one of the task table.                      *)

\* What a step of the task table keeps.
LEMMA OnwardHolds ==
  ASSUME TypeOK, [Next]_vars
  PROVE  Onward
<1>. USE DEF Onward, Delivered, Undelivered, TypeOK
<1>1. CASE \E t \in Tasks, n \in Nodes, k \in Kinds : Create(t, n, k)
  BY <1>1 DEF Create, Insert, history
<1>2. CASE \E t, orig \in Tasks : Retry(t, orig)
  BY <1>2 DEF Retry, Insert, history
<1>3. CASE \E t \in Tasks, found \in BOOLEAN : Route(t, found)
  <2>1. PICK t \in Tasks, found \in BOOLEAN : Route(t, found) BY <1>3
  <2>2. UNCHANGED <<nodeOf, sent>>
    BY <2>1 DEF Route, history, taskVars
  <2>3. \A u \in Tasks : u # t => pc'[u] = pc[u]
    BY <2>1 DEF Route
  <2>4. pc[t] = "route" /\ pc'[t] \in {"send", "return"}
    BY <2>1 DEF Route
  <2>. QED BY <2>2, <2>3, <2>4
<1>4. CASE \E t \in Tasks, accepted \in BOOLEAN : Send(t, accepted)
  BY <1>4 DEF Send, taskVars
<1>5. CASE \E t \in Tasks : MarkDispatched(t) \/ MarkBounced(t)
  BY <1>5 DEF MarkDispatched, MarkBounced, history
<1>6. CASE \E t \in Tasks : Wake(t) \/ GiveUp(t) \/ Return(t)
  BY <1>6 DEF Wake, GiveUp, Return, history, taskVars
<1>7. CASE \E t \in Tasks, n \in Nodes : OnAck(n, t) \/ OnProgress(n, t)
  BY <1>7 DEF OnAck, OnProgress, history, taskVars
<1>8. CASE \E t \in Tasks, n \in Nodes, r \in Results : OnResult(n, t, r)
  BY <1>8 DEF OnResult
<1>9. CASE \E t \in Tasks : AdminCancel(t) \/ Sweep(t)
  BY <1>9 DEF AdminCancel, Sweep, history
<1>10. CASE \E th \in Threads : TakeSnapshot(th) \/ Notify(th) \/ \E ok \in BOOLEAN : WriteRow(th, ok)
  BY <1>10 DEF TakeSnapshot, Notify, WriteRow, history, taskVars
<1>11. CASE \E ok \in BOOLEAN : Restart(ok)
  BY <1>11 DEF Restart, history
<1>12. CASE UNCHANGED vars
  BY <1>12 DEF vars, history, taskVars
<1>. QED BY <1>1, <1>2, <1>3, <1>4, <1>5, <1>6, <1>7, <1>8, <1>9, <1>10, <1>11, <1>12, NextCases

\* A step that only the task table takes.
LEMMA TableOnly ==
  ASSUME TypeOK, TableStep
  PROVE  /\ Next
         /\ reported' = reported
         /\ \A t \in Tasks : pc'[t] = "send" => pc[t] = "send"
<1>. USE SystemAssumption DEF TypeOK
<1>1. CASE \E t \in Tasks, n \in Nodes, k \in Asked : Create(t, n, k)
  <2>1. PICK t \in Tasks, n \in Nodes, k \in Asked : Create(t, n, k) BY <1>1
  <2>2. k \in Kinds BY DEF Kinds
  <2>3. Next BY <2>1, <2>2 DEF Next
  <2>. QED BY <2>1, <2>3 DEF Create, Insert, history
<1>2. CASE \E t, orig \in Tasks : Retry(t, orig)
  BY <1>2 DEF Retry, Insert, history, Next
<1>3. CASE \E t \in Tasks : MarkDispatched(t) \/ MarkBounced(t)
  BY <1>3 DEF MarkDispatched, MarkBounced, history, Next, CallerStep
<1>4. CASE \E t \in Tasks : Wake(t) \/ GiveUp(t) \/ Return(t)
  BY <1>4 DEF Wake, GiveUp, Return, history, taskVars, Next, CallerStep
<1>5. CASE \E t \in Tasks : AdminCancel(t) \/ Sweep(t)
  BY <1>5 DEF AdminCancel, Sweep, history, Next
<1>6. CASE \E th \in Threads : TakeSnapshot(th) \/ \E ok \in BOOLEAN : WriteRow(th, ok)
  BY <1>6 DEF TakeSnapshot, WriteRow, history, taskVars, Next, SaveStep
<1>. QED BY <1>1, <1>2, <1>3, <1>4, <1>5, <1>6 DEF TableStep

\* The frame that the read loop of a session takes next.
LEMMA ReceivedFrame ==
  ASSUME SystemInv, NEW s \in Sessions, Receive(s)
  PROVE  LET f == Head(up[s]) IN
         /\ f.task \in Tasks /\ sent[f.task] > 0 /\ node[s] \in Nodes
         /\ f.type = "result" => f.result \in Results /\ outcome[f.task] = f.result
<1>1. up[s] \in Seq(Frames) /\ up[s] # <<>> /\ handler[s] # "none"
  BY DEF Receive, Link!Receive, SystemInv, SystemTypeOK, Link!TypeOK
<1>2. Head(up[s]) = up[s][1] /\ 1 \in DOMAIN up[s]
  BY <1>1, TailOf
<1>. QED BY <1>1, <1>2 DEF SystemInv, AnswersAreTrue, SessionsAreOf

\* The steps of the composed system are steps of the task table, or none.
LEMMA SystemStep ==
  ASSUME SystemInv, [SystemNext]_systemVars
  PROVE  [Next]_vars
<1>0. TypeOK
  BY DEF SystemInv, IInv
<1>1. CASE TableStep
  BY <1>0, <1>1, TableOnly
<1>2. CASE \E t \in Tasks : RouteToHub(t)
  BY <1>2 DEF RouteToHub, Next, CallerStep
<1>3. CASE \E t \in Tasks : SendToSession(t)
  <2>1. PICK t \in Tasks : SendToSession(t) BY <1>3
  <2>2. Link!Accepts(sender[t]) \in BOOLEAN
    BY <2>1 DEF SendToSession, SystemInv, SystemTypeOK, SessionsAreOf, Link!Accepts, Link!TypeOK
  <2>. QED BY <2>1, <2>2 DEF SendToSession, Next, CallerStep
<1>4. CASE \E t \in Tasks, r \in Results : AgentFinish(t, r)
  BY <1>4 DEF AgentFinish
<1>5. CASE \E th \in Threads : NotifySession(th)
  BY <1>5 DEF NotifySession, Next, SaveStep
<1>6. CASE \E s \in Sessions : Receive(s)
  <2>1. PICK s \in Sessions : Receive(s) BY <1>6
  <2>. QED BY <2>1, ReceivedFrame DEF Receive, Next, AgentFrame
<1>7. CASE \E n \in Nodes : AgentExecute(n) \/ AgentCancel(n) \/ AgentCrash(n)
  BY <1>7 DEF AgentExecute, AgentCancel, AgentCrash
<1>8. CASE RestartSystem
  BY <1>8 DEF RestartSystem, Next
<1>9. CASE UNCHANGED systemVars
  BY <1>9 DEF systemVars
<1>. QED BY <1>1, <1>2, <1>3, <1>4, <1>5, <1>6, <1>7, <1>8, <1>9, SystemCases

------------------------------------------------------------------------------
(* The steps of the task table alone, and of deliver.                      *)

\* Nothing happens to the connections, the agents and the executions.
LEMMA QuietStep ==
  ASSUME SystemInv, IInv', TasksAreOf', Onward,
         UNCHANGED <<linkVars, exec, over, cancelled, outcome, runs, caught, crashes>>,
         reported' = reported,
         sender' \in [Tasks -> Sessions \cup {NoSession}],
         \A t \in Tasks, s \in Sessions : sender'[t] = s => handler[s] # "none",
         \A t \in Tasks : pc'[t] = "send" =>
           sender'[t] \in Sessions /\ node[sender'[t]] = nodeOf[t] /\ pc[t] # "unborn"
  PROVE  SystemInv'
<1>. USE DEF SystemInv, linkVars, serverVars, agentVars
<1>1. SystemTypeOK'
  BY DEF SystemTypeOK, Link!TypeOK, IInv
<1>2. Shrunk(down', down) /\ Shrunk(up', up)
  BY SameShrunk DEF SystemTypeOK, Link!TypeOK
<1>3. ExecuteIsFirst' /\ CancelIsForNode' /\ OneExecute' /\ LateIsLater'
  BY <1>2, DownShrinks, ExecutesShrink
<1>4. AnswersAreTrue'
  BY <1>2, UpShrinks
<1>5. RunsAreRecorded' /\ RunsOnceOnItsNode' /\ CancelCatches'
  BY RecordsKept
<1>6. SessionsAreOf' /\ HubKeepsTheLive'
  BY LinkKept
<1>7. FreshIsUnknown'
  BY DEF FreshIsUnknown
<1>8. DownIsHeld'
  BY DEF DownIsHeld
<1>. QED BY <1>1, <1>3, <1>4, <1>5, <1>6, <1>7, <1>8

LEMMA TableStepKeeps ==
  ASSUME SystemInv, IInv', TasksAreOf', Onward, TableStep
  PROVE  SystemInv'
<1>1. TypeOK BY DEF SystemInv, IInv
<1>2. /\ reported' = reported
      /\ \A t \in Tasks : pc'[t] = "send" => pc[t] = "send"
  BY <1>1, TableOnly
<1>3. UNCHANGED <<linkVars, execVars>>
  BY DEF TableStep
<1>4. sender \in [Tasks -> Sessions \cup {NoSession}]
  BY DEF SystemInv, SystemTypeOK
<1>5. \A t \in Tasks, s \in Sessions : sender[t] = s => handler[s] # "none"
  BY KnownSession
<1>. QED BY <1>2, <1>3, <1>4, <1>5, QuietStep DEF execVars, SystemInv, SessionsAreOf

\* Every task is created for a node.
LEMMA TasksStayOf ==
  ASSUME IInv, TasksAreOf, [Next]_vars
  PROVE  TasksAreOf'
<1>0. TypeOK BY DEF IInv
<1>1. Onward BY <1>0, OnwardHolds
<1>2. ASSUME NEW t \in Tasks, pc[t] = "unborn", pc'[t] # "unborn" PROVE nodeOf'[t] \in Nodes
  <2>. USE <1>2 DEF IInv, TypeOK
  <2>1. CASE \E u \in Tasks, n \in Nodes, k \in Kinds : Create(u, n, k)
    BY <2>1 DEF Create, Insert
  <2>2. CASE \E u, orig \in Tasks : Retry(u, orig)
    BY <2>2 DEF Retry, Insert, UnbornIsNowhere, TasksAreOf
  <2>3. CASE \E u \in Tasks, found \in BOOLEAN : Route(u, found)
    BY <2>3 DEF Route
  <2>4. CASE \E u \in Tasks, accepted \in BOOLEAN : Send(u, accepted)
    BY <2>4 DEF Send
  <2>5. CASE \E u \in Tasks : MarkDispatched(u) \/ MarkBounced(u)
    BY <2>5 DEF MarkDispatched, MarkBounced
  <2>6. CASE \E u \in Tasks : Wake(u) \/ GiveUp(u) \/ Return(u)
    BY <2>6 DEF Wake, GiveUp, Return
  <2>7. CASE \E u \in Tasks, n \in Nodes : OnAck(n, u) \/ OnProgress(n, u)
    BY <2>7 DEF OnAck, OnProgress
  <2>8. CASE \E u \in Tasks, n \in Nodes, r \in Results : OnResult(n, u, r)
    BY <2>8 DEF OnResult
  <2>9. CASE \E u \in Tasks : AdminCancel(u) \/ Sweep(u)
    BY <2>9 DEF AdminCancel, Sweep
  <2>10. CASE \E th \in Threads : TakeSnapshot(th) \/ Notify(th) \/ \E ok \in BOOLEAN : WriteRow(th, ok)
    BY <2>10 DEF TakeSnapshot, Notify, WriteRow
  <2>11. CASE \E ok \in BOOLEAN : Restart(ok)
    BY <2>11 DEF Restart
  <2>12. CASE UNCHANGED vars
    BY <2>12 DEF vars
  <2>. QED BY <2>1, <2>2, <2>3, <2>4, <2>5, <2>6, <2>7, <2>8, <2>9, <2>10, <2>11, <2>12, NextCases
<1>. QED BY <1>1, <1>2 DEF TasksAreOf, Onward

LEMMA RouteKeeps ==
  ASSUME SystemInv, IInv', TasksAreOf', Onward, NEW t \in Tasks, RouteToHub(t)
  PROVE  SystemInv'
<1>0. TypeOK BY DEF SystemInv, IInv
<1>1. sender \in [Tasks -> Sessions \cup {NoSession}] /\ hub \in [Nodes -> Sessions \cup {NoSession}]
  BY DEF SystemInv, SystemTypeOK, Link!TypeOK
<1>2. pc[t] = "route" /\ t \in table
  BY DEF RouteToHub, Route, SystemInv, IInv, CallerHasTask
<1>3. nodeOf[t] \in Nodes
  BY <1>2 DEF SystemInv, TasksAreOf
<1>4. UNCHANGED <<linkVars, exec, over, cancelled, outcome, runs, caught, crashes, reported>>
  BY DEF RouteToHub, Route, history
<1>5. sender' = [sender EXCEPT ![t] = hub[nodeOf[t]]]
  BY DEF RouteToHub
<1>6. \A u \in Tasks, s \in Sessions : sender'[u] = s => handler[s] # "none"
  BY <1>1, <1>3, <1>5, KnownSession
<1>7. pc'[t] = "send" => hub[nodeOf[t]] # NoSession
  BY <1>0, <1>2 DEF RouteToHub, Route, TypeOK
<1>8. \A u \in Tasks : u # t => pc'[u] = pc[u]
  BY <1>0 DEF RouteToHub, Route, TypeOK
<1>9. \A u \in Tasks : pc'[u] = "send" =>
        sender'[u] \in Sessions /\ node[sender'[u]] = nodeOf[u] /\ pc[u] # "unborn"
  BY <1>1, <1>2, <1>3, <1>5, <1>7, <1>8 DEF SystemInv, SessionsAreOf
<1>. QED BY <1>1, <1>3, <1>4, <1>5, <1>6, <1>9, QuietStep

------------------------------------------------------------------------------
(* The steps that put a frame into a queue, or take one out.               *)

\* A frame is handed to a session.
LEMMA EnqueueKeeps ==
  ASSUME SystemInv, IInv', TasksAreOf', Onward,
         UNCHANGED <<serverVars, agentVars, up, execVars>>, reported' = reported,
         \A t \in Tasks : pc'[t] = "send" => pc[t] = "send",
         NEW r \in Sessions, handler[r] # "none", NEW f \in Frames, Link!Enqueue(r, f),
         f.type = "execute" /\ Link!Accepts(r) =>
           /\ f.task \in Tasks /\ node[r] = nodeOf[f.task] /\ nodeOf'[f.task] = nodeOf[f.task]
           /\ sent[f.task] = 0 /\ sent'[f.task] > 0 /\ ~Delivered(f.task),
         f.type = "cancel" =>
           /\ f.task \in Tasks /\ node[r] = nodeOf[f.task] /\ pc[f.task] # "unborn"
           /\ f.result = "late" => Delivered(f.task)
  PROVE  SystemInv'
<1>. USE DEF SystemInv
<1>1. down \in [Sessions -> Seq(Frames)] /\ up \in [Sessions -> Seq(Frames)]
  BY DEF SystemTypeOK, Link!TypeOK
<1>2. UNCHANGED <<hub, handler, node, victim, open, conn, serving,
                  sender, exec, over, cancelled, outcome, runs, caught, crashes>>
  BY DEF serverVars, agentVars, execVars
<1>3. \/ down' = down
      \/ /\ down' = [down EXCEPT ![r] = Append(@, f)]
         /\ conn[node[r]] = r /\ Link!Accepts(r)
  BY DEF Link!Enqueue
<1>4. down' \in [Sessions -> Seq(Frames)] /\ \A s \in Sessions : s # r => down'[s] = down[s]
  <2>1. Append(down[r], f) \in Seq(Frames)
    BY <1>1, AppendOf
  <2>. QED BY <1>1, <1>3, <2>1
<1>5. ExecuteIsFirst' /\ CancelIsForNode' /\ OneExecute' /\ LateIsLater'
  <2>1. CASE down' = down
    BY <1>1, <1>2, <2>1, SelfShrunk, DownShrinks, ExecutesShrink
  <2>2. CASE down' = [down EXCEPT ![r] = Append(@, f)] /\ Link!Accepts(r)
    BY <1>2, <2>2, DownGrows
  <2>. QED BY <1>3, <2>1, <2>2
<1>6. AnswersAreTrue'
  BY <1>1, <1>2, SameShrunk, UpShrinks
<1>7. RunsAreRecorded' /\ RunsOnceOnItsNode' /\ CancelCatches'
  BY <1>2, RecordsKept
<1>8. SessionsAreOf' /\ HubKeepsTheLive'
  <2>1. \A t \in Tasks, s \in Sessions : sender[t] = s => handler[s] # "none"
    BY KnownSession
  <2>. QED BY <1>2, <2>1, LinkKept DEF SessionsAreOf
<1>9. SystemTypeOK'
  BY <1>2, <1>4 DEF SystemTypeOK, Link!TypeOK, IInv
<1>10. FreshIsUnknown'
  BY <1>2, <1>4 DEF FreshIsUnknown
<1>11. DownIsHeld'
  BY <1>2, <1>3, <1>4 DEF DownIsHeld
<1>. QED BY <1>5, <1>6, <1>7, <1>8, <1>9, <1>10, <1>11

LEMMA SendKeeps ==
  ASSUME SystemInv, IInv', TasksAreOf', Onward, NEW t \in Tasks, SendToSession(t)
  PROVE  SystemInv'
<1>0. TypeOK BY DEF SystemInv, IInv
<1>1. pc[t] = "send" /\ sent[t] = 0 /\ ~Delivered(t)
  BY DEF SendToSession, SystemInv, IInv, NotSentYet, Delivered, Undelivered
<1>2. sender[t] \in Sessions /\ node[sender[t]] = nodeOf[t] /\ handler[sender[t]] # "none"
  BY <1>1, KnownSession DEF SystemInv, SessionsAreOf
<1>. DEFINE f == Envelope("execute", t, "")
<1>3. f \in Frames /\ f.type = "execute" /\ f.task = t
  BY DEF Envelope, Frames
<1>4. /\ UNCHANGED <<nodeOf, reported>>
      /\ \A u \in Tasks : pc'[u] = "send" => pc[u] = "send"
  BY <1>0 DEF SendToSession, Send, taskVars, TypeOK
<1>5. Link!Accepts(sender[t]) => sent'[t] > 0
  <2>1. Link!Accepts(sender[t]) => sent'[t] = sent[t] + 1
    BY <1>0 DEF SendToSession, Send, TypeOK
  <2>. QED BY <1>1, <2>1
<1>6. Link!Enqueue(sender[t], f) /\ UNCHANGED <<serverVars, agentVars, up, execVars>>
  BY DEF SendToSession
<1>. HIDE DEF f
<1>. QED BY <1>1, <1>2, <1>3, <1>4, <1>5, <1>6, EnqueueKeeps

LEMMA NotifyKeeps ==
  ASSUME SystemInv, IInv', TasksAreOf', Onward, NEW th \in Threads, NotifySession(th)
  PROVE  SystemInv'
<1>0. TypeOK BY DEF SystemInv, IInv
<1>. DEFINE t == slot[th].task
            s == hub[nodeOf[t]]
            f == Envelope("cancel", t, IF pc[t] \in Undelivered THEN "" ELSE "late")
<1>1. slot[th].phase # "idle"
  BY DEF NotifySession, Notify
<1>2. t \in Tasks /\ pc[t] \notin Gone
  BY <1>0, <1>1, BusyThread DEF SystemInv, IInv, SaveInv, Busy, TypeOK
<1>3. nodeOf[t] \in Nodes /\ pc[t] # "unborn"
  BY <1>2 DEF SystemInv, TasksAreOf, Gone
<1>4. UNCHANGED <<pc, reported>> /\ UNCHANGED <<serverVars, agentVars, up, execVars>>
  BY DEF NotifySession, Notify, history
<1>5. sender \in [Tasks -> Sessions \cup {NoSession}] /\ hub \in [Nodes -> Sessions \cup {NoSession}]
  BY DEF SystemInv, SystemTypeOK, Link!TypeOK
<1>6. CASE s # NoSession
  <2>1. s \in Sessions /\ node[s] = nodeOf[t] /\ handler[s] # "none"
    BY <1>3, <1>5, <1>6, KnownSession DEF SystemInv, SessionsAreOf
  <2>2. f \in Frames /\ f.type = "cancel" /\ f.task = t
    BY <1>2 DEF Envelope, Frames
  <2>3. f.result = "late" => Delivered(t)
    BY <1>3 DEF Delivered, Envelope
  <2>4. Link!Enqueue(s, f)
    BY <1>6 DEF NotifySession
  <2>. HIDE DEF f, s, t
  <2>. QED BY <1>3, <1>4, <1>2, <2>1, <2>2, <2>3, <2>4, EnqueueKeeps DEF s
<1>7. CASE s = NoSession
  <2>1. UNCHANGED <<linkVars, execVars, pc, reported>>
    BY <1>4, <1>7 DEF NotifySession, linkVars
  <2>2. \A u \in Tasks, r \in Sessions : sender[u] = r => handler[r] # "none"
    BY KnownSession
  <2>. QED BY <1>5, <2>1, <2>2, QuietStep DEF execVars, SystemInv, SessionsAreOf
<1>. QED BY <1>6, <1>7

\* A read loop takes a frame, and the task table with it.
LEMMA ReceiveKeeps ==
  ASSUME SystemInv, IInv', TasksAreOf', Onward, NEW s \in Sessions, Receive(s)
  PROVE  SystemInv'
<1>. USE DEF SystemInv
<1>0. TypeOK BY DEF IInv
<1>1. down \in [Sessions -> Seq(Frames)] /\ up \in [Sessions -> Seq(Frames)]
  BY DEF SystemTypeOK, Link!TypeOK
<1>2. UNCHANGED <<hub, handler, node, victim, open, conn, serving, down,
                  sender, exec, over, cancelled, outcome, runs, caught, crashes>>
  BY DEF Receive, Link!Receive, Link!serverVars, Link!agentVars, execVars
<1>3. up[s] # <<>> /\ up' = [up EXCEPT ![s] = Tail(@)] /\ handler[s] # "none"
  BY DEF Receive, Link!Receive
<1>4. up' \in [Sessions -> Seq(Frames)] /\ Shrunk(up', up)
  BY <1>1, <1>3, TailOf, TailShrunk
<1>5. /\ \A t \in reported' : t \in reported \/ outcome[t] = "success"
      /\ UNCHANGED pc
  BY ReceivedFrame DEF Receive, OnAck, OnResult, history
<1>6. ExecuteIsFirst' /\ CancelIsForNode' /\ OneExecute' /\ LateIsLater'
  BY <1>1, <1>2, SameShrunk, DownShrinks, ExecutesShrink
<1>7. AnswersAreTrue'
  BY <1>2, <1>4, UpShrinks
<1>8. RunsAreRecorded' /\ RunsOnceOnItsNode' /\ CancelCatches'
  BY <1>2, <1>5, RecordsKept
<1>9. SessionsAreOf' /\ HubKeepsTheLive'
  <2>1. \A t \in Tasks, r \in Sessions : sender[t] = r => handler[r] # "none"
    BY KnownSession
  <2>. QED BY <1>2, <1>5, <2>1, LinkKept DEF SessionsAreOf, serverVars, agentVars
<1>10. SystemTypeOK'
  BY <1>2, <1>4 DEF SystemTypeOK, Link!TypeOK, IInv
<1>11. FreshIsUnknown'
  BY <1>1, <1>2, <1>3 DEF FreshIsUnknown
<1>12. DownIsHeld'
  BY <1>2 DEF DownIsHeld
<1>. QED BY <1>6, <1>7, <1>8, <1>9, <1>10, <1>11, <1>12

\* The CM dies: the sessions end, the agents do not notice yet.
LEMMA RestartKeeps ==
  ASSUME SystemInv, IInv', TasksAreOf', Onward, RestartSystem
  PROVE  SystemInv'
<1>. USE DEF SystemInv
<1>0. TypeOK BY DEF IInv
<1>1. down \in [Sessions -> Seq(Frames)] /\ up \in [Sessions -> Seq(Frames)]
  BY DEF SystemTypeOK, Link!TypeOK
<1>2. /\ UNCHANGED <<node, down, conn, serving, exec, over, cancelled, outcome, runs, caught, crashes, reported>>
      /\ hub' = [n \in Nodes |-> NoSession]
      /\ handler' = [r \in Sessions |-> IF handler[r] = "none" THEN "none" ELSE "ended"]
      /\ open' = [r \in Sessions |-> FALSE]
      /\ victim' = [r \in Sessions |-> NoSession]
      /\ up' = [r \in Sessions |-> <<>>]
      /\ sender' = [t \in Tasks |-> NoSession]
  BY DEF RestartSystem, Link!ServerCrash, Link!agentVars, Restart, history
<1>3. up' \in [Sessions -> Seq(Frames)] /\ Shrunk(up', up)
  <2>1. \A r \in Sessions : up'[r] = <<>>
    BY <1>2
  <2>2. <<>> \in Seq(Frames)
    OBVIOUS
  <2>3. up' \in [Sessions -> Seq(Frames)]
    BY <1>2, <2>2
  <2>. QED BY <1>1, <2>1, <2>3, EmptyShrunk
<1>4. \A t \in Tasks : pc'[t] # "send"
  BY <1>0 DEF RestartSystem, Restart, TypeOK
<1>6. ExecuteIsFirst' /\ CancelIsForNode' /\ OneExecute' /\ LateIsLater'
  BY <1>1, <1>2, SameShrunk, DownShrinks, ExecutesShrink
<1>7. AnswersAreTrue'
  BY <1>2, <1>3, UpShrinks
<1>8. RunsAreRecorded' /\ RunsOnceOnItsNode' /\ CancelCatches'
  BY <1>2, RecordsKept
<1>9. SessionsAreOf'
  BY <1>2, <1>4 DEF SessionsAreOf
<1>10. HubKeepsTheLive'
  BY <1>2 DEF HubKeepsTheLive, Link!HubKeepsTheLive, Link!Live
<1>11. SystemTypeOK'
  BY <1>2, <1>3 DEF SystemTypeOK, Link!TypeOK, Link!HandlerPC, IInv
<1>12. FreshIsUnknown'
  BY <1>2, SystemAssumption DEF FreshIsUnknown
<1>13. DownIsHeld'
  BY <1>2 DEF DownIsHeld
<1>. QED BY <1>6, <1>7, <1>8, <1>9, <1>10, <1>11, <1>12, <1>13

------------------------------------------------------------------------------
(* The steps of the connections.                                           *)

\* What is left to show of a step of the connections.
LEMMA LinkRest ==
  ASSUME SystemInv, IInv', TasksAreOf', Onward, UNCHANGED <<vars, execVars>>,
         Shrunk(down', down), Shrunk(up', up),
         \A s \in Sessions : handler[s] # "none" => node'[s] = node[s],
         Link!TypeOK', FreshIsUnknown', SessionsAreOf', DownIsHeld', HubKeepsTheLive'
  PROVE  SystemInv'
<1>. USE DEF SystemInv
<1>1. UNCHANGED <<reported, sender, exec, over, cancelled, outcome, runs, caught, crashes>>
  BY DEF vars, history, execVars
<1>2. \A s \in Sessions : down[s] # <<>> => node'[s] = node[s]
  BY KnownSession
<1>3. ExecuteIsFirst' /\ CancelIsForNode' /\ OneExecute' /\ LateIsLater'
  BY <1>1, <1>2, DownShrinks, ExecutesShrink
<1>4. AnswersAreTrue'
  BY <1>1, UpShrinks
<1>5. RunsAreRecorded' /\ RunsOnceOnItsNode' /\ CancelCatches'
  BY <1>1, RecordsKept
<1>6. SystemTypeOK'
  BY <1>1 DEF SystemTypeOK, IInv
<1>. QED BY <1>3, <1>4, <1>5, <1>6

LEMMA DialKeeps ==
  ASSUME SystemInv, IInv', TasksAreOf', Onward, UNCHANGED <<vars, execVars>>,
         NEW n \in Nodes, NEW s \in Sessions, Link!Dial(n, s)
  PROVE  SystemInv'
<1>. USE SystemAssumption DEF SystemInv
<1>1. /\ Link!TypeOK
      /\ sender \in [Tasks -> Sessions \cup {NoSession}]
  BY DEF SystemTypeOK
<1>2. /\ conn[n] = NoSession /\ handler[s] = "none"
      /\ handler' = [handler EXCEPT ![s] = "admitted"]
      /\ node' = [node EXCEPT ![s] = n]
      /\ open' = [open EXCEPT ![s] = TRUE]
      /\ conn' = [conn EXCEPT ![n] = s]
      /\ serving' = [serving EXCEPT ![n] = FALSE]
      /\ UNCHANGED <<hub, victim, down, up, sender, over, pc, nodeOf>>
  BY DEF Link!Dial, Link!Goto, execVars, vars, taskVars
<1>3. /\ down[s] = <<>>
      /\ \A m \in Nodes : hub[m] # s /\ conn[m] # s
      /\ \A t \in Tasks : sender[t] # s
  BY <1>2 DEF FreshIsUnknown
<1>4. Shrunk(down', down) /\ Shrunk(up', up)
  BY <1>1, <1>2, SelfShrunk DEF Link!TypeOK
<1>5. \A r \in Sessions : handler[r] # "none" => node'[r] = node[r] /\ handler'[r] = handler[r]
  BY <1>1, <1>2 DEF Link!TypeOK
<1>6. Link!TypeOK'
  BY <1>1, <1>2 DEF Link!TypeOK, Link!HandlerPC
<1>7. FreshIsUnknown'
  BY <1>1, <1>2 DEF FreshIsUnknown, Link!TypeOK
<1>8. SessionsAreOf'
  BY <1>1, <1>2, <1>3 DEF SessionsAreOf, Link!TypeOK
<1>9. DownIsHeld'
  BY <1>1, <1>2, <1>3, <1>5 DEF DownIsHeld, SessionsAreOf, Link!TypeOK
<1>10. HubKeepsTheLive'
  <2>. SUFFICES ASSUME NEW r \in Sessions, Link!Live(r)'
       PROVE  hub'[node'[r]] = r \/ Link!Condemned(r)'
    BY DEF HubKeepsTheLive, Link!HubKeepsTheLive
  <2>1. r # s /\ Link!Live(r) /\ node'[r] = node[r]
    BY <1>1, <1>2 DEF Link!Live, Link!TypeOK
  <2>2. hub[node[r]] = r \/ Link!Condemned(r)
    BY <2>1 DEF HubKeepsTheLive, Link!HubKeepsTheLive
  <2>. QED BY <1>1, <1>2, <1>5, <2>1, <2>2 DEF Link!Condemned
<1>. QED BY <1>4, <1>5, <1>6, <1>7, <1>8, <1>9, <1>10, LinkRest

LEMMA HubAddKeeps ==
  ASSUME SystemInv, IInv', TasksAreOf', Onward, UNCHANGED <<vars, execVars>>,
         NEW s \in Sessions, Link!HubAdd(s)
  PROVE  SystemInv'
<1>. USE SystemAssumption DEF SystemInv
<1>1. Link!TypeOK
  BY DEF SystemTypeOK
<1>2. /\ handler[s] = "admitted"
      /\ handler' = [handler EXCEPT ![s] = "kick"]
      /\ victim' = [victim EXCEPT ![s] = hub[node[s]]]
      /\ hub' = [hub EXCEPT ![node[s]] = s]
      /\ UNCHANGED <<node, open, down, up, conn, serving, sender, over, pc, nodeOf>>
  BY DEF Link!HubAdd, Link!Goto, Link!agentVars, execVars, vars, taskVars
<1>3. node[s] \in Nodes
  BY <1>2 DEF SessionsAreOf
<1>4. Shrunk(down', down) /\ Shrunk(up', up)
  BY <1>1, <1>2, SelfShrunk DEF Link!TypeOK
<1>6. Link!TypeOK'
  BY <1>1, <1>2, <1>3 DEF Link!TypeOK, Link!HandlerPC
<1>7. FreshIsUnknown'
  BY <1>1, <1>2 DEF FreshIsUnknown, Link!TypeOK
<1>8. SessionsAreOf'
  BY <1>1, <1>2, <1>3 DEF SessionsAreOf, Link!TypeOK
<1>9. DownIsHeld'
  BY <1>2 DEF DownIsHeld
<1>10. HubKeepsTheLive'
  <2>. SUFFICES ASSUME NEW r \in Sessions, Link!Live(r)'
       PROVE  hub'[node'[r]] = r \/ Link!Condemned(r)'
    BY DEF HubKeepsTheLive, Link!HubKeepsTheLive
  <2>1. CASE r = s
    BY <1>1, <1>2, <1>3, <2>1 DEF Link!TypeOK
  <2>2. CASE r # s
    <3>1. Link!Live(r)
      BY <1>1, <1>2, <2>2 DEF Link!Live, Link!TypeOK
    <3>2. hub[node[r]] = r \/ Link!Condemned(r)
      BY <3>1 DEF HubKeepsTheLive, Link!HubKeepsTheLive
    <3>3. CASE Link!Condemned(r)
      BY <1>1, <1>2, <3>3 DEF Link!Condemned, Link!TypeOK
    <3>4. CASE hub[node[r]] = r /\ node[r] = node[s]
      BY <1>1, <1>2, <3>4 DEF Link!Condemned, Link!TypeOK
    <3>5. CASE hub[node[r]] = r /\ node[r] # node[s]
      BY <1>1, <1>2, <3>5 DEF Link!TypeOK
    <3>. QED BY <3>2, <3>3, <3>4, <3>5
  <2>. QED BY <2>1, <2>2
<1>. QED BY <1>2, <1>4, <1>6, <1>7, <1>8, <1>9, <1>10, LinkRest

LEMMA KickKeeps ==
  ASSUME SystemInv, IInv', TasksAreOf', Onward, UNCHANGED <<vars, execVars>>,
         NEW s \in Sessions, Link!Kick(s)
  PROVE  SystemInv'
<1>. USE SystemAssumption DEF SystemInv
<1>1. Link!TypeOK
  BY DEF SystemTypeOK
<1>2. /\ handler[s] = "kick"
      /\ handler' = [handler EXCEPT ![s] = "ready"]
      /\ open' = [r \in Sessions |-> open[r] /\ r # victim[s]]
      /\ victim' = [victim EXCEPT ![s] = NoSession]
      /\ UNCHANGED <<hub, node, down, up, conn, serving, sender, over, pc, nodeOf>>
  BY DEF Link!Kick, Link!Goto, Link!agentVars, execVars, vars, taskVars
<1>4. Shrunk(down', down) /\ Shrunk(up', up)
  BY <1>1, <1>2, SelfShrunk DEF Link!TypeOK
<1>6. Link!TypeOK'
  <2>1. open' \in [Sessions -> BOOLEAN]
    BY <1>2
  <2>. QED BY <1>1, <1>2, <2>1 DEF Link!TypeOK, Link!HandlerPC
<1>7. FreshIsUnknown'
  BY <1>1, <1>2 DEF FreshIsUnknown, Link!TypeOK
<1>8. SessionsAreOf'
  BY <1>1, <1>2 DEF SessionsAreOf, Link!TypeOK
<1>9. DownIsHeld'
  BY <1>2 DEF DownIsHeld
<1>10. HubKeepsTheLive'
  <2>. SUFFICES ASSUME NEW r \in Sessions, Link!Live(r)'
       PROVE  hub'[node'[r]] = r \/ Link!Condemned(r)'
    BY DEF HubKeepsTheLive, Link!HubKeepsTheLive
  <2>1. Link!Live(r) /\ r # victim[s]
    BY <1>1, <1>2 DEF Link!Live, Link!TypeOK
  <2>2. hub[node[r]] = r \/ Link!Condemned(r)
    BY <2>1 DEF HubKeepsTheLive, Link!HubKeepsTheLive
  <2>3. CASE Link!Condemned(r)
    <3>1. PICK q \in Sessions : handler[q] = "kick" /\ victim[q] = r
      BY <2>3 DEF Link!Condemned
    <3>2. q # s BY <3>1, <2>1
    <3>3. handler'[q] = "kick" /\ victim'[q] = r
      BY <1>1, <1>2, <3>1, <3>2 DEF Link!TypeOK
    <3>. QED BY <3>3 DEF Link!Condemned
  <2>. QED BY <1>2, <2>2, <2>3
<1>. QED BY <1>2, <1>4, <1>6, <1>7, <1>8, <1>9, <1>10, LinkRest

\* No session comes to life, and no kick is over.
LEMMA LiveKept ==
  ASSUME HubKeepsTheLive,
         \A r \in Sessions : Link!Live(r)' =>
           /\ Link!Live(r) /\ node'[r] = node[r]
           /\ hub[node[r]] = r => hub'[node[r]] = r,
         \A q \in Sessions : handler[q] = "kick" => handler'[q] = "kick" /\ victim'[q] = victim[q]
  PROVE  HubKeepsTheLive'
<1>. SUFFICES ASSUME NEW r \in Sessions, Link!Live(r)'
     PROVE  hub'[node'[r]] = r \/ Link!Condemned(r)'
  BY DEF HubKeepsTheLive, Link!HubKeepsTheLive
<1>1. hub[node[r]] = r \/ Link!Condemned(r)
  BY DEF HubKeepsTheLive, Link!HubKeepsTheLive
<1>. QED BY <1>1 DEF Link!Condemned

LEMMA SendReadyKeeps ==
  ASSUME SystemInv, IInv', TasksAreOf', Onward, UNCHANGED <<vars, execVars>>,
         NEW s \in Sessions, Link!SendReady(s)
  PROVE  SystemInv'
<1>. USE SystemAssumption DEF SystemInv
<1>1. Link!TypeOK
  BY DEF SystemTypeOK
<1>2. /\ handler[s] = "ready"
      /\ handler' = [handler EXCEPT ![s] = "serving"]
      /\ Link!Enqueue(s, Ready)
      /\ UNCHANGED <<hub, node, victim, open, up, conn, serving>>
      /\ UNCHANGED <<sender, exec, over, cancelled, outcome, runs, caught, crashes, pc, nodeOf, reported, sent>>
  BY DEF Link!SendReady, Link!Goto, Link!agentVars, execVars, vars, taskVars, history
<1>3. Ready \in Frames /\ Ready.type = "ready"
  BY DEF Ready, Envelope, Frames
<1>4. \/ down' = down
      \/ /\ down' = [down EXCEPT ![s] = Append(@, Ready)]
         /\ conn[node[s]] = s
  BY <1>2 DEF Link!Enqueue
<1>5. down' \in [Sessions -> Seq(Frames)] /\ \A r \in Sessions : r # s => down'[r] = down[r]
  <2>1. down \in [Sessions -> Seq(Frames)]
    BY <1>1 DEF Link!TypeOK
  <2>2. Append(down[s], Ready) \in Seq(Frames)
    BY <1>3, <2>1, AppendOf
  <2>. QED BY <1>4, <2>1, <2>2
<1>6. Link!TypeOK'
  BY <1>1, <1>2, <1>5 DEF Link!TypeOK, Link!HandlerPC
<1>7. FreshIsUnknown'
  BY <1>1, <1>2, <1>5 DEF FreshIsUnknown, Link!TypeOK
<1>8. SessionsAreOf'
  BY <1>1, <1>2 DEF SessionsAreOf, Link!TypeOK
<1>9. DownIsHeld'
  BY <1>2, <1>4, <1>5 DEF DownIsHeld
<1>10. HubKeepsTheLive'
  BY <1>1, <1>2, LiveKept DEF Link!Live, Link!TypeOK
<1>11. ExecuteIsFirst' /\ CancelIsForNode' /\ OneExecute' /\ LateIsLater'
  <2>1. CASE down' = down
    BY <1>1, <1>2, <2>1, SelfShrunk, DownShrinks, ExecutesShrink DEF Link!TypeOK
  <2>2. CASE down' = [down EXCEPT ![s] = Append(@, Ready)]
    BY <1>2, <1>3, <2>2, DownGrows
  <2>. QED BY <1>4, <2>1, <2>2
<1>12. AnswersAreTrue'
  BY <1>1, <1>2, SameShrunk, UpShrinks DEF Link!TypeOK
<1>13. RunsAreRecorded' /\ RunsOnceOnItsNode' /\ CancelCatches'
  BY <1>2, RecordsKept
<1>14. SystemTypeOK'
  BY <1>2, <1>6 DEF SystemTypeOK, IInv
<1>. QED BY <1>7, <1>8, <1>9, <1>10, <1>11, <1>12, <1>13, <1>14

\* The writer gives up, the reader ends, the session leaves the hub, it ends.
LEMMA EndingKeeps ==
  ASSUME SystemInv, IInv', TasksAreOf', Onward, UNCHANGED <<vars, execVars>>,
         NEW s \in Sessions,
         Link!PumpFails(s) \/ Link!ReadEnds(s) \/ Link!HubRemove(s) \/ Link!SessionEnd(s)
  PROVE  SystemInv'
<1>. USE SystemAssumption DEF SystemInv
<1>1. Link!TypeOK
  BY DEF SystemTypeOK
<1>2. /\ handler[s] # "none" /\ handler[s] # "kick"
      /\ \E to \in {handler[s], "leave", "ending", "ended"} : handler' = [handler EXCEPT ![s] = to]
      /\ handler'[s] \in {"serving", "leave", "ending", "ended"}
      /\ open' = open \/ open' = [open EXCEPT ![s] = FALSE]
      /\ hub' = hub \/ (handler'[s] = "ending"
                        /\ hub' = [n \in Nodes |-> IF n = node[s] /\ hub[n] = s THEN NoSession ELSE hub[n]])
      /\ up' = up \/ up' = [up EXCEPT ![s] = <<>>]
      /\ UNCHANGED <<node, victim, down, conn, serving, sender, over, pc, nodeOf>>
  <2>1. UNCHANGED <<sender, over, pc, nodeOf>>
    BY DEF execVars, vars, taskVars
  <2>2. CASE Link!PumpFails(s)
    BY <1>1, <2>1, <2>2 DEF Link!PumpFails, Link!agentVars, Link!TypeOK
  <2>3. CASE Link!ReadEnds(s)
    BY <1>1, <2>1, <2>3 DEF Link!ReadEnds, Link!Goto, Link!agentVars, Link!TypeOK
  <2>4. CASE Link!HubRemove(s)
    BY <1>1, <2>1, <2>4 DEF Link!HubRemove, Link!Goto, Link!agentVars, Link!TypeOK
  <2>5. CASE Link!SessionEnd(s)
    BY <1>1, <2>1, <2>5 DEF Link!SessionEnd, Link!Goto, Link!agentVars, Link!TypeOK
  <2>. QED BY <2>2, <2>3, <2>4, <2>5
<1>3. /\ handler' \in [Sessions -> Link!HandlerPC]
      /\ \A r \in Sessions : r # s => handler'[r] = handler[r]
  BY <1>1, <1>2 DEF Link!TypeOK, Link!HandlerPC
<1>4. \A r \in Sessions : up'[r] = up[r] \/ up'[r] = <<>>
  BY <1>1, <1>2 DEF Link!TypeOK
<1>5. Shrunk(down', down) /\ Shrunk(up', up)
  BY <1>1, <1>2, <1>4, SelfShrunk, EmptyShrunk DEF Link!TypeOK
<1>6. Link!TypeOK'
  <2>1. <<>> \in Seq(Frames) OBVIOUS
  <2>2. up' \in [Sessions -> Seq(Frames)]
    BY <1>1, <1>2, <2>1 DEF Link!TypeOK
  <2>3. hub' \in [Nodes -> Sessions \cup {NoSession}]
    BY <1>1, <1>2 DEF Link!TypeOK
  <2>4. open' \in [Sessions -> BOOLEAN]
    BY <1>1, <1>2 DEF Link!TypeOK
  <2>. QED BY <1>1, <1>2, <1>3, <2>2, <2>3, <2>4 DEF Link!TypeOK
<1>7. \A n \in Nodes : hub'[n] = hub[n] \/ hub'[n] = NoSession
  BY <1>2
<1>8. FreshIsUnknown'
  BY <1>2, <1>3, <1>4, <1>7 DEF FreshIsUnknown
<1>9. SessionsAreOf'
  BY <1>2, <1>3, <1>7 DEF SessionsAreOf
<1>10. DownIsHeld'
  BY <1>2 DEF DownIsHeld
<1>11. HubKeepsTheLive'
  <2>1. ASSUME NEW r \in Sessions, Link!Live(r)'
        PROVE  Link!Live(r) /\ (hub[node[r]] = r => hub'[node[r]] = r)
    <3>1. Link!Live(r)
      BY <1>1, <1>2, <1>3, <2>1 DEF Link!Live, Link!TypeOK
    <3>2. node[r] \in Nodes
      BY <3>1 DEF Link!Live, SessionsAreOf
    <3>. QED BY <1>2, <2>1, <3>1, <3>2 DEF Link!Live
  <2>. QED BY <1>2, <1>3, <2>1, LiveKept
<1>. QED BY <1>2, <1>5, <1>6, <1>8, <1>9, <1>10, <1>11, LinkRest

LEMMA HandshakeKeeps ==
  ASSUME SystemInv, IInv', TasksAreOf', Onward, UNCHANGED <<vars, execVars>>,
         NEW n \in Nodes, Link!Handshake(n)
  PROVE  SystemInv'
<1>. USE SystemAssumption DEF SystemInv
<1>1. Link!TypeOK
  BY DEF SystemTypeOK
<1>2. /\ conn[n] # NoSession /\ down[conn[n]] # <<>>
      /\ down' = [down EXCEPT ![conn[n]] = Tail(@)]
      /\ serving' = [serving EXCEPT ![n] = TRUE]
      /\ UNCHANGED <<hub, handler, node, victim, open, up, conn, sender, over, pc, nodeOf>>
  BY DEF Link!Handshake, Link!serverVars, execVars, vars, taskVars
<1>3. conn[n] \in Sessions /\ Tail(down[conn[n]]) \in Seq(Frames)
  BY <1>1, <1>2, TailOf DEF Link!TypeOK
<1>4. Shrunk(down', down) /\ Shrunk(up', up)
  BY <1>1, <1>2, <1>3, TailShrunk, SelfShrunk DEF Link!TypeOK
<1>5. Link!TypeOK'
  BY <1>1, <1>2, <1>3 DEF Link!TypeOK
<1>6. FreshIsUnknown'
  BY <1>1, <1>2, <1>3 DEF FreshIsUnknown, Link!TypeOK
<1>7. SessionsAreOf'
  BY <1>2 DEF SessionsAreOf
<1>8. DownIsHeld'
  BY <1>1, <1>2, <1>3 DEF DownIsHeld, Link!TypeOK
<1>9. HubKeepsTheLive'
  BY <1>2, LiveKept DEF Link!Live
<1>. QED BY <1>2, <1>4, <1>5, <1>6, <1>7, <1>8, <1>9, LinkRest

\* The connection of an agent ends.
LEMMA HangUpLink ==
  ASSUME SystemInv, UNCHANGED <<sender, over, pc, nodeOf>>, NEW n \in Nodes, Link!HangUp(n)
  PROVE  /\ Link!TypeOK' /\ FreshIsUnknown' /\ SessionsAreOf' /\ DownIsHeld' /\ HubKeepsTheLive'
         /\ Shrunk(down', down) /\ Shrunk(up', up) /\ UNCHANGED <<node, up>>
<1>. USE SystemAssumption DEF SystemInv
<1>1. Link!TypeOK
  BY DEF SystemTypeOK
<1>2. /\ conn[n] # NoSession
      /\ conn' = [conn EXCEPT ![n] = NoSession]
      /\ serving' = [serving EXCEPT ![n] = FALSE]
      /\ down' = [down EXCEPT ![conn[n]] = <<>>]
      /\ UNCHANGED <<hub, handler, node, victim, open, up>>
  BY DEF Link!HangUp, Link!serverVars
<1>3. conn[n] \in Sessions /\ <<>> \in Seq(Frames)
  BY <1>1, <1>2 DEF Link!TypeOK
<1>4. Shrunk(down', down) /\ Shrunk(up', up)
  <2>1. \A r \in Sessions : down'[r] = down[r] \/ down'[r] = <<>>
    BY <1>1, <1>2 DEF Link!TypeOK
  <2>. QED BY <1>1, <1>2, <2>1, EmptyShrunk, SelfShrunk DEF Link!TypeOK
<1>5. Link!TypeOK'
  BY <1>1, <1>2, <1>3 DEF Link!TypeOK
<1>6. FreshIsUnknown'
  BY <1>1, <1>2, <1>3 DEF FreshIsUnknown, Link!TypeOK
<1>7. SessionsAreOf'
  BY <1>1, <1>2 DEF SessionsAreOf, Link!TypeOK
<1>8. DownIsHeld'
  <2>. SUFFICES ASSUME NEW r \in Sessions, down'[r] # <<>> PROVE conn'[node[r]] = r
    BY <1>2 DEF DownIsHeld
  <2>1. r # conn[n] /\ down[r] # <<>>
    BY <1>1, <1>2, <1>3 DEF Link!TypeOK
  <2>2. conn[node[r]] = r /\ node[r] \in Nodes
    BY <2>1, KnownSession DEF DownIsHeld, SessionsAreOf
  <2>. QED BY <1>1, <1>2, <2>1, <2>2 DEF Link!TypeOK
<1>9. HubKeepsTheLive'
  BY <1>2, LiveKept DEF Link!Live
<1>. QED BY <1>2, <1>4, <1>5, <1>6, <1>7, <1>8, <1>9

LEMMA HangUpKeeps ==
  ASSUME SystemInv, IInv', TasksAreOf', Onward, UNCHANGED <<vars, execVars>>,
         NEW n \in Nodes, Link!HangUp(n)
  PROVE  SystemInv'
<1>1. UNCHANGED <<sender, over, pc, nodeOf>>
  BY DEF execVars, vars, taskVars
<1>. QED BY <1>1, HangUpLink, LinkRest

LEMMA LinkStepKeeps ==
  ASSUME SystemInv, IInv', TasksAreOf', Onward, UNCHANGED <<vars, execVars>>, Link!LinkStep
  PROVE  SystemInv'
  BY LinkCases, DialKeeps, HubAddKeeps, KickKeeps, SendReadyKeeps, EndingKeeps,
     HandshakeKeeps, HangUpKeeps

------------------------------------------------------------------------------
(* The steps of the agents.                                                *)

\* What an agent takes from its connection, and writes to it.
LEMMA AgentQueues ==
  ASSUME SystemInv, NEW n \in Nodes, Link!AgentReceive(n)
  PROVE  /\ conn[n] \in Sessions /\ node[conn[n]] = n /\ handler[conn[n]] # "none"
         /\ down[conn[n]] # <<>> /\ 1 \in DOMAIN down[conn[n]]
         /\ Head(down[conn[n]]) = down[conn[n]][1]
         /\ down' = [down EXCEPT ![conn[n]] = Tail(@)]
         /\ down' \in [Sessions -> Seq(Frames)] /\ Shrunk(down', down)
         /\ UNCHANGED <<hub, handler, node, victim, open, conn, serving>>
         /\ FreshIsUnknown /\ SessionsAreOf /\ DownIsHeld'
<1>. USE DEF SystemInv
<1>1. down \in [Sessions -> Seq(Frames)] /\ conn \in [Nodes -> Sessions \cup {NoSession}]
  BY DEF SystemTypeOK, Link!TypeOK
<1>2. /\ conn[n] # NoSession /\ down[conn[n]] # <<>>
      /\ down' = [down EXCEPT ![conn[n]] = Tail(@)]
      /\ UNCHANGED <<hub, handler, node, victim, open, conn, serving>>
  BY DEF Link!AgentReceive, Link!serverVars, Link!agentVars
<1>3. conn[n] \in Sessions
  BY <1>1, <1>2
<1>4. /\ Tail(down[conn[n]]) \in Seq(Frames) /\ 1 \in DOMAIN down[conn[n]]
      /\ Head(down[conn[n]]) = down[conn[n]][1]
  BY <1>1, <1>2, <1>3, TailOf
<1>5. Shrunk(down', down)
  BY <1>1, <1>2, <1>3, TailShrunk
<1>6. DownIsHeld'
  BY <1>1, <1>2, <1>3 DEF DownIsHeld
<1>. QED BY <1>1, <1>2, <1>3, <1>4, <1>5, <1>6, KnownSession DEF SessionsAreOf

\* A write of an agent adds a true answer to a queue, or is lost.
LEMMA AgentWriteKeeps ==
  ASSUME SystemInv, Onward,
         \A t \in Tasks : outcome[t] # "none" => outcome'[t] = outcome[t],
         NEW n, NEW s \in Sessions, NEW f \in Frames, Link!AgentWrite(n, s, f),
         f.type \in {"ack", "result"} /\ f.task \in Tasks /\ sent'[f.task] > 0,
         f.type = "result" => f.result \in Results /\ outcome'[f.task] = f.result
  PROVE  /\ AnswersAreTrue' /\ up' \in [Sessions -> Seq(Frames)]
         /\ \A r \in Sessions : r # s => up'[r] = up[r]
<1>1. up \in [Sessions -> Seq(Frames)]
  BY DEF SystemInv, SystemTypeOK, Link!TypeOK
<1>2. CASE up' = [up EXCEPT ![s] = Append(@, f)]
  <2>1. Append(up[s], f) \in Seq(Frames)
    BY <1>1, AppendOf
  <2>. QED BY <1>1, <1>2, <2>1, UpGrows
<1>3. CASE up' = up
  BY <1>1, <1>3, SelfShrunk, UpShrinks
<1>. QED BY <1>2, <1>3 DEF Link!AgentWrite

\* The task table stands still while an agent is at work.
LEMMA StillOnward ==
  ASSUME UNCHANGED vars
  PROVE  Onward /\ UNCHANGED <<pc, nodeOf, sent, reported>>
  BY DEF vars, taskVars, history, Onward, Delivered

\* The queues when the first frame of one is taken.
LEMMA TailFrames ==
  ASSUME NEW q \in [Sessions -> Seq(Frames)], NEW s \in Sessions, q[s] # <<>>,
         NEW new, new = [q EXCEPT ![s] = Tail(@)]
  PROVE  /\ \A i \in DOMAIN new[s] : i \in Nat /\ i + 1 # 1 /\ i + 1 \in DOMAIN q[s] /\ new[s][i] = q[s][i + 1]
         /\ \A r \in Sessions : r # s => new[r] = q[r]
<1>1. q[s] \in Seq(Frames) /\ new[s] = Tail(q[s])
  OBVIOUS
<1>2. \A i \in DOMAIN new[s] : i \in Nat /\ i # 0 /\ i + 1 \in DOMAIN q[s] /\ new[s][i] = q[s][i + 1]
  BY <1>1, TailOf
<1>3. \A i \in Nat : i # 0 => i + 1 # 1
  OBVIOUS
<1>. QED BY <1>2, <1>3

\* The execute that is taken was the only one of its task.
LEMMA ExecutesTail ==
  ASSUME down \in [Sessions -> Seq(Frames)], ExecuteIsFirst, OneExecute,
         UNCHANGED <<node, nodeOf, sent, caught>>,
         NEW s \in Sessions, down[s] # <<>>, down' = [down EXCEPT ![s] = Tail(@)],
         1 \in DOMAIN down[s], down[s][1].type = "execute",
         \A u \in Tasks : u # down[s][1].task => runs'[u] = runs[u]
  PROVE  ExecuteIsFirst'
<1>. SUFFICES ASSUME NEW r \in Sessions, NEW i \in DOMAIN down'[r], down'[r][i].type = "execute"
     PROVE  LET g == down'[r][i] IN
            /\ g.task \in Tasks /\ node[r] = nodeOf[g.task]
            /\ sent[g.task] > 0 /\ runs'[g.task] = 0 /\ g.task \notin caught
  BY DEF ExecuteIsFirst
<1>1. /\ \A j \in DOMAIN down'[s] : j \in Nat /\ j + 1 # 1 /\ j + 1 \in DOMAIN down[s] /\ down'[s][j] = down[s][j + 1]
      /\ \A q \in Sessions : q # s => down'[q] = down[q]
  BY TailFrames
<1>2. \E j \in DOMAIN down[r] : down'[r][i] = down[r][j] /\ (r # s \/ j # 1)
  BY <1>1
<1>3. PICK j \in DOMAIN down[r] : down'[r][i] = down[r][j] /\ (r # s \/ j # 1)
  BY <1>2
<1>4. down[r][j].task # down[s][1].task
  BY <1>3 DEF OneExecute
<1>. QED BY <1>3, <1>4 DEF ExecuteIsFirst

\* The sessions that have not been dialled, when only s is touched.
LEMMA FreshStays ==
  ASSUME FreshIsUnknown, NEW s \in Sessions, handler[s] # "none",
         UNCHANGED <<hub, handler, conn, sender>>,
         \A r \in Sessions : r # s => down'[r] = down[r] /\ up'[r] = up[r],
         \A u \in Tasks : over'[u] = over[u] \/ over'[u] = s
  PROVE  FreshIsUnknown'
  BY DEF FreshIsUnknown

\* The agent of n runs task t, whose execute was first in its queue.
LEMMA ExecuteOf ==
  ASSUME SystemInv, IInv', TasksAreOf', UNCHANGED vars,
         NEW n \in Nodes, NEW s \in Sessions, NEW t \in Tasks,
         conn[n] = s, node[s] = n, handler[s] # "none",
         1 \in DOMAIN down[s], down[s][1].type = "execute", down[s][1].task = t,
         down' = [down EXCEPT ![s] = Tail(@)], down[s] # <<>>,
         UNCHANGED <<hub, handler, node, victim, open, conn, serving>>, DownIsHeld',
         NEW f \in Frames, f.type = "ack", f.task = t, Link!AgentWrite(n, s, f),
         exec' = [exec EXCEPT ![t] = "running"],
         over' = [over EXCEPT ![t] = s],
         cancelled' = cancelled \ {t},
         runs' \in [Tasks -> Nat], runs'[t] = runs[t] + 1,
         \A u \in Tasks : u # t => runs'[u] = runs[u],
         UNCHANGED <<sender, outcome, caught, crashes>>
  PROVE  SystemInv'
<1>0. /\ SystemTypeOK /\ ExecuteIsFirst /\ OneExecute /\ RunsAreRecorded /\ RunsOnceOnItsNode
      /\ CancelCatches /\ FreshIsUnknown /\ SessionsAreOf /\ HubKeepsTheLive
  BY DEF SystemInv
<1>1. Onward /\ UNCHANGED <<pc, nodeOf, sent, reported>>
  BY StillOnward
<1>2. /\ down \in [Sessions -> Seq(Frames)]
      /\ exec \in [Tasks -> Execution]
      /\ over \in [Tasks -> Sessions \cup {NoSession}]
      /\ runs \in [Tasks -> Nat]
      /\ outcome \in [Tasks -> {"none"} \cup Results]
  BY <1>0 DEF SystemTypeOK, Link!TypeOK
<1>3. /\ t \in Tasks /\ node[s] = nodeOf[t] /\ sent[t] > 0 /\ runs[t] = 0 /\ t \notin caught
      /\ s # NoSession
  BY <1>0, SystemAssumption DEF ExecuteIsFirst
<1>4. Tail(down[s]) \in Seq(Frames) /\ down' \in [Sessions -> Seq(Frames)] /\ Shrunk(down', down)
  BY <1>2, TailOf, TailShrunk
<1>6. /\ AnswersAreTrue' /\ up' \in [Sessions -> Seq(Frames)]
      /\ \A r \in Sessions : r # s => up'[r] = up[r]
  BY <1>1, <1>3, AgentWriteKeeps
<1>7. CancelIsForNode' /\ OneExecute' /\ LateIsLater'
  BY <1>1, <1>4, DownShrinks
<1>8. \A u \in Tasks : u # t =>
        exec'[u] = exec[u] /\ over'[u] = over[u] /\ runs'[u] = runs[u] /\ (u \in cancelled' <=> u \in cancelled)
  BY <1>2
<1>9. ExecuteIsFirst'
  BY <1>0, <1>1, <1>2, <1>8, ExecutesTail
<1>10. exec'[t] = "running" /\ over'[t] = s /\ runs'[t] = 1
  BY <1>2, <1>3
<1>11. outcome[t] = "none" /\ t \notin reported
  BY <1>0, <1>3 DEF RunsAreRecorded
<1>12. RunsAreRecorded'
  BY <1>0, <1>1, <1>3, <1>8, <1>10, <1>11 DEF RunsAreRecorded, Delivered
<1>13. RunsOnceOnItsNode'
  BY <1>0, <1>1, <1>3, <1>8, <1>10 DEF RunsOnceOnItsNode
<1>14. CancelCatches'
  BY <1>0, <1>3, <1>8 DEF CancelCatches
<1>15. SystemTypeOK'
  <2>1. Link!TypeOK'
    BY <1>0, <1>4, <1>6 DEF SystemTypeOK, Link!TypeOK
  <2>2. runs' \in [Tasks -> Nat] /\ exec' \in [Tasks -> Execution] /\ over' \in [Tasks -> Sessions \cup {NoSession}]
    BY <1>2, <1>3 DEF Execution
  <2>3. cancelled' \in SUBSET Tasks
    BY <1>0 DEF SystemTypeOK
  <2>. QED BY <1>0, <2>1, <2>2, <2>3 DEF SystemTypeOK, IInv
<1>16. FreshIsUnknown'
  <2>1. \A r \in Sessions : r # s => down'[r] = down[r]
    BY <1>2
  <2>. QED BY <1>0, <1>6, <1>8, <1>10, <2>1, FreshStays
<1>17. SessionsAreOf'
  BY <1>0, <1>1 DEF SessionsAreOf
<1>18. HubKeepsTheLive'
  BY <1>0, LiveKept DEF Link!Live
<1>. QED BY <1>6, <1>7, <1>9, <1>12, <1>13, <1>14, <1>15, <1>16, <1>17, <1>18 DEF SystemInv

LEMMA ExecuteKeeps ==
  ASSUME SystemInv, IInv', TasksAreOf', NEW n \in Nodes, AgentExecute(n)
  PROVE  SystemInv'
<1>. DEFINE s == conn[n]
            f == Head(down[s])
            t == f.task
            a == Envelope("ack", t, "")
<1>1. /\ s \in Sessions /\ node[s] = n /\ handler[s] # "none"
      /\ down[s] # <<>> /\ 1 \in DOMAIN down[s] /\ f = down[s][1]
      /\ down' = [down EXCEPT ![s] = Tail(@)]
      /\ UNCHANGED <<hub, handler, node, victim, open, conn, serving>> /\ DownIsHeld'
  BY AgentQueues DEF AgentExecute
<1>2. /\ f.type = "execute"
      /\ Link!AgentWrite(n, s, a)
      /\ exec' = [exec EXCEPT ![t] = "running"]
      /\ over' = [over EXCEPT ![t] = s]
      /\ cancelled' = cancelled \ {t}
      /\ runs' = [runs EXCEPT ![t] = @ + 1]
      /\ UNCHANGED <<vars, sender, outcome, caught, crashes>>
  BY DEF AgentExecute
<1>. HIDE DEF s, f, t, a
<1>3. t \in Tasks
  BY <1>1, <1>2 DEF SystemInv, ExecuteIsFirst, t
<1>4. runs \in [Tasks -> Nat]
  BY DEF SystemInv, SystemTypeOK
<1>5. runs' \in [Tasks -> Nat] /\ runs'[t] = runs[t] + 1 /\ \A u \in Tasks : u # t => runs'[u] = runs[u]
  BY <1>2, <1>3, <1>4
<1>6. conn[n] = s /\ down[s][1].type = "execute" /\ down[s][1].task = t
  BY <1>1, <1>2 DEF s, t
<1>7. a \in Frames /\ a.type = "ack" /\ a.task = t
  BY <1>3 DEF a, Envelope, Frames
<1>. QED BY <1>1, <1>2, <1>3, <1>5, <1>6, <1>7, ExecuteOf

\* The agent of n cancels task t, whose cancel was first in its queue.
LEMMA CancelOf ==
  ASSUME SystemInv, IInv', TasksAreOf', UNCHANGED vars,
         NEW n \in Nodes, NEW s \in Sessions, NEW t \in Tasks,
         conn[n] = s, node[s] = n, handler[s] # "none",
         1 \in DOMAIN down[s], down[s][1].type = "cancel", down[s][1].task = t,
         down' = [down EXCEPT ![s] = Tail(@)], down[s] # <<>>,
         UNCHANGED <<hub, handler, node, victim, open, conn, serving, up>>, DownIsHeld',
         cancelled' = IF exec[t] = "running" THEN cancelled \cup {t} ELSE cancelled,
         caught' = IF down[s][1].result = "late" THEN caught \cup {t} ELSE caught,
         UNCHANGED <<sender, exec, over, outcome, runs, crashes>>
  PROVE  SystemInv'
<1>0. /\ SystemTypeOK /\ ExecuteIsFirst /\ CancelIsForNode /\ LateIsLater /\ RunsAreRecorded
      /\ RunsOnceOnItsNode /\ CancelCatches /\ FreshIsUnknown /\ SessionsAreOf /\ HubKeepsTheLive
      /\ DownIsHeld
  BY DEF SystemInv
<1>1. Onward /\ UNCHANGED <<pc, nodeOf, sent, reported>>
  BY StillOnward
<1>2. /\ down \in [Sessions -> Seq(Frames)] /\ up \in [Sessions -> Seq(Frames)]
      /\ runs \in [Tasks -> Nat]
      /\ over \in [Tasks -> Sessions \cup {NoSession}]
  BY <1>0 DEF SystemTypeOK, Link!TypeOK
<1>3. /\ t \in Tasks /\ node[s] = nodeOf[t]
      /\ down[s][1].result = "late" => Delivered(t)
  BY <1>0 DEF CancelIsForNode
<1>4. Tail(down[s]) \in Seq(Frames) /\ down' \in [Sessions -> Seq(Frames)] /\ Shrunk(down', down)
  BY <1>2, TailOf, TailShrunk
<1>5. AnswersAreTrue'
  BY <1>1, <1>2, SelfShrunk, UpShrinks
<1>6. CancelIsForNode' /\ OneExecute' /\ LateIsLater'
  BY <1>1, <1>4, DownShrinks
<1>7. ExecuteIsFirst'
  <2>. SUFFICES ASSUME NEW r \in Sessions, NEW i \in DOMAIN down'[r], down'[r][i].type = "execute"
       PROVE  LET g == down'[r][i] IN
              /\ g.task \in Tasks /\ node'[r] = nodeOf'[g.task]
              /\ sent'[g.task] > 0 /\ runs'[g.task] = 0 /\ g.task \notin caught'
    BY DEF ExecuteIsFirst
  <2>1. CASE r = s
    <3>1. down[s] \in Seq(Frames) /\ down'[s] = Tail(down[s])
      BY <1>2
    <3>2. i \in Nat /\ i + 1 \in DOMAIN down[s] /\ down'[s][i] = down[s][i + 1]
      BY <2>1, <3>1, TailOf
    <3>3. ~(i + 1 < 1)
      BY <3>2
    <3>4. down'[r][i].task = t => down[s][1].result # "late"
      BY <1>0, <2>1, <3>2, <3>3 DEF LateIsLater
    <3>. QED BY <1>0, <1>1, <2>1, <3>2, <3>4 DEF ExecuteIsFirst
  <2>2. CASE r # s
    <3>1. down'[r] = down[r] /\ down[r] # <<>>
      BY <1>2, <2>2
    <3>2. conn[node[r]] = r
      BY <1>0, <3>1 DEF DownIsHeld
    <3>3. down'[r][i].task # t
      BY <1>0, <1>3, <2>2, <3>1, <3>2 DEF ExecuteIsFirst
    <3>. QED BY <1>0, <1>1, <3>1, <3>3 DEF ExecuteIsFirst
  <2>. QED BY <2>1, <2>2
<1>8. RunsAreRecorded'
  BY <1>0, <1>1, <1>3 DEF RunsAreRecorded, Delivered
<1>9. RunsOnceOnItsNode'
  BY <1>0, <1>1 DEF RunsOnceOnItsNode
<1>10. CancelCatches'
  BY <1>0 DEF CancelCatches
<1>11. SystemTypeOK'
  <2>1. Link!TypeOK'
    BY <1>0, <1>4 DEF SystemTypeOK, Link!TypeOK
  <2>2. cancelled' \in SUBSET Tasks /\ caught' \in SUBSET Tasks
    BY <1>0, <1>3 DEF SystemTypeOK
  <2>. QED BY <1>0, <2>1, <2>2 DEF SystemTypeOK, IInv
<1>12. FreshIsUnknown'
  <2>1. \A r \in Sessions : r # s => down'[r] = down[r]
    BY <1>2
  <2>. QED BY <1>0, <2>1 DEF FreshIsUnknown
<1>13. SessionsAreOf'
  BY <1>0, <1>1 DEF SessionsAreOf
<1>14. HubKeepsTheLive'
  BY <1>0, LiveKept DEF Link!Live
<1>. QED BY <1>5, <1>6, <1>7, <1>8, <1>9, <1>10, <1>11, <1>12, <1>13, <1>14 DEF SystemInv

LEMMA CancelKeeps ==
  ASSUME SystemInv, IInv', TasksAreOf', NEW n \in Nodes, AgentCancel(n)
  PROVE  SystemInv'
<1>. DEFINE s == conn[n]
            f == Head(down[s])
            t == f.task
<1>1. /\ s \in Sessions /\ node[s] = n /\ handler[s] # "none"
      /\ down[s] # <<>> /\ 1 \in DOMAIN down[s] /\ f = down[s][1]
      /\ down' = [down EXCEPT ![s] = Tail(@)]
      /\ UNCHANGED <<hub, handler, node, victim, open, conn, serving>> /\ DownIsHeld'
  BY AgentQueues DEF AgentCancel
<1>2. /\ f.type = "cancel"
      /\ cancelled' = IF exec[t] = "running" THEN cancelled \cup {t} ELSE cancelled
      /\ caught' = IF f.result = "late" THEN caught \cup {t} ELSE caught
      /\ UNCHANGED <<vars, up, sender, exec, over, outcome, runs, crashes>>
  BY DEF AgentCancel
<1>. HIDE DEF s, f, t
<1>3. t \in Tasks
  BY <1>1, <1>2 DEF SystemInv, CancelIsForNode, t
<1>6. conn[n] = s /\ down[s][1].type = "cancel" /\ down[s][1].task = t
  BY <1>1, <1>2 DEF s, t
<1>. QED BY <1>1, <1>2, <1>3, <1>6, CancelOf

\* An execution ends and answers on its connection, if that still stands.
LEMMA FinishKeeps ==
  ASSUME SystemInv, IInv', TasksAreOf', NEW t \in Tasks, NEW r \in Results, AgentFinish(t, r)
  PROVE  SystemInv'
<1>0. /\ SystemTypeOK /\ RunsAreRecorded /\ RunsOnceOnItsNode /\ CancelCatches
      /\ FreshIsUnknown /\ SessionsAreOf /\ HubKeepsTheLive /\ DownIsHeld
  BY DEF SystemInv
<1>. DEFINE s == over[t]
<1>1. Onward /\ UNCHANGED <<pc, nodeOf, sent, reported>>
  BY StillOnward DEF AgentFinish
<1>2. /\ exec[t] = "running"
      /\ exec' = [exec EXCEPT ![t] = "ended"]
      /\ outcome' = [outcome EXCEPT ![t] = r]
      /\ Link!AgentWrite(node[s], s, Envelope("result", t, r))
      /\ UNCHANGED <<hub, handler, node, victim, open, conn, serving, down,
                     sender, over, cancelled, runs, caught, crashes>>
  BY DEF AgentFinish, serverVars, agentVars
<1>3. /\ down \in [Sessions -> Seq(Frames)]
      /\ exec \in [Tasks -> Execution]
      /\ over \in [Tasks -> Sessions \cup {NoSession}]
      /\ runs \in [Tasks -> Nat]
      /\ outcome \in [Tasks -> {"none"} \cup Results]
  BY <1>0 DEF SystemTypeOK, Link!TypeOK
<1>4. s \in Sessions /\ sent[t] > 0 /\ runs[t] > 0 /\ outcome[t] = "none" /\ handler[s] # "none"
  <2>1. runs[t] # 0
    BY <1>0, <1>2 DEF RunsAreRecorded
  <2>. QED BY <1>0, <1>2, <1>3, <2>1, KnownSession DEF RunsAreRecorded
<1>5. /\ Envelope("result", t, r) \in Frames /\ Envelope("result", t, r).type = "result"
      /\ Envelope("result", t, r).task = t /\ Envelope("result", t, r).result = r
  BY DEF Envelope, Frames, Results
<1>6. \A u \in Tasks : u # t => exec'[u] = exec[u] /\ outcome'[u] = outcome[u]
  BY <1>2, <1>3
<1>7. exec'[t] = "ended" /\ outcome'[t] = r
  BY <1>2, <1>3
<1>8. \A u \in Tasks : outcome[u] # "none" => outcome'[u] = outcome[u]
  BY <1>4, <1>6
<1>9. /\ AnswersAreTrue' /\ up' \in [Sessions -> Seq(Frames)]
      /\ \A q \in Sessions : q # s => up'[q] = up[q]
  <2>. HIDE DEF s
  <2>. QED BY <1>1, <1>2, <1>4, <1>5, <1>7, <1>8, AgentWriteKeeps
<1>10. ExecuteIsFirst' /\ CancelIsForNode' /\ OneExecute' /\ LateIsLater'
  BY <1>1, <1>2, <1>3, SelfShrunk, DownShrinks, ExecutesShrink
<1>11. RunsAreRecorded'
  BY <1>0, <1>1, <1>2, <1>4, <1>6, <1>7 DEF RunsAreRecorded, Delivered
<1>12. RunsOnceOnItsNode'
  BY <1>0, <1>1, <1>2 DEF RunsOnceOnItsNode
<1>13. CancelCatches'
  BY <1>0, <1>2, <1>6, <1>7 DEF CancelCatches
<1>14. SystemTypeOK'
  <2>1. Link!TypeOK'
    BY <1>0, <1>2, <1>9 DEF SystemTypeOK, Link!TypeOK
  <2>2. exec' \in [Tasks -> Execution] /\ outcome' \in [Tasks -> {"none"} \cup Results]
    BY <1>2, <1>3 DEF Execution
  <2>. QED BY <1>0, <1>2, <2>1, <2>2 DEF SystemTypeOK, IInv
<1>15. FreshIsUnknown'
  BY <1>0, <1>2, <1>4, <1>9 DEF FreshIsUnknown
<1>16. SessionsAreOf'
  BY <1>0, <1>1, <1>2 DEF SessionsAreOf
<1>17. DownIsHeld'
  BY <1>0, <1>2 DEF DownIsHeld
<1>18. HubKeepsTheLive'
  BY <1>0, <1>2, LiveKept DEF Link!Live
<1>. QED BY <1>9, <1>10, <1>11, <1>12, <1>13, <1>14, <1>15, <1>16, <1>17, <1>18 DEF SystemInv

\* An agent dies: its connection ends, and its executions are lost.
LEMMA CrashKeeps ==
  ASSUME SystemInv, IInv', TasksAreOf', NEW n \in Nodes, AgentCrash(n)
  PROVE  SystemInv'
<1>0. /\ SystemTypeOK /\ RunsAreRecorded /\ RunsOnceOnItsNode /\ CancelCatches
      /\ FreshIsUnknown /\ SessionsAreOf /\ HubKeepsTheLive /\ DownIsHeld
  BY DEF SystemInv
<1>1. Onward /\ UNCHANGED <<pc, nodeOf, sent, reported, restarts>>
  BY StillOnward DEF AgentCrash, vars
<1>2. /\ crashes' = crashes + 1 /\ restarts + crashes < MaxCrashes
      /\ exec' = [t \in Tasks |->
                    IF exec[t] = "running" /\ node[over[t]] = n THEN "lost" ELSE exec[t]]
      /\ UNCHANGED <<sender, over, cancelled, outcome, runs, caught>>
      /\ UNCHANGED linkVars \/ Link!HangUp(n)
  BY DEF AgentCrash
<1>3. /\ Link!TypeOK' /\ FreshIsUnknown' /\ SessionsAreOf' /\ DownIsHeld' /\ HubKeepsTheLive'
      /\ Shrunk(down', down) /\ Shrunk(up', up) /\ node' = node
  <2>1. CASE Link!HangUp(n)
    BY <1>1, <1>2, <2>1, HangUpLink
  <2>2. CASE UNCHANGED linkVars
    <3>1. UNCHANGED <<hub, handler, node, victim, open, conn, serving, down, up>>
      BY <2>2 DEF linkVars, serverVars, agentVars
    <3>2. Shrunk(down', down) /\ Shrunk(up', up)
      BY <1>0, <3>1, SelfShrunk DEF SystemTypeOK, Link!TypeOK
    <3>3. Link!TypeOK'
      BY <1>0, <3>1 DEF SystemTypeOK, Link!TypeOK
    <3>4. FreshIsUnknown' /\ SessionsAreOf' /\ DownIsHeld'
      BY <1>0, <1>1, <1>2, <3>1 DEF FreshIsUnknown, SessionsAreOf, DownIsHeld
    <3>5. HubKeepsTheLive'
      BY <1>0, <3>1, LiveKept DEF Link!Live
    <3>. QED BY <3>1, <3>2, <3>3, <3>4, <3>5
  <2>. QED BY <1>2, <2>1, <2>2
<1>4. /\ \A t \in Tasks : exec'[t] = exec[t] \/ (exec[t] = "running" /\ exec'[t] = "lost")
      /\ exec' \in [Tasks -> Execution]
  BY <1>0, <1>2 DEF SystemTypeOK, Execution
<1>5. ExecuteIsFirst' /\ CancelIsForNode' /\ OneExecute' /\ LateIsLater'
  BY <1>1, <1>2, <1>3, DownShrinks, ExecutesShrink
<1>6. AnswersAreTrue'
  BY <1>1, <1>2, <1>3, UpShrinks
<1>7. RunsAreRecorded'
  BY <1>0, <1>1, <1>2, <1>4 DEF RunsAreRecorded, Delivered
<1>8. RunsOnceOnItsNode'
  BY <1>0, <1>1, <1>2, <1>3 DEF RunsOnceOnItsNode
<1>9. CancelCatches'
  <2>1. \A t \in Tasks : t \in caught' /\ exec'[t] = "running" => t \in caught /\ exec[t] = "running"
    BY <1>2, <1>4
  <2>2. caught \subseteq Tasks
    BY <1>0 DEF SystemTypeOK
  <2>. QED BY <1>0, <1>2, <2>1, <2>2 DEF CancelCatches
<1>10. crashes' \in 0..MaxCrashes
  <2>1. restarts \in Nat /\ crashes \in Nat /\ MaxCrashes \in Nat
    BY <1>0, SystemAssumption DEF SystemTypeOK, TypeOK
  <2>. QED BY <1>2, <2>1
<1>11. SystemTypeOK'
  BY <1>0, <1>2, <1>3, <1>4, <1>10 DEF SystemTypeOK, IInv
<1>. QED BY <1>3, <1>5, <1>6, <1>7, <1>8, <1>9, <1>11 DEF SystemInv

------------------------------------------------------------------------------
LEMMA SystemInitInv == SystemInit => SystemInv
<1>. SUFFICES ASSUME SystemInit PROVE SystemInv
  OBVIOUS
<1>. USE SystemAssumption DEF SystemInit, Link!Init
<1>1. IInv
  BY InitInv
<1>2. \A t \in Tasks : pc[t] = "unborn"
  BY DEF Init
<1>3. TasksAreOf
  BY <1>2 DEF TasksAreOf
<1>4. SystemTypeOK
  <2>1. <<>> \in Seq(Frames)
    OBVIOUS
  <2>2. Link!TypeOK
    BY <2>1 DEF Link!TypeOK, Link!HandlerPC
  <2>. QED BY <1>1, <2>2 DEF SystemTypeOK, Execution, IInv
<1>5. FreshIsUnknown
  BY DEF FreshIsUnknown
<1>6. SessionsAreOf
  BY <1>2 DEF SessionsAreOf
<1>7. \A s \in Sessions : down[s] = <<>> /\ up[s] = <<>> /\ DOMAIN down[s] = {} /\ DOMAIN up[s] = {}
  OBVIOUS
<1>8. DownIsHeld /\ ExecuteIsFirst /\ CancelIsForNode /\ OneExecute /\ LateIsLater /\ AnswersAreTrue
  BY <1>7 DEF DownIsHeld, ExecuteIsFirst, CancelIsForNode, OneExecute, LateIsLater, AnswersAreTrue
<1>9. RunsAreRecorded
  BY DEF RunsAreRecorded, Init
<1>10. RunsOnceOnItsNode /\ CancelCatches
  BY DEF RunsOnceOnItsNode, CancelCatches
<1>11. HubKeepsTheLive
  BY DEF HubKeepsTheLive, Link!HubKeepsTheLive, Link!Live
<1>. QED BY <1>1, <1>3, <1>4, <1>5, <1>6, <1>8, <1>9, <1>10, <1>11 DEF SystemInv

\* Every step of the composed system keeps the invariant.
LEMMA SystemInvStep ==
  ASSUME SystemInv, [SystemNext]_systemVars
  PROVE  SystemInv'
<1>1. [Next]_vars
  BY SystemStep
<1>2. IInv' /\ TasksAreOf' /\ Onward
  BY <1>1, InvStep, TasksStayOf, OnwardHolds DEF SystemInv, IInv
<1>3. CASE UNCHANGED systemVars
  <2>1. UNCHANGED <<linkVars, execVars>> /\ UNCHANGED <<pc, reported>>
    BY <1>3 DEF systemVars, vars, history
  <2>2. sender \in [Tasks -> Sessions \cup {NoSession}]
    BY DEF SystemInv, SystemTypeOK
  <2>3. \A t \in Tasks, s \in Sessions : sender[t] = s => handler[s] # "none"
    BY KnownSession
  <2>. QED BY <1>2, <2>1, <2>2, <2>3, QuietStep DEF execVars, SystemInv, SessionsAreOf
<1>4. CASE SystemNext
  <2>1. CASE TableStep
    BY <1>2, <2>1, TableStepKeeps
  <2>2. CASE \E t \in Tasks : RouteToHub(t) \/ SendToSession(t)
    BY <1>2, <2>2, RouteKeeps, SendKeeps
  <2>3. CASE \E t \in Tasks, r \in Results : AgentFinish(t, r)
    BY <1>2, <2>3, FinishKeeps
  <2>4. CASE \E th \in Threads : NotifySession(th)
    BY <1>2, <2>4, NotifyKeeps
  <2>5. CASE \E s \in Sessions : Receive(s)
    BY <1>2, <2>5, ReceiveKeeps
  <2>6. CASE \E n \in Nodes : AgentExecute(n) \/ AgentCancel(n) \/ AgentCrash(n)
    BY <1>2, <2>6, ExecuteKeeps, CancelKeeps, CrashKeeps
  <2>7. CASE Link!LinkStep /\ UNCHANGED <<vars, execVars>>
    BY <1>2, <2>7, LinkStepKeeps
  <2>8. CASE RestartSystem
    BY <1>2, <2>8, RestartKeeps
  <2>. QED BY <1>4, <2>1, <2>2, <2>3, <2>4, <2>5, <2>6, <2>7, <2>8, SystemCases
<1>. QED BY <1>3, <1>4

\* The invariant of the composed system: what the connections carry fits the
\* task table and what the agents have executed (deliver, handleWS, wsclient).
THEOREM SystemInductive == SystemSpec => []SystemInv
<1>1. SystemInv /\ [SystemNext]_systemVars => SystemInv'
  BY SystemInvStep
<1>. QED BY <1>1, SystemInitInv, PTL DEF SystemSpec

\* With hub, queues and agents in the place of what TaskManager leaves open
\* (SenderFor, Send, the frames that come in), the task table does nothing
\* that TaskManager does not: its theorems hold of the composed system.
THEOREM SystemImplements == SystemSpec => Spec
<1>1. SystemInv /\ [SystemNext]_systemVars => [Next]_vars
  BY SystemStep
<1>2. SystemInit => Init
  BY DEF SystemInit
<1>. QED BY <1>1, <1>2, SystemInductive, PTL DEF SystemSpec, Spec

\* The variables of the composed system keep their types.
THEOREM SystemTypeCorrect == SystemSpec => []SystemTypeOK
<1>1. SystemInv => SystemTypeOK
  BY DEF SystemInv
<1>. QED BY <1>1, SystemInductive, PTL

\* End to end: what is shown as successful was executed to success by an
\* agent (OnResult and its look-up, handleTask of wsclient).
THEOREM ExecutedHolds == SystemSpec => []SuccessWasExecuted
<1>1. SystemInv => SuccessWasExecuted
  BY DEF SystemInv, IInv, SuccessIsReported, RunsAreRecorded, SuccessWasExecuted
<1>. QED BY <1>1, SystemInductive, PTL

\* No agent runs a task twice, and only that of the task's node runs it
\* (deliver, SenderFor, Hub.Add and Hub.Remove, handleTask).
THEOREM RunsOnceHolds == SystemSpec => []RunsOnceOnItsNode
<1>1. SystemInv => RunsOnceOnItsNode
  BY DEF SystemInv
<1>. QED BY <1>1, SystemInductive, PTL

\* A cancel that was sent after the delivery and reaches the agent stops the
\* execution (Cancel, RunSweeper, handleCancel of wsclient).
THEOREM CancelHolds == SystemSpec => []CancelCatches
<1>1. SystemInv => CancelCatches
  BY DEF SystemInv
<1>. QED BY <1>1, SystemInductive, PTL

\* A live session is the one its node's senders find, or is about to be
\* closed by the one that is (Hub.Add, Hub.Remove, handleWS).
THEOREM HubHolds == SystemSpec => []HubKeepsTheLive
<1>1. SystemInv => HubKeepsTheLive
  BY DEF SystemInv
<1>. QED BY <1>1, SystemInductive, PTL
==============================================================================
