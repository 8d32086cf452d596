----------------------------- MODULE TaskManager -----------------------------
(***************************************************************************)
(* The task system of the container manager (CM), package tasksys: a table *)
(* of one-shot tasks, each handed once to the agent of a node as a         *)
(* task.execute envelope and settled by the agent's frames, by a           *)
(* cancellation, by the sweeper or by a restart of the CM.                 *)
(*                                                                         *)
(* Every goroutine that touches a task is a thread of its own: the caller  *)
(* that creates and delivers the task (and then may wait for it), the read *)
(* loop of each node's session, the sweeper, and the administrator's       *)
(* request.  A critical section of Task.mu is one step; the database write *)
(* of persist() runs outside it and is two more: the snapshot, taken when  *)
(* Save gets the lock again, and the statement that writes the row.        *)
(*                                                                         *)
(* The agents and the connections are left open here: SenderFor may find a *)
(* sender or not, Send may accept or refuse, and any node may report       *)
(* anything about a task that was sent.  TaskSystem closes them.           *)
(***************************************************************************)
EXTENDS Naturals, FiniteSets

CONSTANTS
  Tasks,        \* task identifiers, each used at most once (randomID)
  Nodes,        \* nodes; a node also names the read loop of its session
  Sweeper,      \* the goroutine of RunSweeper
  Admin,        \* the goroutine of an administrator's request
  NoTask,       \* no task
  Durable,      \* is a database configured (Manager.store)
  MaxRestarts   \* bound: how often the CM is restarted

Threads == Tasks \cup Nodes \cup {Sweeper, Admin}

\* Goroutines and task identifiers are different things.
ASSUME ThreadAssumption ==
  /\ Tasks \cap Nodes = {}
  /\ Sweeper \notin Tasks \cup Nodes
  /\ Admin \notin Tasks \cup Nodes
  /\ Sweeper # Admin
  /\ NoTask \notin Threads

ASSUME BoundAssumption == MaxRestarts \in Nat /\ Durable \in BOOLEAN

Terminal == {"success", "failed", "cancelled", "timeout"}
Status   == {"pending", "dispatching", "running"} \cup Terminal
Absent   == "absent"                  \* no such task, no such row
Kinds    == {"dispatch", "call", "probe"}
Results  == {"success", "failed", "cancelled"}   \* status of a task.result

VARIABLES
  table,    \* the keys of Manager.tasks
  status,   \* Task.Status
  nodeOf,   \* Task.NodeID
  kind,     \* which of DispatchBy/Retry, Call and Probe created the task;
            \* "probe" is Task.ephemeral
  done,     \* Task.finished: the channel Task.done has been closed
  parent,   \* Task.ParentID
  pc,       \* where the caller's goroutine is
  verdict,  \* what await returned to the caller
  slot,     \* what each goroutine still has to do after a critical section
  row,      \* the status column of cm_tasks
  restarts  \* restarts so far

VARIABLES
  sent,     \* history: task.execute envelopes a sender accepted, per task
  reported, \* history: tasks whose own node has reported success
  failedWrites  \* history: tasks with a Save that the database refused

taskVars == <<table, status, nodeOf, kind, done, parent>>
history  == <<sent, reported, failedWrites>>
vars     == <<taskVars, pc, verdict, slot, row, restarts, history>>

\* The steps of dispatch and deliver, in order, then await and the return.
Undelivered == {"route", "send", "mark", "bounce"}
PC == {"unborn", "await", "return", "returned", "dead"} \cup Undelivered

Free == [phase |-> "idle", task |-> NoTask, snap |-> Absent, notify |-> FALSE]
Busy == [phase  : {"snapshot", "write", "notify"},
         task   : Tasks,
         snap   : Status \cup {Absent},
         notify : BOOLEAN]
Slot == Busy \cup {Free}

TypeOK ==
  /\ table    \in SUBSET Tasks
  /\ status   \in [Tasks -> Status \cup {Absent}]
  /\ nodeOf   \in [Tasks -> Nodes \cup {NoTask}]
  /\ kind     \in [Tasks -> Kinds \cup {Absent}]
  /\ done     \in [Tasks -> BOOLEAN]
  /\ parent   \in [Tasks -> Tasks \cup {NoTask}]
  /\ pc       \in [Tasks -> PC]
  /\ verdict  \in [Tasks -> Status \cup {Absent, "error"}]
  /\ slot     \in [Threads -> Slot]
  /\ row      \in [Tasks -> Status \cup {Absent}]
  /\ restarts \in Nat
  /\ sent     \in [Tasks -> Nat]
  /\ reported \in SUBSET Tasks
  /\ failedWrites \in SUBSET Tasks

Init ==
  /\ table    = {}
  /\ status   = [t \in Tasks |-> Absent]
  /\ nodeOf   = [t \in Tasks |-> NoTask]
  /\ kind     = [t \in Tasks |-> Absent]
  /\ done     = [t \in Tasks |-> FALSE]
  /\ parent   = [t \in Tasks |-> NoTask]
  /\ pc       = [t \in Tasks |-> "unborn"]
  /\ verdict  = [t \in Tasks |-> Absent]
  /\ slot     = [th \in Threads |-> Free]
  /\ row      = [t \in Tasks |-> Absent]
  /\ restarts = 0
  /\ sent     = [t \in Tasks |-> 0]
  /\ reported = {}
  /\ failedWrites = {}

------------------------------------------------------------------------------
(* What the handlers share.                                                *)

Idle(th) == slot[th].phase = "idle"

\* Mutant of Saved: probes are saved like the other tasks.
SavedWithProbes(k) == Durable

\* A thread is about to save task t, and to send a task.cancel afterwards
\* when notify is set.  Without a database nothing is saved, and probes
\* never are.
Saved(k) == Durable /\ k # "probe"

Persist(th, t, k, notify) ==
  slot' = [slot EXCEPT ![th] =
             IF Saved(k) \/ notify
             THEN [phase  |-> IF Saved(k) THEN "snapshot" ELSE "notify",
                   task   |-> t, snap |-> Absent, notify |-> notify]
             ELSE Free]

\* Mutant of SetStatus: only a result closes done.
SetStatusOnResult(t, s) ==
  /\ status' = [status EXCEPT ![t] = s]
  /\ done'   = [done EXCEPT ![t] = @ \/ s \in {"success", "failed"}]

\* Unconditional: the guards are the callers'.
SetStatus(t, s) ==
  /\ status' = [status EXCEPT ![t] = s]
  /\ done'   = [done EXCEPT ![t] = @ \/ s \in Terminal]

\* Mutant of Lookup: any node reaches any task.
LookupAnyNode(n, t) == t \in table

\* A node only reaches tasks that were created for it.  (Only a probe that is
\* being dropped could tell the look-up from the critical section after it.)
Lookup(n, t) == t \in table /\ nodeOf[t] = n

------------------------------------------------------------------------------
(* The caller's goroutine: dispatch, deliver, await.                       *)

\* Mutant of Insert: the pending row is not saved.
InsertUnsaved(t, n, k, par) ==
  /\ pc[t] = "unborn"
  /\ table'  = table \cup {t}
  /\ status' = [status EXCEPT ![t] = "pending"]
  /\ nodeOf' = [nodeOf EXCEPT ![t] = n]
  /\ kind'   = [kind EXCEPT ![t] = k]
  /\ parent' = [parent EXCEPT ![t] = par]
  /\ pc'     = [pc EXCEPT ![t] = "route"]
  /\ UNCHANGED <<slot, done, verdict, row, restarts, history>>

Insert(t, n, k, par) ==
  /\ pc[t] = "unborn"
  /\ table'  = table \cup {t}
  /\ status' = [status EXCEPT ![t] = "pending"]
  /\ nodeOf' = [nodeOf EXCEPT ![t] = n]
  /\ kind'   = [kind EXCEPT ![t] = k]
  /\ parent' = [parent EXCEPT ![t] = par]
  /\ pc'     = [pc EXCEPT ![t] = "route"]
  /\ Persist(t, t, k, FALSE)
  /\ UNCHANGED <<done, verdict, row, restarts, history>>

Create(t, n, k) == Insert(t, n, k, NoTask)

\* A task that has ended is dispatched again under a new identifier.
Retry(t, orig) ==
  /\ orig \in table
  /\ status[orig] \in Terminal
  /\ Insert(t, nodeOf[orig], "dispatch", orig)

\* Mutant of Route: it does not wait for the pending row to be saved.
RouteEarly(t, found) ==
  /\ pc[t] = "route" /\ found
  /\ pc' = [pc EXCEPT ![t] = "send"]
  /\ UNCHANGED <<taskVars, slot, verdict, row, restarts, history>>

\* deliver: the sender is looked up when the pending row has been saved.
Route(t, found) ==
  /\ pc[t] = "route" /\ Idle(t)
  /\ IF found
     THEN /\ pc' = [pc EXCEPT ![t] = "send"]
          /\ UNCHANGED <<taskVars, slot>>
     ELSE /\ SetStatus(t, "failed")
          /\ Persist(t, t, kind[t], FALSE)
          /\ pc' = [pc EXCEPT ![t] = "return"]
          /\ UNCHANGED <<table, nodeOf, kind, parent>>
  /\ verdict' = [verdict EXCEPT ![t] = IF found THEN @ ELSE "error"]
  /\ UNCHANGED <<row, restarts, history>>

\* The envelope is on its way before the task says so.
Send(t, accepted) ==
  /\ pc[t] = "send"
  /\ pc'   = [pc EXCEPT ![t] = IF accepted THEN "mark" ELSE "bounce"]
  /\ sent' = [sent EXCEPT ![t] = IF accepted THEN @ + 1 ELSE @]
  /\ UNCHANGED <<taskVars, verdict, slot, row, restarts, reported, failedWrites>>

MarkDispatched(t) ==
  /\ pc[t] = "mark"
  /\ SetStatus(t, "dispatching")
  /\ Persist(t, t, kind[t], FALSE)
  /\ pc' = [pc EXCEPT ![t] = IF kind[t] = "dispatch" THEN "return" ELSE "await"]
  /\ UNCHANGED <<table, nodeOf, kind, parent, verdict, row, restarts, history>>

MarkBounced(t) ==
  /\ pc[t] = "bounce"
  /\ SetStatus(t, "failed")
  /\ Persist(t, t, kind[t], FALSE)
  /\ pc' = [pc EXCEPT ![t] = "return"]
  /\ verdict' = [verdict EXCEPT ![t] = "error"]
  /\ UNCHANGED <<table, nodeOf, kind, parent, row, restarts, history>>

\* await: done is closed; the caller is told the status of that moment.
Wake(t) ==
  /\ pc[t] = "await" /\ Idle(t)
  /\ done[t]
  /\ verdict' = [verdict EXCEPT ![t] = status[t]]
  /\ pc' = [pc EXCEPT ![t] = "return"]
  /\ UNCHANGED <<taskVars, slot, row, restarts, history>>

\* Mutant of CancelBy: a task that has ended can still be cancelled.
CancelByUnguarded(th, n, t) ==
  IF Lookup(n, t)
  THEN /\ SetStatus(t, "cancelled")
       /\ Persist(th, t, kind[t], TRUE)
  ELSE UNCHANGED <<status, done, slot>>

\* Cancel, by the thread th for node n.
CancelBy(th, n, t) ==
  IF Lookup(n, t) /\ status[t] \notin Terminal
  THEN /\ SetStatus(t, "cancelled")
       /\ Persist(th, t, kind[t], TRUE)
  ELSE UNCHANGED <<status, done, slot>>

\* await: the caller's context ends first (the select may also choose this
\* branch when done is closed already).
GiveUp(t) ==
  /\ pc[t] = "await" /\ Idle(t)
  /\ CancelBy(t, nodeOf[t], t)
  /\ verdict' = [verdict EXCEPT ![t] = "error"]
  /\ pc' = [pc EXCEPT ![t] = "return"]
  /\ UNCHANGED <<table, nodeOf, kind, parent, row, restarts, history>>

\* dropEphemeral runs on every way out of Probe.
Return(t) ==
  /\ pc[t] = "return" /\ Idle(t)
  /\ pc' = [pc EXCEPT ![t] = "returned"]
  /\ table' = IF kind[t] = "probe" THEN table \ {t} ELSE table
  /\ UNCHANGED <<status, nodeOf, kind, done, parent, verdict, slot, row, restarts, history>>

------------------------------------------------------------------------------
(* The read loop of a node's session: task.ack, task.progress, task.result.*)

\* A frame that does not fit the status is ignored.
OnAck(n, t) ==
  /\ Idle(n)
  /\ IF Lookup(n, t) /\ status[t] = "dispatching"
     THEN /\ SetStatus(t, "running")
          /\ Persist(n, t, kind[t], FALSE)
     ELSE UNCHANGED <<status, done, slot>>
  /\ UNCHANGED <<table, nodeOf, kind, parent, pc, verdict, row, restarts, history>>

\* Percentages and messages are abstracted; the row is written all the same.
OnProgress(n, t) ==
  /\ Idle(n)
  /\ IF Lookup(n, t) /\ status[t] \in {"running", "dispatching"}
     THEN Persist(n, t, kind[t], FALSE)
     ELSE UNCHANGED slot
  /\ UNCHANGED <<taskVars, pc, verdict, row, restarts, history>>

\* Mutant of OnResult: a result settles a task that has ended already.
OnResultUnguarded(n, t, r) ==
  /\ Idle(n)
  /\ reported' = IF r = "success" /\ n = nodeOf[t] THEN reported \cup {t} ELSE reported
  /\ IF Lookup(n, t)
     THEN /\ SetStatus(t, IF r = "success" THEN "success" ELSE "failed")
          /\ Persist(n, t, kind[t], FALSE)
     ELSE UNCHANGED <<status, done, slot>>
  /\ UNCHANGED <<table, nodeOf, kind, parent, pc, verdict, row, restarts, sent, failedWrites>>

\* Mutant of OnResult: everything that is not "failed" succeeds.
OnResultLenient(n, t, r) ==
  /\ Idle(n)
  /\ reported' = IF r = "success" /\ n = nodeOf[t] THEN reported \cup {t} ELSE reported
  /\ IF Lookup(n, t) /\ status[t] \notin Terminal
     THEN /\ SetStatus(t, IF r = "failed" THEN "failed" ELSE "success")
          /\ Persist(n, t, kind[t], FALSE)
     ELSE UNCHANGED <<status, done, slot>>
  /\ UNCHANGED <<table, nodeOf, kind, parent, pc, verdict, row, restarts, sent, failedWrites>>

\* Everything that is not "success" fails the task, "cancelled" included.
OnResult(n, t, r) ==
  /\ Idle(n)
  /\ reported' = IF r = "success" /\ n = nodeOf[t] THEN reported \cup {t} ELSE reported
  /\ IF Lookup(n, t) /\ status[t] \notin Terminal
     THEN /\ SetStatus(t, IF r = "success" THEN "success" ELSE "failed")
          /\ Persist(n, t, kind[t], FALSE)
     ELSE UNCHANGED <<status, done, slot>>
  /\ UNCHANGED <<table, nodeOf, kind, parent, pc, verdict, row, restarts, sent, failedWrites>>

------------------------------------------------------------------------------
(* The administrator and the sweeper.                                      *)

AdminCancel(t) ==
  /\ Idle(Admin)
  /\ t \in table
  /\ status[t] \notin Terminal
  /\ CancelBy(Admin, nodeOf[t], t)
  /\ UNCHANGED <<table, nodeOf, kind, parent, pc, verdict, row, restarts, history>>

\* Mutant of Sweep: tasks that have ended are swept as well.
SweepAll(t) ==
  /\ Idle(Sweeper)
  /\ t \in table
  /\ SetStatus(t, "timeout")
  /\ Persist(Sweeper, t, kind[t], TRUE)
  /\ UNCHANGED <<table, nodeOf, kind, parent, pc, verdict, row, restarts, history>>

\* Mutant of Sweep: only tasks that were acknowledged are swept.
SweepRunning(t) ==
  /\ Idle(Sweeper)
  /\ t \in table
  /\ status[t] = "running"
  /\ SetStatus(t, "timeout")
  /\ Persist(Sweeper, t, kind[t], TRUE)
  /\ UNCHANGED <<table, nodeOf, kind, parent, pc, verdict, row, restarts, history>>

\* The deadline of t has passed when the sweeper looks at it: every task has
\* one, and it may be any time after the creation.
Sweep(t) ==
  /\ Idle(Sweeper)
  /\ t \in table
  /\ status[t] \notin Terminal
  /\ SetStatus(t, "timeout")
  /\ Persist(Sweeper, t, kind[t], TRUE)
  /\ UNCHANGED <<table, nodeOf, kind, parent, pc, verdict, row, restarts, history>>

------------------------------------------------------------------------------
(* Store.Save, and the task.cancel that follows it.                        *)

TakeSnapshot(th) ==
  /\ slot[th].phase = "snapshot"
  /\ slot' = [slot EXCEPT ![th].phase = "write",
                          ![th].snap  = status[slot[th].task]]
  /\ UNCHANGED <<taskVars, pc, verdict, row, restarts, history>>

\* The row is upserted with the snapshot; an error of the database is dropped.
WriteRow(th, ok) ==
  /\ slot[th].phase = "write"
  /\ row' = IF ok THEN [row EXCEPT ![slot[th].task] = slot[th].snap] ELSE row
  /\ failedWrites' = IF ok THEN failedWrites ELSE failedWrites \cup {slot[th].task}
  /\ slot' = [slot EXCEPT ![th] =
                IF slot[th].notify THEN [@ EXCEPT !.phase = "notify", !.snap = Absent] ELSE Free]
  /\ UNCHANGED <<taskVars, pc, verdict, restarts, sent, reported>>

\* A task.cancel is handed to the node's sender, if there is one.
Notify(th) ==
  /\ slot[th].phase = "notify"
  /\ slot' = [slot EXCEPT ![th] = Free]
  /\ UNCHANGED <<taskVars, pc, verdict, row, restarts, history>>

------------------------------------------------------------------------------
(* The CM process dies, comes back and loads the rows.                     *)

\* Mutant of LoadedStatus: open tasks are loaded as they are.
LoadedAsSaved(t) == row[t]

LoadedStatus(t) == IF row[t] \in Terminal \cup {Absent} THEN row[t] ELSE "failed"

\* Mutant of Restart: the deliveries of open tasks are taken up again.
RestartResumes(ok) ==
  /\ restarts < MaxRestarts
  /\ restarts' = restarts + 1
  /\ table'   = {t \in Tasks : row[t] # Absent}
  /\ status'  = row
  /\ done'    = [t \in Tasks |-> row[t] \in Terminal]
  /\ pc'      = [t \in Tasks |-> IF pc[t] = "unborn" THEN "unborn"
                                ELSE IF row[t] \in Status \ Terminal THEN "route" ELSE "dead"]
  /\ verdict' = [t \in Tasks |-> Absent]
  /\ slot'    = [th \in Threads |-> Free]
  /\ UNCHANGED <<nodeOf, kind, parent, row, history>>

\* Tasks that had not ended are settled as interrupted, in memory and, unless
\* it refuses the writes, in the database, before the listeners open.  Only
\* those close done: a task loaded as terminal keeps its new, open channel.
\* Every row is loaded; the code takes the newest 1000 (store.go).
Restart(ok) ==
  /\ restarts < MaxRestarts
  /\ restarts' = restarts + 1
  /\ table'   = {t \in Tasks : row[t] # Absent}
  /\ status'  = [t \in Tasks |-> LoadedStatus(t)]
  /\ row'     = IF ok THEN [t \in Tasks |-> LoadedStatus(t)] ELSE row
  /\ done'    = [t \in Tasks |-> row[t] \in Status \ Terminal]
  /\ pc'      = [t \in Tasks |-> IF pc[t] = "unborn" THEN "unborn" ELSE "dead"]
  /\ verdict' = [t \in Tasks |-> Absent]
  /\ slot'    = [th \in Threads |-> Free]
  /\ UNCHANGED <<nodeOf, kind, parent, history>>

------------------------------------------------------------------------------
CallerStep(t) ==
  \/ \E found \in BOOLEAN : Route(t, found)
  \/ \E accepted \in BOOLEAN : Send(t, accepted)
  \/ MarkDispatched(t)
  \/ MarkBounced(t)
  \/ Wake(t)
  \/ Return(t)

SaveStep(th) ==
  \/ TakeSnapshot(th)
  \/ \E ok \in BOOLEAN : WriteRow(th, ok)
  \/ Notify(th)

\* Nobody can name a task before its envelope has left: identifiers are
\* random.  After that any node may, which is what lookup guards against.  A
\* node has one read loop; that two may overlap is TaskSystem's.
AgentFrame(n, t) ==
  /\ sent[t] > 0
  /\ \/ OnAck(n, t)
     \/ OnProgress(n, t)
     \/ \E r \in Results : OnResult(n, t, r)

Next ==
  \/ \E t \in Tasks :
       \/ \E n \in Nodes, k \in Kinds : Create(t, n, k)
       \/ \E orig \in Tasks : Retry(t, orig)
       \/ CallerStep(t)
       \/ GiveUp(t)
       \/ AdminCancel(t)
       \/ Sweep(t)
       \/ \E n \in Nodes : AgentFrame(n, t)
  \/ \E th \in Threads : SaveStep(th)
  \/ \E ok \in BOOLEAN : Restart(ok)

Spec == Init /\ [][Next]_vars

\* The runtime schedules every goroutine and the ticker of RunSweeper keeps
\* firing, so a caller that can step does, a save ends, and a task past its
\* deadline is swept.  Nothing is assumed of agents, administrators, crashes
\* or of contexts ending.
Fairness ==
  /\ \A t \in Tasks : WF_vars(CallerStep(t)) /\ WF_vars(Sweep(t))
  /\ \A th \in Threads : WF_vars(SaveStep(th))

FairSpec == Spec /\ Fairness

------------------------------------------------------------------------------
(* Properties.                                                             *)

\* Once its delivery is over, a task that has ended never changes its status
\* again, whatever frames, cancellations and sweeps still reach it (the
\* guards of OnResult, Cancel, Sweep and transition).
SettledStays ==
  \A t \in Tasks :
    /\ status[t] \in Terminal
    /\ pc[t] \notin Undelivered
    /\ restarts' = restarts
    => status'[t] = status[t]

SettledIsFinal == [][SettledStays]_vars

\* The comment of Terminal(): a terminal status does not change any more.
\* The code breaks it while deliver is still running.
TerminalIsFinal ==
  [][\A t \in Tasks :
       status[t] \in Terminal /\ restarts' = restarts => status'[t] = status[t]]_vars

\* Success is never made up: a task shown as successful in memory, in the
\* database (so also after restarts) or to its caller has been reported as
\* successful by the node it was created for (lookup checks the owner).
SuccessIsReported ==
  \A t \in Tasks :
    "success" \in {status[t], row[t], verdict[t]} => t \in reported

\* What await told its caller stays true: the task keeps that outcome for as
\* long as the process lives.
ToldIsKept ==
  \A t \in Tasks : verdict[t] \in Terminal => status[t] = verdict[t]

\* A probe is never written to the database, and has left the table when its
\* caller returns, on every way out of Probe.
ProbeLeavesNoTrace ==
  \A t \in Tasks :
    kind[t] = "probe" =>
      /\ row[t] = Absent
      /\ pc[t] \in {"returned", "dead"} => t \notin table

\* A task is handed to an agent at most once, over retries, bounced sends
\* and restarts; the agent does not recognise a second execute of a task.
ExecuteSentOnce == \A t \in Tasks : sent[t] <= 1

\* Write-ahead: with a database, an agent is only asked to execute a task the database knows
\* of (probes and refused writes apart), so a restart can show it.
SentIsRecorded ==
  \A t \in Tasks :
    sent[t] > 0 /\ Saved(kind[t]) /\ t \notin failedWrites => row[t] # Absent

\* No task is left open by a restart: what has no caller any more is settled
\* (Load), however often the CM restarts and whatever the agents then report.
OrphansAreSettled ==
  \A t \in table : pc[t] = "dead" => status[t] \in Terminal

------------------------------------------------------------------------------
(* The inductive invariant that the safety properties above follow from.   *)

Gone == {"unborn", "dead"}      \* no goroutine of this process has the task

\* A task that does not exist yet is nowhere.
UnbornIsNowhere ==
  \A t \in Tasks :
    pc[t] = "unborn" =>
      t \notin table /\ status[t] = Absent /\ row[t] = Absent /\ verdict[t] = Absent

\* What a goroutine is saving is a task of this process that may be saved;
\* a snapshot of success was taken of a reported success; the caller only
\* saves its own task.
SaveInv ==
  \A th \in Threads :
    slot[th].phase # "idle" =>
      /\ pc[slot[th].task] \notin Gone
      /\ slot[th].phase \in {"snapshot", "write"} => Saved(kind[slot[th].task])
      /\ slot[th].phase = "write" => slot[th].snap \in Status
      /\ slot[th].snap = "success" => slot[th].task \in reported
      /\ th \in Tasks => th = slot[th].task

LiveHasStatus == \A t \in Tasks : pc[t] \notin Gone => status[t] \in Status

\* The first save of a task is over before its sender is looked up.
FirstSaveInv ==
  \A t \in Tasks :
    Saved(kind[t]) /\ t \notin failedWrites /\ row[t] = Absent =>
      pc[t] \in Gone \/ (pc[t] = "route" /\ slot[t].phase \in {"snapshot", "write"})

NotSentYet == \A t \in Tasks : pc[t] \in {"unborn", "route", "send"} => sent[t] = 0

ToldOnReturn ==
  \A t \in Tasks : verdict[t] \in Terminal => pc[t] \in {"return", "returned"}

\* A task stays in the table while its caller is at work, and a caller that
\* waited has an answer when it returns.
CallerHasTask ==
  \A t \in Tasks : pc[t] \notin {"unborn", "returned", "dead"} => t \in table

AnsweredOnReturn ==
  \A t \in Tasks : pc[t] = "return" /\ kind[t] # "dispatch" => verdict[t] # Absent

IInv ==
  /\ TypeOK
  /\ UnbornIsNowhere
  /\ SaveInv
  /\ LiveHasStatus
  /\ FirstSaveInv
  /\ NotSentYet
  /\ ToldOnReturn
  /\ CallerHasTask
  /\ AnsweredOnReturn
  /\ SuccessIsReported
  /\ ToldIsKept
  /\ ProbeLeavesNoTrace
  /\ ExecuteSentOnce
  /\ SentIsRecorded
  /\ OrphansAreSettled

------------------------------------------------------------------------------
(* Liveness, under the scheduling of the process.                          *)

\* Every caller of Call and Probe is woken, if only by the sweeper.
CallersReturn ==
  \A t \in Tasks : pc[t] = "await" ~> pc[t] \in {"returned", "dead"}

\* Every task ends up settled for good.
EveryTaskSettles ==
  \A t \in Tasks : t \in table ~> [](t \in table => status[t] \in Terminal)
==============================================================================
