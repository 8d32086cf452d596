----------------------------- MODULE TaskSystem ------------------------------
(***************************************************************************)
(* The task system end to end: the task table of the CM (TaskManager), the *)
(* sessions that carry its envelopes (AgentSessions) and the agents that   *)
(* execute them (handleTask, handleCancel of wsclient).                    *)
(*                                                                         *)
(* Where TaskManager leaves open whether a sender is found, whether it     *)
(* accepts and what is reported, the hub, the send queues and the agents   *)
(* decide here: every step is also a step of TaskManager, or none.  An     *)
(* execution outlives the connection it was asked on, but reports on that  *)
(* connection only.                                                        *)
(***************************************************************************)
EXTENDS TaskManager, Sequences

CONSTANTS Sessions, NoSession, SendBuf,
          Asked,            \* bound: the kinds of tasks that callers ask for
          MaxCrashes        \* bound: how often processes die, CM and agents

ASSUME SystemAssumption ==
  /\ Asked \subseteq {"dispatch", "call", "probe"}
  /\ MaxCrashes \in Nat
  /\ NoSession \notin Sessions
  /\ SendBuf \in Nat \ {0}

VARIABLES hub, handler, node, victim, open, down, up, conn, serving
VARIABLES
  sender,     \* the session deliver has looked up for the task
  exec,       \* the agent's execution of the task
  over,       \* the connection it was asked on
  cancelled,  \* its context has been cancelled
  outcome,    \* the result it has ended with
  runs,       \* history: executions started, per task
  caught,     \* history: tasks whose agent has read a cancel that was sent
              \* after their delivery
  crashes     \* agent crashes so far

Envelope(type, t, r) == [type |-> type, task |-> t, result |-> r]
Ready   == Envelope("ready", NoTask, "")
Frames  == [type   : {"ready", "execute", "cancel", "ack", "result"},
            task   : Tasks \cup {NoTask},
            result : {"", "late", "success", "failed", "cancelled"}]

Link == INSTANCE AgentSessions

serverVars == <<hub, handler, node, victim, open>>
agentVars  == <<conn, serving>>
linkVars   == <<serverVars, down, up, agentVars>>
execVars   == <<sender, exec, over, cancelled, outcome, runs, caught, crashes>>
systemVars == <<vars, linkVars, execVars>>

Execution == {"none", "running", "ended", "lost"}

SystemTypeOK ==
  /\ TypeOK
  /\ Link!TypeOK
  /\ sender    \in [Tasks -> Sessions \cup {NoSession}]
  /\ exec      \in [Tasks -> Execution]
  /\ over      \in [Tasks -> Sessions \cup {NoSession}]
  /\ cancelled \in SUBSET Tasks
  /\ outcome   \in [Tasks -> {"none"} \cup Results]
  /\ runs      \in [Tasks -> Nat]
  /\ caught    \in SUBSET Tasks
  /\ crashes   \in 0..MaxCrashes

SystemInit ==
  /\ Init
  /\ Link!Init
  /\ sender    = [t \in Tasks |-> NoSession]
  /\ exec      = [t \in Tasks |-> "none"]
  /\ over      = [t \in Tasks |-> NoSession]
  /\ cancelled = {}
  /\ outcome   = [t \in Tasks |-> "none"]
  /\ runs      = [t \in Tasks |-> 0]
  /\ caught    = {}
  /\ crashes   = 0

------------------------------------------------------------------------------
(* The CM: the task table meets the hub.                                   *)

\* Steps of the task table that touch neither hub nor queue.
TableStep ==
  /\ \/ \E t \in Tasks :
          \/ \E n \in Nodes, k \in Asked : Create(t, n, k)
          \/ \E orig \in Tasks : Retry(t, orig)
          \/ MarkDispatched(t) \/ MarkBounced(t)
          \/ Wake(t) \/ GiveUp(t) \/ Return(t)
          \/ AdminCancel(t) \/ Sweep(t)
     \/ \E th \in Threads :
          TakeSnapshot(th) \/ \E ok \in BOOLEAN : WriteRow(th, ok)
  /\ UNCHANGED <<linkVars, execVars>>

\* Mutant of RouteToHub: the session of any node will do.
RouteToAny(t) ==
  /\ \E n \in Nodes :
       /\ Route(t, hub[n] # NoSession)
       /\ sender' = [sender EXCEPT ![t] = hub[n]]
  /\ UNCHANGED <<linkVars, exec, over, cancelled, outcome, runs, caught, crashes>>

\* SenderFor: the session found is kept for Send, whatever becomes of it.
RouteToHub(t) ==
  /\ Route(t, hub[nodeOf[t]] # NoSession)
  /\ sender' = [sender EXCEPT ![t] = hub[nodeOf[t]]]
  /\ UNCHANGED <<linkVars, exec, over, cancelled, outcome, runs, caught, crashes>>

SendToSession(t) ==
  /\ pc[t] = "send"
  /\ Send(t, Link!Accepts(sender[t]))
  /\ Link!Enqueue(sender[t], Envelope("execute", t, ""))
  /\ UNCHANGED <<serverVars, agentVars, up, execVars>>

\* Cancel and Sweep look the sender up again; a refused cancel is dropped.
\* The cancel is tagged, for CancelCatches, when it leaves after the delivery.
NotifySession(th) ==
  /\ Notify(th)
  /\ LET t == slot[th].task
         s == hub[nodeOf[t]]
     IN IF s # NoSession
        THEN Link!Enqueue(s, Envelope("cancel", t, IF pc[t] \in Undelivered THEN "" ELSE "late"))
        ELSE UNCHANGED down
  /\ UNCHANGED <<serverVars, agentVars, up, execVars>>

\* The read loop of session s dispatches the next frame.
Receive(s) ==
  /\ Link!Receive(s)
  /\ Idle(node[s])
  /\ LET f == Head(up[s]) IN
     \/ f.type = "ack"      /\ OnAck(node[s], f.task)
     \/ f.type = "result"   /\ OnResult(node[s], f.task, f.result)
  /\ UNCHANGED execVars

\* The CM process dies and comes back; the agents keep executing.
RestartSystem ==
  /\ restarts + crashes < MaxCrashes
  /\ \E ok \in BOOLEAN : Restart(ok)
  /\ Link!ServerCrash
  /\ sender' = [t \in Tasks |-> NoSession]
  /\ UNCHANGED <<exec, over, cancelled, outcome, runs, caught, crashes>>

------------------------------------------------------------------------------
(* The agents.                                                             *)

\* handleTask: acknowledge, register the execution (before the next frame is
\* read) and start it.  A second execute of the same task would run it again.
\* Its progress frames, which settle nothing, are left out.
AgentExecute(n) ==
  /\ Link!AgentReceive(n)
  /\ LET f == Head(down[conn[n]]) IN
     /\ f.type = "execute"
     /\ Link!AgentWrite(n, conn[n], Envelope("ack", f.task, ""))
     /\ exec' = [exec EXCEPT ![f.task] = "running"]
     /\ over' = [over EXCEPT ![f.task] = conn[n]]
     /\ cancelled' = cancelled \ {f.task}
     /\ runs' = [runs EXCEPT ![f.task] = @ + 1]
  /\ UNCHANGED <<vars, sender, outcome, caught, crashes>>

\* Execute returns: a cancelled context turns an error into "cancelled", but
\* an execution that succeeds all the same has succeeded.
AgentFinish(t, r) ==
  /\ exec[t] = "running"
  /\ r = "cancelled" => t \in cancelled
  /\ r = "failed" => t \notin cancelled
  /\ exec' = [exec EXCEPT ![t] = "ended"]
  /\ outcome' = [outcome EXCEPT ![t] = r]
  /\ Link!AgentWrite(node[over[t]], over[t], Envelope("result", t, r))
  /\ UNCHANGED <<vars, serverVars, agentVars, down,
                 sender, over, cancelled, runs, caught, crashes>>

\* Mutant of AgentCancel: the executions are registered per connection.
AgentCancelHere(n) ==
  /\ Link!AgentReceive(n)
  /\ LET f == Head(down[conn[n]]) IN
     /\ f.type = "cancel"
     /\ cancelled' = IF exec[f.task] = "running" /\ over[f.task] = conn[n]
                     THEN cancelled \cup {f.task} ELSE cancelled
     /\ caught' = IF f.result = "late" THEN caught \cup {f.task} ELSE caught
  /\ UNCHANGED <<vars, up, sender, exec, over, outcome, runs, crashes>>

\* handleCancel: only an execution that is registered has a context to cancel.
AgentCancel(n) ==
  /\ Link!AgentReceive(n)
  /\ LET f == Head(down[conn[n]]) IN
     /\ f.type = "cancel"
     /\ cancelled' = IF exec[f.task] = "running"
                     THEN cancelled \cup {f.task} ELSE cancelled
     /\ caught' = IF f.result = "late" THEN caught \cup {f.task} ELSE caught
  /\ UNCHANGED <<vars, up, sender, exec, over, outcome, runs, crashes>>

\* The agent process dies and takes its executions with it.
AgentCrash(n) ==
  /\ restarts + crashes < MaxCrashes
  /\ crashes' = crashes + 1
  /\ IF conn[n] = NoSession THEN UNCHANGED linkVars ELSE Link!HangUp(n)
  /\ exec' = [t \in Tasks |->
                IF exec[t] = "running" /\ node[over[t]] = n THEN "lost" ELSE exec[t]]
  /\ UNCHANGED <<vars, sender, over, cancelled, outcome, runs, caught>>

------------------------------------------------------------------------------
SystemNext ==
  \/ TableStep
  \/ \E t \in Tasks :
       RouteToHub(t) \/ SendToSession(t) \/ \E r \in Results : AgentFinish(t, r)
  \/ \E th \in Threads : NotifySession(th)
  \/ \E s \in Sessions : Receive(s)
  \/ \E n \in Nodes : AgentExecute(n) \/ AgentCancel(n) \/ AgentCrash(n)
  \/ Link!LinkStep /\ UNCHANGED <<vars, execVars>>
  \/ RestartSystem

SystemSpec == SystemInit /\ [][SystemNext]_systemVars

------------------------------------------------------------------------------
(* Properties.                                                             *)

\* A task shown as successful has been executed to success by an agent, over
\* reconnections, kicked sessions, crashes and restarts on either side.
SuccessWasExecuted ==
  \A t \in Tasks :
    "success" \in {status[t], row[t], verdict[t]} => outcome[t] = "success"

\* The agent has no memory of the tasks it has executed, so the CM must not
\* send one twice, nor to another node than its own.
RunsOnceOnItsNode ==
  \A t \in Tasks :
    /\ runs[t] <= 1
    /\ over[t] # NoSession => node[over[t]] = nodeOf[t]

\* A cancel that is sent after the delivery (by the sweeper, an administrator
\* or a caller that gives up) and reaches the agent stops the execution: it
\* never overtakes the execute, and finds the execution registered.
CancelCatches ==
  \A t \in caught : exec[t] = "running" => t \in cancelled

\* One live session per node, and the one the senders find.
HubKeepsTheLive == Link!HubKeepsTheLive

------------------------------------------------------------------------------
(* The inductive invariant that they follow from, next to that of the task *)
(* table.                                                                  *)

\* Every task is for a node.
TasksAreOf == \A t \in Tasks : pc[t] # "unborn" => nodeOf[t] \in Nodes

\* A session that has not been dialled is known to nobody.
FreshIsUnknown ==
  \A s \in Sessions : handler[s] = "none" =>
    /\ down[s] = <<>> /\ up[s] = <<>>
    /\ \A n \in Nodes : hub[n] # s /\ conn[n] # s
    /\ \A t \in Tasks : sender[t] # s /\ over[t] # s

\* The hub, the agents and the senders know sessions of the right node.
SessionsAreOf ==
  /\ \A s \in Sessions : handler[s] # "none" => node[s] \in Nodes
  /\ \A n \in Nodes : hub[n] # NoSession => node[hub[n]] = n
  /\ \A n \in Nodes : conn[n] # NoSession => node[conn[n]] = n
  /\ \A t \in Tasks : pc[t] = "send" => sender[t] \in Sessions /\ node[sender[t]] = nodeOf[t]

\* Only the session its agent is connected by holds frames for it.
DownIsHeld == \A s \in Sessions : down[s] # <<>> => conn[node[s]] = s

Delivered(t) == pc[t] \notin Undelivered \cup {"unborn"}

\* An execute under way is for a task of that node which was sent, has not
\* run and whose agent has not been told to cancel.
ExecuteIsFirst ==
  \A s \in Sessions : \A i \in DOMAIN down[s] :
    LET f == down[s][i] IN f.type = "execute" =>
      /\ f.task \in Tasks /\ node[s] = nodeOf[f.task]
      /\ sent[f.task] > 0 /\ runs[f.task] = 0 /\ f.task \notin caught

CancelIsForNode ==
  \A s \in Sessions : \A i \in DOMAIN down[s] :
    LET f == down[s][i] IN f.type = "cancel" =>
      /\ f.task \in Tasks /\ pc[f.task] # "unborn" /\ node[s] = nodeOf[f.task]
      /\ f.result = "late" => Delivered(f.task)

\* There is one execute of a task, and a late cancel comes behind it.
OneExecute ==
  \A r, s \in Sessions : \A i \in DOMAIN down[r], j \in DOMAIN down[s] :
    /\ down[r][i].type = "execute" /\ down[s][j].type = "execute"
    /\ down[r][i].task = down[s][j].task
    => r = s /\ i = j

LateIsLater ==
  \A s \in Sessions : \A i, j \in DOMAIN down[s] :
    /\ down[s][i].type = "execute"
    /\ down[s][j].type = "cancel" /\ down[s][j].result = "late"
    /\ down[s][i].task = down[s][j].task
    => i < j

\* An agent answers for tasks that it was sent, and as they have ended.
AnswersAreTrue ==
  \A s \in Sessions : \A i \in DOMAIN up[s] :
    LET f == up[s][i] IN
      /\ f.type \in {"ack", "result"} /\ f.task \in Tasks /\ sent[f.task] > 0
      /\ f.type = "result" => f.result \in Results /\ outcome[f.task] = f.result

\* What has run was sent and has run somewhere; what has ended does not run.
RunsAreRecorded ==
  \A t \in Tasks :
    /\ runs[t] = 0 => exec[t] = "none" /\ over[t] = NoSession
    /\ runs[t] > 0 => sent[t] > 0 /\ over[t] # NoSession
    /\ outcome[t] # "none" => exec[t] = "ended"
    /\ t \in reported => outcome[t] = "success"
    /\ t \in caught => Delivered(t)

SystemInv ==
  /\ IInv
  /\ SystemTypeOK
  /\ TasksAreOf
  /\ FreshIsUnknown
  /\ SessionsAreOf
  /\ DownIsHeld
  /\ ExecuteIsFirst
  /\ CancelIsForNode
  /\ OneExecute
  /\ LateIsLater
  /\ AnswersAreTrue
  /\ RunsAreRecorded
  /\ RunsOnceOnItsNode
  /\ CancelCatches
  /\ HubKeepsTheLive
==============================================================================
