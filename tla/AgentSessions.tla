---------------------------- MODULE AgentSessions ----------------------------
(***************************************************************************)
(* The persistent connections between the node agents and the container    *)
(* manager (CM): the hub with its one current session per node, the        *)
(* handler goroutine of each session (handleWS), the session's send queue, *)
(* and the agent's own connection loop (wsclient).                         *)
(*                                                                         *)
(* A session carries frames in order in both directions; what is under way *)
(* to a side that has left is lost.  What the frames say is left to TaskSystem:   *)
(* Frames is any set, with Ready the agent.ready frame.                    *)
(***************************************************************************)
EXTENDS Naturals, Sequences

CONSTANTS
  Nodes,      \* nodes, each with one agent process
  Sessions,   \* identities of the sessions, each used at most once
  NoSession,  \* no session
  Frames,     \* frames to and from the agents
  Ready,      \* the agent.ready frame
  SendBuf     \* bound: room of a session's send queue and its wire

VARIABLES
  hub,        \* Hub.sessions
  handler,    \* where the goroutine of handleWS is
  node,       \* Session.NodeID
  victim,     \* the session that hub.Add returned as kicked
  open,       \* Session.done is not closed
  down,       \* frames to the agent: the send channel and the wire
  up,         \* frames from the agent that the read loop has not read
  conn,       \* the agent's connection
  serving     \* the agent has passed its handshake on it

serverVars == <<hub, handler, node, victim, open>>
agentVars  == <<conn, serving>>
vars       == <<serverVars, down, up, agentVars>>

HandlerPC == {"none", "admitted", "kick", "ready", "serving", "leave", "ending", "ended"}

TypeOK ==
  /\ hub       \in [Nodes -> Sessions \cup {NoSession}]
  /\ handler   \in [Sessions -> HandlerPC]
  /\ node      \in [Sessions -> Nodes \cup {NoSession}]
  /\ victim    \in [Sessions -> Sessions \cup {NoSession}]
  /\ open      \in [Sessions -> BOOLEAN]
  /\ down      \in [Sessions -> Seq(Frames)]
  /\ up        \in [Sessions -> Seq(Frames)]
  /\ conn      \in [Nodes -> Sessions \cup {NoSession}]
  /\ serving   \in [Nodes -> BOOLEAN]

Init ==
  /\ hub       = [n \in Nodes |-> NoSession]
  /\ handler   = [s \in Sessions |-> "none"]
  /\ node      = [s \in Sessions |-> NoSession]
  /\ victim    = [s \in Sessions |-> NoSession]
  /\ open      = [s \in Sessions |-> FALSE]
  /\ down      = [s \in Sessions |-> <<>>]
  /\ up        = [s \in Sessions |-> <<>>]
  /\ conn      = [n \in Nodes |-> NoSession]
  /\ serving   = [n \in Nodes |-> FALSE]

------------------------------------------------------------------------------
(* The handler goroutine of a session.                                     *)

Goto(s, from, to) ==
  /\ handler[s] = from
  /\ handler' = [handler EXCEPT ![s] = to]

\* The agent dials and sends agent.hello; the CM admits it (Authenticate).
Dial(n, s) ==
  /\ conn[n] = NoSession
  /\ Goto(s, "none", "admitted")
  /\ node' = [node EXCEPT ![s] = n]
  /\ open' = [open EXCEPT ![s] = TRUE]
  /\ conn' = [conn EXCEPT ![n] = s]
  /\ serving' = [serving EXCEPT ![n] = FALSE]
  /\ UNCHANGED <<hub, victim, down, up>>

\* Hub.Add: from here on senders find the new session.
HubAdd(s) ==
  /\ Goto(s, "admitted", "kick")
  /\ victim' = [victim EXCEPT ![s] = hub[node[s]]]
  /\ hub' = [hub EXCEPT ![node[s]] = s]
  /\ UNCHANGED <<node, open, down, up, agentVars>>

\* The session that was replaced is closed.  OnSessionStart, which follows,
\* only reaches the node store.
Kick(s) ==
  /\ Goto(s, "kick", "ready")
  /\ open' = [r \in Sessions |-> open[r] /\ r # victim[s]]
  /\ victim' = [victim EXCEPT ![s] = NoSession]
  /\ UNCHANGED <<hub, node, down, up, agentVars>>

\* Session.Send accepts while the session is open and the queue has room.
Accepts(s) == open[s] /\ Len(down[s]) < SendBuf

\* What is accepted for an agent that has hung up is never read.
Enqueue(s, f) ==
  down' = IF Accepts(s) /\ conn[node[s]] = s THEN [down EXCEPT ![s] = Append(@, f)] ELSE down

\* agent.ready is queued, whatever was queued since HubAdd comes first.
SendReady(s) ==
  /\ Goto(s, "ready", "serving")
  /\ Enqueue(s, Ready)
  /\ UNCHANGED <<hub, node, victim, open, up, agentVars>>

\* The read loop hands a frame to its callback; frames that were buffered
\* when the session was closed are still read.
Receive(s) ==
  /\ handler[s] = "serving"
  /\ up[s] # <<>>
  /\ up' = [up EXCEPT ![s] = Tail(@)]
  /\ UNCHANGED <<serverVars, down, agentVars>>

\* writePump gives up on a write or a ping, and closes the session.
PumpFails(s) ==
  /\ handler[s] \in {"serving", "leave", "ending"} /\ open[s]
  /\ open' = [open EXCEPT ![s] = FALSE]
  /\ UNCHANGED <<hub, handler, node, victim, down, up, agentVars>>

\* The read loop ends: the session was closed, the agent has gone, or the
\* connection timed out or broke.
ReadEnds(s) ==
  /\ Goto(s, "serving", "leave")
  /\ up' = [up EXCEPT ![s] = <<>>]
  /\ UNCHANGED <<hub, node, victim, open, down, agentVars>>

\* Mutant of HubRemove: whatever session the node has now is taken out.
HubRemoveAny(s) ==
  /\ Goto(s, "leave", "ending")
  /\ hub' = [hub EXCEPT ![node[s]] = NoSession]
  /\ UNCHANGED <<node, victim, open, down, up, agentVars>>

\* Hub.Remove: only the current session is taken out.
HubRemove(s) ==
  /\ Goto(s, "leave", "ending")
  /\ hub' = [n \in Nodes |-> IF n = node[s] /\ hub[n] = s THEN NoSession ELSE hub[n]]
  /\ UNCHANGED <<node, victim, open, down, up, agentVars>>

\* close(false); OnSessionEnd only reaches the node store.
SessionEnd(s) ==
  /\ Goto(s, "ending", "ended")
  /\ open' = [open EXCEPT ![s] = FALSE]
  /\ UNCHANGED <<hub, node, victim, down, up, agentVars>>

------------------------------------------------------------------------------
(* The agent's connection loop.                                            *)

\* The first frame must be agent.ready, and Docker must answer the preflight.
Handshake(n) ==
  /\ conn[n] # NoSession /\ ~serving[n]
  /\ down[conn[n]] # <<>> /\ Head(down[conn[n]]) = Ready
  /\ down' = [down EXCEPT ![conn[n]] = Tail(@)]
  /\ serving' = [serving EXCEPT ![n] = TRUE]
  /\ UNCHANGED <<serverVars, up, conn>>

\* The connection ends: a failed handshake or preflight, a read error, a
\* failed heartbeat.  Run dials again after a backoff.
HangUp(n) ==
  /\ conn[n] # NoSession
  /\ conn' = [conn EXCEPT ![n] = NoSession]
  /\ serving' = [serving EXCEPT ![n] = FALSE]
  /\ down' = [down EXCEPT ![conn[n]] = <<>>]
  /\ UNCHANGED <<serverVars, up>>

\* The agent's read loop takes the next frame.
AgentReceive(n) ==
  /\ conn[n] # NoSession /\ serving[n]
  /\ down[conn[n]] # <<>>
  /\ down' = [down EXCEPT ![conn[n]] = Tail(@)]
  /\ UNCHANGED <<serverVars, agentVars>>

\* A write of the agent to the connection s, perhaps one it has left.
AgentWrite(n, s, f) ==
  up' = IF conn[n] = s /\ open[s] /\ handler[s] \in {"admitted", "kick", "ready", "serving"}
        THEN [up EXCEPT ![s] = Append(@, f)] ELSE up

\* The CM process dies: every session of it ends without its handler.
ServerCrash ==
  /\ hub'      = [n \in Nodes |-> NoSession]
  /\ handler'  = [s \in Sessions |-> IF handler[s] = "none" THEN "none" ELSE "ended"]
  /\ open'     = [s \in Sessions |-> FALSE]
  /\ victim'   = [s \in Sessions |-> NoSession]
  /\ up'       = [s \in Sessions |-> <<>>]
  /\ UNCHANGED <<node, down, agentVars>>

------------------------------------------------------------------------------
HandlerStep(s) ==
  \/ HubAdd(s)
  \/ Kick(s)
  \/ SendReady(s)
  \/ PumpFails(s)
  \/ ReadEnds(s)
  \/ HubRemove(s)
  \/ SessionEnd(s)

\* The steps that the frames' contents do not matter to.
LinkStep ==
  \/ \E n \in Nodes, s \in Sessions : Dial(n, s)
  \/ \E s \in Sessions : HandlerStep(s)
  \/ \E n \in Nodes : Handshake(n) \/ HangUp(n)

------------------------------------------------------------------------------
(* Properties.                                                             *)

\* The handler is past Hub.Add and nothing has ended the session.
Live(s) == handler[s] \in {"kick", "ready", "serving"} /\ open[s]

\* s is about to be closed by the session that took its place.
Condemned(s) == \E r \in Sessions : handler[r] = "kick" /\ victim[r] = s

\* One session per node, and the newest: a live session is the one the
\* senders find, however the old session's handler and the new one's
\* interleave (Add, the kick, the identity check of Remove).
HubKeepsTheLive ==
  \A s \in Sessions : Live(s) => hub[node[s]] = s \/ Condemned(s)
==============================================================================
