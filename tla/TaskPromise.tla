----------------------------- MODULE TaskPromise -----------------------------
(***************************************************************************)
(* What the task system promises to the callers of Manager and to the node *)
(* agents, without threads, frames, tables or rows: a task is open until   *)
(* it is settled once, it is handed to an agent at most once, success is   *)
(* only ever what an agent reported, and what a caller is told, an error   *)
(* apart, is the outcome.  A crash of the process may lose outcomes, but   *)
(* leaves no task open.  TaskRefinement shows that TaskManager keeps this promise.        *)
(***************************************************************************)
CONSTANTS Tasks

VARIABLES
  outcome,   \* what has become of each task
  told,      \* what its caller has been told
  handed,    \* tasks that an agent was asked to execute
  reported   \* tasks that were reported as successful

vars == <<outcome, told, handed, reported>>

Settled == {"success", "failed", "cancelled", "timeout"}

Init ==
  /\ outcome  = [t \in Tasks |-> "none"]
  /\ told     = [t \in Tasks |-> "nothing"]
  /\ handed   = {}
  /\ reported = {}

Open(t) ==
  /\ outcome[t] = "none"
  /\ outcome' = [outcome EXCEPT ![t] = "open"]
  /\ UNCHANGED <<told, handed, reported>>

Hand(t) ==
  /\ outcome[t] = "open" /\ t \notin handed
  /\ handed' = handed \cup {t}
  /\ UNCHANGED <<outcome, told, reported>>

Report(t) ==
  /\ t \in handed
  /\ reported' = reported \cup {t}
  /\ UNCHANGED <<outcome, told, handed>>

\* An open task is settled; its caller may be sent away with an error then.
Settle(t, o) ==
  /\ outcome[t] = "open"
  /\ outcome' = [outcome EXCEPT ![t] = o]
  /\ reported' \in {reported, reported \cup (handed \cap {t})}
  /\ o = "success" => t \in reported'
  /\ told' \in {told, [told EXCEPT ![t] = "error"]}
  /\ UNCHANGED handed

\* The caller gets the outcome of a task that is settled, or an error, which
\* says nothing about the task.
Tell(t) ==
  /\ outcome[t] # "none"
  /\ told' \in {[told EXCEPT ![t] = "error"]} \cup
               {[told EXCEPT ![t] = o] : o \in Settled \cap {outcome[t]}}
  /\ UNCHANGED <<outcome, handed, reported>>

\* A probe is dropped when its caller has been answered, and only then.
Forget(t) ==
  /\ outcome[t] # "none" /\ told[t] # "nothing"
  /\ outcome' = [outcome EXCEPT ![t] = "gone"]
  /\ UNCHANGED <<told, handed, reported>>

\* Whatever survives a crash is settled.
Crash ==
  /\ outcome' \in [Tasks -> {"none", "gone"} \cup Settled]
  /\ \A t \in Tasks :
       /\ outcome[t] = "none" <=> outcome'[t] = "none"
       /\ outcome'[t] = "success" => t \in reported
  /\ told' = [t \in Tasks |-> "nothing"]
  /\ UNCHANGED <<handed, reported>>

Next ==
  \/ \E t \in Tasks : Open(t) \/ Hand(t) \/ Report(t) \/ Tell(t) \/ Forget(t)
  \/ \E t \in Tasks, o \in Settled : Settle(t, o)
  \/ Crash

Spec == Init /\ [][Next]_vars
==============================================================================
