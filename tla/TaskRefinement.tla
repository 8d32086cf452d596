--------------------------- MODULE TaskRefinement ----------------------------
(***************************************************************************)
(* TaskManager implements TaskPromise.  A task counts as settled when its  *)
(* status is terminal and its delivery is over: until then deliver may     *)
(* still overwrite the status.                                             *)
(***************************************************************************)
EXTENDS TaskManager

Outcome(t) ==
  IF pc[t] = "unborn" THEN "none"
  ELSE IF t \notin table THEN "gone"
  ELSE IF pc[t] \in Undelivered \/ status[t] \notin Terminal THEN "open"
  ELSE status[t]

outcomeBar == [t \in Tasks |-> Outcome(t)]
\* Being told a status that is not terminal is an error to the caller (await).
Told(t) ==
  IF verdict[t] = Absent THEN "nothing"
  ELSE IF verdict[t] \in Terminal THEN verdict[t] ELSE "error"

toldBar    == [t \in Tasks |-> Told(t)]
handedBar  == {t \in Tasks : sent[t] > 0}

Promise == INSTANCE TaskPromise
             WITH outcome <- outcomeBar, told <- toldBar, handed <- handedBar

\* Every behaviour of the task manager is one the promise allows.
Implements == Promise!Spec
==============================================================================
