---------------------------- MODULE ReleasePromise ----------------------------
(***************************************************************************)
(* What the release orchestration promises to administrators, without      *)
(* transactions, executors or strategies: the operations on the releases   *)
(* of a deployment take effect one at a time, each on the phase its        *)
(* release is in then, with the weights of its two versions changed in the *)
(* same instant.  Any share may be chosen where the code computes one.     *)
(* ReleaseRefinement shows that Release keeps this promise.                *)
(***************************************************************************)
EXTENDS Naturals

CONSTANTS Versions, Releases, Full

VARIABLES
  weight,   \* what each version gets of the traffic
  stage     \* the phase and the pair of versions of each release

vars == <<weight, stage>>

Absent  == [phase |-> "none"]
Removed == [phase |-> "deleted"]
Busy    == {"created", "running", "paused", "active"}

Init ==
  /\ weight \in [Versions -> {0, Full}]
  /\ stage = [r \in Releases |-> Absent]

\* No other release of the deployment is active.
Free(r) == \A q \in Releases \ {r} : stage[q].phase \notin Busy

\* The secondary version of a pair gets the share, the primary the rest.
Split(pair, share) ==
  weight' = [weight EXCEPT ![pair.secondary] = share, ![pair.primary] = Full - share]

Move(r, phase) == stage' = [stage EXCEPT ![r].phase = phase]

Enter(r, pair, phase) ==
  stage' = [stage EXCEPT ![r] =
              [phase |-> phase, primary |-> pair.primary, secondary |-> pair.secondary]]

\* Two versions, to share the traffic.
Pairs == {pair \in [primary : Versions, secondary : Versions] : pair.primary # pair.secondary}

\* A canary is registered; a blue-green release is in effect at once.
Open(r) ==
  /\ stage[r] = Absent /\ Free(r)
  /\ \E pair \in Pairs :
       \/ Enter(r, pair, "created") /\ UNCHANGED weight
       \/ Enter(r, pair, "active") /\ Split(pair, 0)

Start(r) ==
  /\ stage[r].phase \in {"created", "paused", "rolled_back"} /\ Free(r)
  /\ Move(r, "running")
  /\ \E share \in 1..Full : Split(stage[r], share)

Pause(r)  == stage[r].phase = "running" /\ Move(r, "paused") /\ UNCHANGED weight
Resume(r) == stage[r].phase = "paused" /\ Move(r, "running") /\ UNCHANGED weight

\* A canary that is under way gets another share, be it all or nothing.
Adjust(r) ==
  /\ stage[r].phase \in {"running", "paused"}
  /\ UNCHANGED stage
  /\ \E share \in 0..Full : Split(stage[r], share)

Promote(r) ==
  /\ stage[r].phase \in {"running", "paused"}
  /\ Move(r, "completed") /\ Split(stage[r], Full)

RollBack(r) ==
  /\ stage[r].phase \in {"created", "running", "paused"}
  /\ Move(r, "rolled_back") /\ Split(stage[r], 0)

\* The secondary version of a blue-green release takes over.
Switch(r) ==
  /\ stage[r].phase = "active"
  /\ UNCHANGED stage /\ Split(stage[r], Full)

\* The record goes, the weights stay: of a canary, in whatever phase it is by then.
Remove(r) ==
  /\ stage[r].phase \notin {"none", "active"}
  /\ stage' = [stage EXCEPT ![r] = Removed]
  /\ UNCHANGED weight

\* An operation that changes nothing is a stutter.
Next ==
  /\ vars' # vars
  /\ \E r \in Releases :
       \/ Open(r) \/ Start(r) \/ Pause(r) \/ Resume(r) \/ Adjust(r)
       \/ Promote(r) \/ RollBack(r) \/ Switch(r) \/ Remove(r)

Spec == Init /\ [][Next]_vars
==============================================================================
