-------------------------- MODULE ReleaseRefinement --------------------------
(***************************************************************************)
(* Release implements ReleasePromise: whatever transactions read, and      *)
(* whenever they commit, each takes effect as if it had run alone at its   *)
(* commit.  Of a row the promise knows the phase and the pair of versions. *)
(***************************************************************************)
EXTENDS Release

StageOf(row) ==
  IF row.phase \in Terminal \cup Active
  THEN [phase |-> row.phase, primary |-> row.primary, secondary |-> row.secondary]
  ELSE row

stageBar == [r \in Releases |-> StageOf(rel[r])]

Promise == INSTANCE ReleasePromise WITH stage <- stageBar

\* Every behaviour of the release orchestration is one the promise allows:
\* requests and executors of all gateways, interleaved (Transition, updateState).
Implements == Promise!Spec
==============================================================================
