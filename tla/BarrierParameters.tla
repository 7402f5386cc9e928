-------------------------- MODULE BarrierParameters --------------------------
(***************************************************************************)
(* The project two participants share before a run (ExecutionBarrier).      *)
(***************************************************************************)
EXTENDS Naturals

CONSTANTS
  Docs,       \* paths of the project
  Initial,    \* those that exist at the start
  MaxChanges  \* bound: edits and new documents

ASSUME BarrierAssumption == Initial \subseteq Docs /\ MaxChanges \in Nat
=============================================================================
