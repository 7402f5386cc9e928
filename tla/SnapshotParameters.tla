------------------------- MODULE SnapshotParameters -------------------------
(***************************************************************************)
(* The project a participant joins (ProjectSnapshots).  The files are       *)
(* numbers, in the order of their paths, because sendSnapshot sends them in *)
(* that order; a file has at least one chunk, because an empty file is sent *)
(* as one chunk without bytes.                                              *)
(***************************************************************************)
EXTENDS Naturals, FiniteSets

CONSTANTS
  Files,     \* paths, as numbers from 1 on
  Streamed,  \* binary files: read from the disk while they are sent
  Chunks,    \* chunks of a file
  MaxEdits   \* bound: changes of the project

ASSUME SnapshotAssumption ==
  /\ Files \subseteq Nat \ {0} /\ IsFiniteSet(Files)
  /\ Streamed \subseteq Files
  /\ Chunks \in Nat \ {0} /\ MaxEdits \in Nat
=============================================================================
