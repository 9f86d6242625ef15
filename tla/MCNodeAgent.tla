---------------------------- MODULE MCNodeAgent -----------------------------
(***************************************************************************)
(* Instances of NodeAgent for TLC.                                         *)
(***************************************************************************)
EXTENDS NodeAgent, TLC

\* An RPC may break before any of its effects,
AnyPoint == Point
\* or anywhere but between AcquireUse and the journal write.
NotBeforeRecord == Point \ {"record"}

PathSymmetry == Permutations(Path) \cup Permutations(Volume)
=============================================================================
