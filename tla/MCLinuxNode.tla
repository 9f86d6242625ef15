---------------------------- MODULE MCLinuxNode -----------------------------
(***************************************************************************)
(* Instances of LinuxNode for TLC.                                         *)
(***************************************************************************)
EXTENDS LinuxNode, TLC

\* An RPC may break before any of its effects.
AnyPoint == Point
NotBeforeRecord == Point \ {"record"}
AnyHostPoint == HostPoint

PathSymmetry == Permutations(Path)
=============================================================================
