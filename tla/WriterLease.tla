---------------------------- MODULE WriterLease -----------------------------
(***************************************************************************)
(* What the platform promises about one volume: a lease of its disk.       *)
(*                                                                         *)
(* The lease is granted to one VM at a time, each time under a new         *)
(* generation.  While its gate is open the disk may be attached to the     *)
(* holder and the holder may register uses of it; once the gate is closed  *)
(* uses only go, and the disk leaves the holder after the last of them.    *)
(* It says nothing of calls, passes, transactions or crashes.              *)
(***************************************************************************)
EXTENDS Lease

VARIABLE lease

Init == lease = Unleased
Next == LeaseStep(lease, lease')
Spec == Init /\ [][Next]_lease

\* The lease does what it is for: the disk is nowhere but at the holder, and
\* a registered use is a use of a disk that is there.
Exclusive ==
  /\ lease.cloud \in {NoVM, lease.holder}
  /\ lease.uses # {} => lease.holder # NoVM /\ lease.cloud = lease.holder
=============================================================================
