------------------------------- MODULE Lease --------------------------------
(***************************************************************************)
(* The lease of a volume's disk, as a value: what it may become, and when. *)
(* WriterLease makes a specification of one lease of it; NodeAgent sees    *)
(* the platform as one such lease for each volume.                         *)
(***************************************************************************)
EXTENDS Naturals

CONSTANTS
  VM,     \* who may hold a lease
  NoVM    \* nobody

ASSUME LeaseAssumption == NoVM \notin VM

\* gen: the generation of the latest grant; holder: who holds the lease;
\* open: whether its gate is open; uses: the uses the holder has registered;
\* cloud: the VM the disk is attached to.
Unleased ==
  [gen |-> 0, holder |-> NoVM, open |-> FALSE, uses |-> {}, cloud |-> NoVM]

CanGrant(l) == l.holder = NoVM /\ l.cloud = NoVM
Granted(l, i) == [l EXCEPT !.gen = @ + 1, !.holder = i, !.open = TRUE]

CanTake(l) == l.open
DiskTaken(l) == [l EXCEPT !.cloud = l.holder]

CanAcquire(l) == l.open /\ l.cloud = l.holder
Acquired(l, u) == [l EXCEPT !.uses = @ \cup {u}]
Released(l, u) == [l EXCEPT !.uses = @ \ {u}]

CanClose(l) == l.open
Closed(l) == [l EXCEPT !.open = FALSE]

CanGive(l) == ~l.open /\ l.uses = {}
DiskGiven(l) == [l EXCEPT !.cloud = NoVM]

CanRetire(l) == CanGive(l) /\ l.cloud = NoVM
Retired(l) == [l EXCEPT !.holder = NoVM]

\* One step of a lease, whoever takes it.
LeaseStep(l, m) ==
  \/ CanGrant(l) /\ \E i \in VM : m = Granted(l, i)
  \/ CanTake(l) /\ m = DiskTaken(l)
  \/ CanAcquire(l) /\ \E u \in m.uses : m = Acquired(l, u)
  \/ \E u \in l.uses : m = Released(l, u)
  \/ CanClose(l) /\ m = Closed(l)
  \/ CanGive(l) /\ m = DiskGiven(l)
  \/ CanRetire(l) /\ m = Retired(l)
=============================================================================
