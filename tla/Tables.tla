------------------------------- MODULE Tables -------------------------------
(***************************************************************************)
(* Go maps: functions with an explicit, changing domain.                   *)
(***************************************************************************)
EXTENDS Functions

NoEntries == [k \in {} |-> k]
With(f, k, x) == [j \in DOMAIN f \cup {k} |-> IF j = k THEN x ELSE f[j]]
Without(f, k) == Restrict(f, DOMAIN f \ {k})
=============================================================================
