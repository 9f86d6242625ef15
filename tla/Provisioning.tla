---------------------------- MODULE Provisioning ----------------------------
(***************************************************************************)
(* What CreateVolume of internal/driver/controller.go asks the platform    *)
(* for, given the request of the provisioner: a place, a capability and a  *)
(* size.  It is a function of the request, computed again by every retry.  *)
(***************************************************************************)
EXTENDS Naturals, Sequences

CONSTANTS
  Key,           \* topology keys, "region" and "zone" among them
  Segment,       \* their values
  Absent,        \* the empty string, which is what a missing key reads as
  DefaultPlace,  \* the flags -region and -zone of the controller
  DefaultSize    \* 1 GiB

ASSUME ProvisioningAssumption ==
  /\ {"region", "zone"} \subseteq Key
  /\ Absent \notin Segment
  /\ DefaultSize \in Nat \ {0}

\* A topology term names some keys.
Term == UNION {[K -> Segment] : K \in SUBSET Key}

CapabilityRequest ==
  [singleWriter : BOOLEAN, kind : {"block", "mount", "none"},
   fs : {"ext4", "xfs", "other", Absent}, flags : BOOLEAN]

\* required and limit are 0 when the request does not give them.
Request == [caps : Seq(CapabilityRequest), required : Nat, limit : Nat,
            preferred : Seq(Term), requisite : Seq(Term)]

(***************************************************************************)
(* Capabilities: each is supported and means the same as the first.        *)
(***************************************************************************)
Understood(c) ==
  /\ c.singleWriter
  /\ \/ c.kind = "block"
     \/ c.kind = "mount" /\ c.fs # "other" /\ ~c.flags
Meaning(c) ==
  IF c.kind = "block" THEN <<"block", Absent>>
  ELSE <<"mount", IF c.fs = Absent THEN "ext4" ELSE c.fs>>
Consistent(r) ==
  /\ r.caps # <<>>
  /\ \A k \in DOMAIN r.caps :
       Understood(r.caps[k]) /\ Meaning(r.caps[k]) = Meaning(r.caps[1])

(***************************************************************************)
(* Topology: the first complete term, the preferred ones before the        *)
(* requisite ones, that some requisite term admits.                        *)
(***************************************************************************)
At(t, k) == IF k \in DOMAIN t THEN t[k] ELSE Absent
Complete(t) == At(t, "region") # Absent /\ At(t, "zone") # Absent
Meets(t, required) == \A k \in DOMAIN required : At(t, k) = required[k]
Allowed(r, t) ==
  \/ r.requisite = <<>>
  \/ \E j \in DOMAIN r.requisite : Meets(t, r.requisite[j])

Offered(r) == r.preferred \o r.requisite
\* Slip: a preferred term is taken as it is.
SuitableWhenComplete(r) ==
  {k \in DOMAIN Offered(r) : Complete(Offered(r)[k])}
Suitable(r) ==
  {k \in DOMAIN Offered(r) :
     Complete(Offered(r)[k]) /\ Allowed(r, Offered(r)[k])}
Choice(r) == CHOOSE k \in Suitable(r) : \A j \in Suitable(r) : k <= j

HasPlace(r) == Offered(r) = <<>> \/ Suitable(r) # {}
Place(r) ==
  IF Suitable(r) = {} THEN DefaultPlace
  ELSE LET t == Offered(r)[Choice(r)] IN <<t["region"], t["zone"]>>

(***************************************************************************)
(* Capacity.                                                               *)
(***************************************************************************)
Size(r) == IF r.required > 0 THEN r.required ELSE DefaultSize
SizeFits(r) == r.limit = 0 \/ Size(r) <= r.limit

\* The platform is asked; otherwise the request is refused.
Asks(r) == Consistent(r) /\ HasPlace(r) /\ SizeFits(r)
-----------------------------------------------------------------------------
\* A term, as far as it speaks of region and zone, agrees with a place.
Covers(t, place) ==
  /\ "region" \in DOMAIN t => t["region"] = place[1]
  /\ "zone" \in DOMAIN t => t["zone"] = place[2]

\* Where a Pod that asked for r can run, its volume can be used.
Reachable(r, place) ==
  r.requisite # <<>> =>
    \E j \in DOMAIN r.requisite : Covers(r.requisite[j], place)
=============================================================================
