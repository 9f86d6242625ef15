------------------------- MODULE ProvisioningProofs -------------------------
(***************************************************************************)
(* What CreateVolume computes from any request (controller.go:39-70).      *)
(***************************************************************************)
EXTENDS Provisioning, WellFoundedInduction, TLAPS

\* A concatenation has the one's elements, then the other's.
LEMMA Concatenation ==
  ASSUME NEW S, NEW s \in Seq(S), NEW t \in Seq(S)
  PROVE  /\ s \o t \in Seq(S)
         /\ \A k \in DOMAIN s : k \in DOMAIN (s \o t) /\ (s \o t)[k] = s[k]
         /\ \A k \in DOMAIN t :
              /\ Len(s) + k \in DOMAIN (s \o t)
              /\ (s \o t)[Len(s) + k] = t[k]
<1>1. DOMAIN s = 1 .. Len(s) /\ DOMAIN t = 1 .. Len(t)
  OBVIOUS
<1>2. s \o t \in Seq(S) /\ DOMAIN (s \o t) = 1 .. Len(s) + Len(t)
  OBVIOUS
<1> QED BY <1>1, <1>2

\* The loops of controller.go:42-66 stop at the first suitable term.
LEMMA ChoiceIsFirst ==
  ASSUME NEW r \in Request, Suitable(r) # {}
  PROVE  /\ Choice(r) \in Suitable(r)
         /\ \A j \in Suitable(r) : Choice(r) <= j
<1>1. Suitable(r) \subseteq Nat
  <2>1. Offered(r) \in Seq(Term)
    BY DEF Offered, Request
  <2> QED BY <2>1 DEF Suitable
<1>2. PICK k \in Suitable(r) :
        \A j \in Suitable(r) : ~(<<j, k>> \in OpToRel(<, Nat))
  BY <1>1, NatLessThanWellFounded, WFMin
<1>3. \A i, j \in Nat : i < j => <<i, j>> \in OpToRel(<, Nat)
  BY DEF OpToRel
<1>4. \A j \in Suitable(r) : k <= j
  <2> TAKE j \in Suitable(r)
  <2>1. ~(j < k)
    BY <1>1, <1>2, <1>3
  <2>2. j \in Nat /\ k \in Nat
    BY <1>1
  <2> QED BY <2>1, <2>2
<1> QED BY <1>4 DEF Choice

\* A volume is placed only where the request's requisite topology admits it,
\* whatever is preferred (controller.go:48-58).
THEOREM PlaceIsReachable ==
  ASSUME NEW r \in Request, HasPlace(r)
  PROVE  Reachable(r, Place(r))
<1> SUFFICES ASSUME r.requisite # <<>>
             PROVE  \E j \in DOMAIN r.requisite :
                      Covers(r.requisite[j], Place(r))
  BY DEF Reachable
<1>1. Suitable(r) # {}
  <2>1. Offered(r) # <<>>
    BY DEF Offered, Request
  <2> QED BY <2>1 DEF HasPlace
<1> DEFINE t == Offered(r)[Choice(r)]
<1>2. Complete(t) /\ Allowed(r, t)
  BY <1>1, ChoiceIsFirst DEF Suitable
<1>3. PICK j \in DOMAIN r.requisite : Meets(t, r.requisite[j])
  BY <1>2 DEF Allowed
<1>4. Place(r) = <<t["region"], t["zone"]>>
  BY <1>1 DEF Place
<1>5. At(t, "region") = t["region"] /\ At(t, "zone") = t["zone"]
  BY <1>2 DEF Complete, At
<1>6. Covers(r.requisite[j], Place(r))
  BY <1>3, <1>4, <1>5 DEF Meets, Covers
<1> QED BY <1>6

\* A request is not refused for its topology when a requisite term names
\* region and zone: the fallback to the requisite terms finds it
\* (controller.go:42, 67-69).
THEOREM CompleteRequisiteIsServed ==
  ASSUME NEW r \in Request,
         \E j \in DOMAIN r.requisite : Complete(r.requisite[j])
  PROVE  HasPlace(r)
<1>1. PICK j \in DOMAIN r.requisite : Complete(r.requisite[j])
  OBVIOUS
<1> DEFINE k == Len(r.preferred) + j
<1>2. r.preferred \in Seq(Term) /\ r.requisite \in Seq(Term)
  BY DEF Request
<1>3. k \in DOMAIN Offered(r) /\ Offered(r)[k] = r.requisite[j]
  <2> HIDE DEF k
  <2> DEFINE p == r.preferred
             q == r.requisite
  <2>1. p \in Seq(Term) /\ q \in Seq(Term)
    BY <1>2
  <2>2. Offered(r) = p \o q
    BY DEF Offered
  <2>3. \A i \in DOMAIN q :
          Len(p) + i \in DOMAIN Offered(r) /\ Offered(r)[Len(p) + i] = q[i]
    <3> HIDE DEF p, q
    <3> QED BY <2>1, <2>2, Concatenation
  <2> QED BY <1>1, <2>3 DEF k
<1>4. Meets(r.requisite[j], r.requisite[j])
  BY DEF Meets, At
<1>5. k \in Suitable(r)
  BY <1>1, <1>3, <1>4 DEF Suitable, Allowed
<1> QED BY <1>5 DEF HasPlace

\* A requisite term decides only when no preferred one is suitable, and then
\* in order: what the provisioner prefers is preferred (controller.go:42).
THEOREM PreferredComesFirst ==
  ASSUME NEW r \in Request,
         NEW k \in DOMAIN r.preferred,
         Complete(r.preferred[k]), Allowed(r, r.preferred[k])
  PROVE  \E j \in DOMAIN r.preferred :
           /\ j <= k /\ Complete(r.preferred[j]) /\ Allowed(r, r.preferred[j])
           /\ Place(r) = <<r.preferred[j]["region"], r.preferred[j]["zone"]>>
<1>1. r.preferred \in Seq(Term) /\ r.requisite \in Seq(Term)
  BY DEF Request
<1>2. \A j \in DOMAIN r.preferred :
        j \in DOMAIN Offered(r) /\ Offered(r)[j] = r.preferred[j]
  BY <1>1, Concatenation DEF Offered
<1>3. k \in Suitable(r)
  BY <1>2 DEF Suitable
<1>4. Choice(r) \in Suitable(r) /\ Choice(r) <= k
  BY <1>3, ChoiceIsFirst
<1>5. Choice(r) \in DOMAIN r.preferred
  <2>1. Offered(r) \in Seq(Term)
    BY <1>1 DEF Offered
  <2>2. Choice(r) \in Nat /\ Choice(r) >= 1
    BY <1>4, <2>1 DEF Suitable
  <2> QED BY <1>1, <1>4, <2>2
<1>6. /\ Complete(r.preferred[Choice(r)])
      /\ Allowed(r, r.preferred[Choice(r)])
  BY <1>2, <1>4, <1>5 DEF Suitable
<1>7. Place(r) = <<r.preferred[Choice(r)]["region"],
                   r.preferred[Choice(r)]["zone"]>>
  BY <1>2, <1>3, <1>5 DEF Place
<1> QED BY <1>4, <1>5, <1>6, <1>7
=============================================================================
