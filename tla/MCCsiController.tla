-------------------------- MODULE MCCsiController ---------------------------
(***************************************************************************)
(* Instances of CsiController for TLC: the registry of MCPlatform.         *)
(***************************************************************************)
EXTENDS MCPlatform, CsiInvariant

TheController == ControllerOf(t1)

\* The VMs run in one of two zones of the platform.
Here == [region |-> "r1", zone |-> "z1"]
There == [region |-> "r1", zone |-> "z2"]
CsiZones == {<<"r1", "z1">>, <<"r1", "z2">>}
FlagPlace == <<"r1", "z1">>
AllHere == [i \in InstanceID |-> <<"r1", "z1">>]
CsiCapability == {<<"mount", "ext4">>, <<"block", Absent>>}

\* A file system without a name for it, the size of the claim, and a first
\* preference that is not among the requisite terms; then, after the Pod
\* was scheduled again, a term of which only the zone's is complete.
Ask(preferred, requisite) ==
  [caps |-> <<[singleWriter |-> TRUE, kind |-> "mount",
               fs |-> Absent, flags |-> FALSE]>>,
   required |-> 0, limit |-> 0,
   preferred |-> preferred, requisite |-> requisite]
WantsHere == Ask(<<There, Here>>, <<Here>>)
WantsThere == Ask(<<[zone |-> "z1"]>>, <<[zone |-> "z2"], There>>)
OneWish == [n \in Name |-> {WantsHere}]
Moving == [n \in Name |-> {WantsHere, WantsThere}]
=============================================================================
