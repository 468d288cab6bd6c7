------------------------------- MODULE Domain -------------------------------
(***************************************************************************)
(* The domain types of internal/domain: under which deletion policies the  *)
(* resource is deleted (ShouldDelete), and what it takes to be ready.  All *)
(* of them refuse an invalid spec (Validate).                              *)
(***************************************************************************)

(* How the domain judges readiness: the state that AWS last reported is    *)
(* the one the type waits for; or AWS has named the resource; or always.   *)
Criteria == {"state", "named", "always"}

Type(deletes, ready) == [deletes |-> deletes, ready |-> ready]

OnDelete == {"Delete"}

VPC             == Type(OnDelete, "state")
Subnet          == Type(OnDelete, "state")
InternetGateway == Type(OnDelete, "state")
NATGateway      == Type(OnDelete, "state")
SecurityGroup   == Type(OnDelete, "always")
RouteTable      == Type(OnDelete, "always")
Address         == Type(OnDelete, "named")

Certificate         == Type(OnDelete, "state")
ApplicationBalancer == Type(OnDelete, "state")
NetworkBalancer     == Type(OnDelete, "state")
ECSCluster          == Type(OnDelete, "state")
EKSCluster          == Type(OnDelete, "state")
Role                == Type(OnDelete, "always")
Key                 == Type(OnDelete, "always")
Secret              == Type(OnDelete, "always")

(* Under the policy Stop the instance is stopped instead (ShouldStop).     *)
Instance     == Type(OnDelete, "state")
InstanceStop == {"Stop"}

(* Under the policy Snapshot the data is saved first (ShouldSnapshot).     *)
CacheCluster         == Type(OnDelete, "state")
CacheClusterSnapshot == {"Snapshot"}

(* A key pair that the status does not name is not deleted at all.         *)
KeyPair == Type(OnDelete, "named")

(* These leave the policy to the use case or to the controller.            *)
API          == Type({}, "named")
Distribution == Type({}, "state")
Table        == Type({}, "state")
Repository   == Type({}, "named")
Function     == Type({}, "state")
DBInstance   == Type({}, "state")
Topic        == Type({}, "named")
Queue        == Type({}, "named")
Bucket       == Type({}, "always")
=============================================================================
