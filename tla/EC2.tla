--------------------------------- MODULE EC2 ---------------------------------
(***************************************************************************)
(* The part of Amazon EC2 that the operator's network controllers drive.   *)
(* EC2 is not in the repository: it is modelled from the calls made in     *)
(* controllers/ and from the answers those calls are prepared for.         *)
(*                                                                         *)
(* A resource is created under an id that is never used again, may take    *)
(* time to become available, and may be deleted.  EC2 refuses to delete a  *)
(* resource that a live one uses ("DependencyViolation"), to create two    *)
(* security groups of one name or two subnets of one range in a VPC, and   *)
(* to attach a second Internet gateway to a VPC.                           *)
(***************************************************************************)
EXTENDS Naturals, FiniteSets

CONSTANTS
  MaxId,        \* account quota: how many resources can ever be created
  Preexisting   \* what the user owns beforehand: a function from ids to resources

VARIABLE cloud  \* cloud[i]: the resource whose id is i

NoId == 0
Ids  == 1 .. MaxId

Kinds  == {"vpc", "igw", "subnet", "eip", "nat", "rt", "sg", "instance"}
States == {"none", "pending", "available", "failed", "deleting", "deleted"}

(* kind    what the resource is                                            *)
(* state   "available" also stands for running, attached and in-use        *)
(* slot    which range (subnet) or name (security group) it occupies       *)
(* tagged  whether the tag by which the controllers search finds it        *)
(* uses    the resources that cannot be deleted while this one lives       *)
(* assoc   the subnets a route table is associated with                    *)
Resource ==
  [kind : Kinds \cup {"none"}, state : States, slot : Nat, tagged : BOOLEAN,
   uses : SUBSET Ids, assoc : SUBSET Ids]

Unborn ==
  [kind |-> "none", state |-> "none", slot |-> 0, tagged |-> FALSE,
   uses |-> {}, assoc |-> {}]

ASSUME QuotaAssumption == MaxId \in Nat

ASSUME PreexistingAssumption ==
  /\ DOMAIN Preexisting \subseteq Ids
  /\ \A i \in DOMAIN Preexisting :
        /\ Preexisting[i] \in Resource
        /\ Preexisting[i].kind # "none"
        /\ Preexisting[i].state = "available"
        /\ Preexisting[i].uses \cup Preexisting[i].assoc \subseteq DOMAIN Preexisting

Foreign == DOMAIN Preexisting

CloudInit ==
  cloud = [i \in Ids |-> IF i \in Foreign THEN Preexisting[i] ELSE Unborn]

-----------------------------------------------------------------------------
(* A fixed member of a non-empty set: the head of a list kept as a set.    *)
Pick(S) == CHOOSE x \in S : TRUE

LiveStates == {"pending", "available", "failed", "deleting"}

Live(i) == cloud[i].state \in LiveStates

LiveOf(kind) == {i \in Ids : Live(i) /\ cloud[i].kind = kind}

InVpc(vpc) == {i \in Ids : Live(i) /\ vpc \in cloud[i].uses}

InUse(i) == \E j \in Ids : Live(j) /\ i \in cloud[j].uses

Unused == {i \in Ids : cloud[i].kind = "none"}

NewId == Pick(Unused)

(* The name or range the caller asks for is taken in this VPC.             *)
Clash(kind, slot, vpc) ==
  \E i \in LiveOf(kind) : cloud[i].slot = slot /\ vpc \in cloud[i].uses

(* The elastic IP behind a NAT gateway, which survives the gateway.        *)
EipOf(nat) == {e \in cloud[nat].uses : cloud[e].kind = "eip"}

-----------------------------------------------------------------------------
(* The calls, each as the cloud that follows it.                           *)

Created(kind, state, slot, tagged, uses) ==
  [cloud EXCEPT ![NewId] =
     [kind |-> kind, state |-> state, slot |-> slot, tagged |-> tagged,
      uses |-> uses, assoc |-> {}]]

InState(i, state) == [cloud EXCEPT ![i].state = state]

Associated(rt, subnets) == [cloud EXCEPT ![rt].assoc = @ \cup subnets]

(* A route table goes with its associations, a gateway detached.           *)
TableDeleted(rt) ==
  [cloud EXCEPT ![rt] = [@ EXCEPT !.state = "deleted", !.assoc = {}]]

GatewayDeleted(igw) ==
  [cloud EXCEPT ![igw] = [@ EXCEPT !.state = "deleted", !.uses = {}]]

(* Subnets that another live route table already holds.                    *)
Held(rt) == UNION {cloud[r].assoc : r \in LiveOf("rt") \ {rt}}

-----------------------------------------------------------------------------
(* EC2's own steps: what was created settles, what is being deleted goes.  *)

Settle(i) ==
  \/ cloud[i].state = "pending"  /\ cloud' = InState(i, "available")
  \/ cloud[i].state = "deleting" /\ cloud' = InState(i, "deleted")

NatFails(i) ==
  /\ cloud[i].kind = "nat"
  /\ cloud[i].state = "pending"
  /\ cloud' = InState(i, "failed")
=============================================================================
