--------------------------- MODULE MCComputeStack ---------------------------
(* Small instances of ComputeStack for TLC: the specs a user may give the  *)
(* object, gathered in the sets the runs cover, and the networks a user    *)
(* may own beforehand.                                                     *)
EXTENDS ComputeStackInv

Nothing == <<>>

Plain ==
  [pub |-> 0, priv |-> 0, nat |-> FALSE, ha |-> FALSE, sgs |-> 0,
   bastion |-> FALSE, ownKey |-> FALSE, ownName |-> FALSE, retain |-> FALSE,
   exVpc |-> NoId, exIgw |-> NoId, exPub |-> {}, exPriv |-> {},
   exNats |-> {}, exRts |-> {}, exSgs |-> {}]

(* The minimal stack of the documentation: a VPC and a bastion.            *)
WithBastion == [Plain EXCEPT !.bastion = TRUE]

(* The same with a name and a key pair of the user's choice, and a group.  *)
NamedBastion ==
  [WithBastion EXCEPT !.ownKey = TRUE, !.ownName = TRUE, !.sgs = 1]

Retained == [WithBastion EXCEPT !.retain = TRUE]

(* A public and a private subnet behind one NAT gateway, and two groups.   *)
WithNAT == [Plain EXCEPT !.pub = 1, !.priv = 1, !.nat = TRUE, !.sgs = 2]

(* A gateway and a private route table per zone, with more public subnets  *)
(* than private ones: the second gateway's table gets no subnet.           *)
WithHA == [Plain EXCEPT !.pub = 2, !.priv = 1, !.nat = TRUE, !.ha = TRUE]

(* Private subnets only, with NAT enabled: nowhere to put the gateway.     *)
PrivateOnly == [Plain EXCEPT !.priv = 1, !.nat = TRUE]

(* More security groups than the account's quota allows.                   *)
Greedy == [Plain EXCEPT !.sgs = MaxId]

(* What the runs cover.                                                    *)
Various == {WithBastion, Retained, WithNAT, WithHA}
Troubled == {WithBastion, NamedBastion, WithNAT, WithHA, PrivateOnly, Greedy}
OnlyBastion == {WithBastion}
OnlyNAT     == {WithNAT}

-----------------------------------------------------------------------------
(* A network the user owns already.                                        *)

Owned(kind, slot, uses) ==
  [Unborn EXCEPT !.kind = kind, !.state = "available", !.slot = slot, !.uses = uses]

(* The same with the stack's tag: an earlier stack of its name, which the  *)
(* Retain policy left behind, had a route table and a bastion.             *)
Retagged(kind, uses) == [Owned(kind, 0, uses) EXCEPT !.tagged = TRUE]

OwnNetwork ==
  << Owned("vpc", 0, {}), Owned("igw", 0, {1}),
     Owned("subnet", 11, {1}), Owned("subnet", 12, {1}),
     Owned("eip", 0, {}), Owned("nat", 0, {1, 3, 5}),
     [Owned("rt", 0, {1}) EXCEPT !.assoc = {3}], Owned("sg", 9, {1}),
     Retagged("rt", {1}), Retagged("instance", {1, 3, 8}) >>

(* Everything the spec can name is named; only the bastion is created.     *)
AllExisting ==
  [Plain EXCEPT !.pub = 1, !.priv = 1, !.nat = TRUE, !.sgs = 1,
     !.bastion = TRUE, !.exVpc = 1, !.exIgw = 2, !.exPub = {3},
     !.exPriv = {4}, !.exNats = {6}, !.exRts = {7}, !.exSgs = {8}]

(* The user's VPC and Internet gateway; the operator's subnets, gateway,   *)
(* route tables and group in them.                                         *)
InOwnVpc == [WithNAT EXCEPT !.sgs = 1, !.exVpc = 1, !.exIgw = 2]

(* All of it, under the other deletion policy.                             *)
KeptExisting == [AllExisting EXCEPT !.retain = TRUE]

OnOwnNetwork == {AllExisting, KeptExisting, InOwnVpc}
=============================================================================
