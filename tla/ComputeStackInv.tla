--------------------------- MODULE ComputeStackInv ---------------------------
(* An inductive invariant of ComputeStack: the conjuncts that, together,   *)
(* every step preserves, and from which the safety properties follow.      *)
EXTENDS ComputeStack

(* What was never created has no state,                                   *)
CloudSane == \A i \in Ids : cloud[i].kind = "none" <=> cloud[i].state = "none"

Born(S) == \A i \in S : cloud[i].kind # "none"

(* No copy of the object, and no half-done creation, names an id that EC2  *)
(* has not handed out.                                                     *)
NamesAreBorn ==
  /\ Born(Foreign)
  /\ Born(Recorded(stack)) /\ Born(Recorded(cache)) /\ Born(Recorded(work))
  /\ Born({made} \ {NoId})

(* Where the spec names existing resources, the status holds no others.    *)
Provenance(o) ==
  /\ config.exVpc # NoId    => o.vpc \in Foreign \cup {NoId}
  /\ config.exIgw # NoId    => o.igw \in Foreign \cup {NoId}
  /\ ExistingSubnets # {}   => o.pub \cup o.priv \subseteq Foreign
  /\ config.exNats # {}     => o.nats \subseteq Foreign
  /\ config.exRts # {}      => o.rts \subseteq Foreign
  /\ config.exSgs # {}      => o.sgs \subseteq Foreign

ExistingOnly == Provenance(stack) /\ Provenance(cache) /\ Provenance(work)

(* What each point of a reconcile knows about the copy it works on.        *)
WithVpc == (CreationPhases \ {"CreatingVPC"}) \cup {"StoreKey", "RunInstance"}

OneToMake ==
  /\ pc = "CreatingVPC" => work.vpc = NoId
  /\ pc \in WithVpc => work.vpc # NoId
  /\ pc = "CreatingInternetGateway" => work.igw = NoId
  /\ pc = "CreatingBastionSecurityGroup" => work.bsg = NoId
  /\ pc \in {"CreatingBastionInstance", "StoreKey", "RunInstance"} =>
       work.bsg # NoId /\ work.bastion = NoId
  /\ pc \in {"StoreKey", "RunInstance"} => work.pub # {}
  /\ pc = "WaitingBastionInstance" => work.bastion # NoId

ListToFill ==
  /\ pc = "CreatingSubnets" /\ ExistingSubnets # {} => work.pub \cup work.priv = {}
  /\ pc = "CreatingNATGateway" /\ config.exNats # {} => work.nats = {}
  /\ pc = "CreatingRouteTables" /\ config.exRts # {} => work.rts = {}
  /\ pc = "CreatingSecurityGroups" /\ config.exSgs # {} => work.sgs = {}

MayMake ==
  \/ pc = "CreatingVPC"             /\ config.exVpc = NoId
  \/ pc = "CreatingInternetGateway" /\ config.exIgw = NoId
  \/ pc = "CreatingSubnets"         /\ ExistingSubnets = {}
  \/ pc = "CreatingNATGateway"      /\ config.exNats = {}
  \/ pc = "CreatingRouteTables"     /\ config.exRts = {}
  \/ pc = "CreatingSecurityGroups"  /\ config.exSgs = {}

HalfMade == made # NoId => MayMake

ToDelete ==
  /\ pc = "deleteBastionSG"     => work.bsg # NoId
  /\ pc = "deleteRouteTable"    => work.rts # {}
  /\ pc = "deleteNat"           => work.nats # {}
  /\ pc = "deleteSubnet"        => work.pub \cup work.priv # {}
  /\ pc = "deleteIgw"           => work.igw # NoId
  /\ pc = "deleteSecurityGroup" => work.sgs # {}
  /\ pc = "deleteVpc"           => work.vpc # NoId

AtPc == OneToMake /\ ListToFill /\ HalfMade /\ ToDelete

(* A copy said to be fresh is: the informer's equals the object, and the   *)
(* reconcile's lacks only what has been deleted or may be let go.          *)
Released(i) == i \in Foreign \/ config.retain \/ cloud[i].state = "deleted"

Fresh ==
  /\ cacheFresh => cache = stack
  /\ pc # "idle" /\ workFresh =>
       \A i \in Recorded(stack) \ Recorded(work) : Released(i)
  /\ pc = "removeFinalizer" => \A i \in Recorded(work) : Released(i)

(* Nothing is recorded before the finalizer is there to guard it.          *)
Guarded ==
  /\ ~stack.finalizer => Recorded(stack) = {}
  /\ ~cache.finalizer => Recorded(cache) = {}
  /\ pc \notin {"idle", "addFinalizer"} => work.finalizer

(* The deletion request is never overlooked once the status shows it.      *)
CreatingPcs == CreationPhases \cup {"addFinalizer", "StoreKey", "RunInstance"}
DeletingPcs == DeletePhases \cup {"removeFinalizer"}

Marked ==
  /\ stack.phase = "Deleting" => stack.deleting /\ cache.deleting
  /\ cache.phase = "Deleting" => cache.deleting
  /\ cache.deleting /\ stack.exists => stack.deleting
  /\ stack.phase = "Deleting" /\ pc # "idle" => work.deleting

InFlight ==
  /\ work.deleting <=> work.phase = "Deleting"
  /\ pc \in CreatingPcs => ~work.deleting
  /\ pc \in DeletingPcs => work.deleting
  /\ pc # "idle" => work.exists
  /\ pc # "idle" /\ workFresh => stack.exists /\ stack.deleting = work.deleting
  /\ pc # "idle" /\ work.deleting /\ stack.exists => stack.deleting /\ cache.deleting

(* The whole of it.                                                        *)
IInv ==
  /\ TypeOK /\ CloudSane /\ NamesAreBorn /\ ExistingOnly /\ AtPc /\ Fresh
  /\ Guarded /\ Marked /\ InFlight

-----------------------------------------------------------------------------
(* Preserved by every step that preserves IInv: until the deletion is      *)
(* asked for EC2 deletes nothing, a gone object records nothing, and no    *)
(* deletion step is reached under Retain.                                  *)
Untouched ==
  /\ stack.exists /\ ~stack.deleting =>
       \A i \in Ids : cloud[i].state \notin {"deleting", "deleted"}
  /\ ~stack.exists => Recorded(stack) = {}
  /\ pc \in DeletePhases \ {"delete"} => ~config.retain

-----------------------------------------------------------------------------
(* Preserved beside IInv: a copy whose phase is Ready has all that         *)
(* DetermineCurrentPhase asks for, and so far as a reconcile has got it    *)
(* knows that the phases behind it are done.                               *)
HasNetwork(o) ==
  /\ o.vpc # NoId /\ o.vpc \in o.avail
  /\ o.igw # NoId
  /\ o.pub \cup o.priv # {} /\ o.pub \cup o.priv \subseteq o.avail
  /\ NeedsNAT => o.nats # {} /\ o.nats \subseteq o.avail

HasGroups(o) == config.sgs > 0 => o.sgs # {}

HasBastion(o) ==
  config.bastion => o.bsg # NoId /\ o.bastion # NoId /\ o.bastion \in o.avail

Earned(o) ==
  o.phase = "Ready" => HasNetwork(o) /\ o.rts # {} /\ HasGroups(o) /\ HasBastion(o)

BastionPcs ==
  {"CreatingBastionSecurityGroup", "CreatingBastionInstance", "StoreKey",
   "RunInstance", "WaitingBastionInstance"}

PhasesBehind ==
  /\ pc \in CreatingPcs => work.phase # "Ready"
  /\ pc \in {"CreatingRouteTables", "CreatingSecurityGroups"} \cup BastionPcs => HasNetwork(work)
  /\ pc \in {"CreatingSecurityGroups"} \cup BastionPcs => work.rts # {}
  /\ pc \in BastionPcs => HasGroups(work)
  /\ pc = "WaitingBastionInstance" => work.bsg # NoId

AllEarned == Earned(stack) /\ Earned(cache) /\ Earned(work) /\ PhasesBehind

-----------------------------------------------------------------------------
(* Preserved beside IInv: what the user owns beforehand is in EC2 as it    *)
(* was, but for what the deletion sweeps up; a copy of the object names of *)
(* it only what the spec names; and no deletion step is reached for a list *)
(* of the user's.                                                          *)
OnlyNamed(o) ==
  /\ o.vpc \in Foreign => o.vpc = config.exVpc
  /\ o.igw \in Foreign => o.igw = config.exIgw
  /\ (o.pub \cup o.priv) \cap Foreign \subseteq ExistingSubnets
  /\ o.nats \cap Foreign \subseteq config.exNats
  /\ o.rts \cap Foreign \subseteq config.exRts
  /\ o.sgs \cap Foreign \subseteq config.exSgs
  /\ o.bsg \notin Foreign /\ o.bastion \notin Foreign

HandsOff ==
  /\ pc = "deleteRouteTable"    => config.exRts = {}
  /\ pc = "deleteNat"           => config.exNats = {}
  /\ pc = "deleteSubnet"        => ExistingSubnets = {}
  /\ pc = "deleteIgw"           => config.exIgw = NoId
  /\ pc = "deleteSecurityGroup" => config.exSgs = {}
  /\ pc = "deleteVpc"           => config.exVpc = NoId

(* A gateway of the stack's is not behind an address of the user's, which  *)
(* would be released with it.                                              *)
OwnAddresses ==
  \A i \in Ids \ Foreign : \A e \in cloud[i].uses \cap Foreign : Preexisting[e].kind # "eip"

(* What can be swept up is still of the kind it was and where it was.      *)
SameKind(i) ==
  /\ cloud[i].kind = Preexisting[i].kind
  /\ cloud[i].tagged = Preexisting[i].tagged
  /\ cloud[i].uses = Preexisting[i].uses
  /\ cloud[i].assoc \subseteq Preexisting[i].assoc
  /\ cloud[i].state \in {"available", "deleting", "deleted"}

Unswept == config.retain \/ (stack.exists /\ ~stack.deleting)

AsFound ==
  \A i \in Foreign : /\ i \notin Swept \/ Unswept => cloud[i] = Preexisting[i]
                     /\ SameKind(i)

Apart ==
  /\ AsFound
  /\ OwnAddresses
  /\ OnlyNamed(stack) /\ OnlyNamed(cache) /\ OnlyNamed(work)
  /\ made \notin Foreign
  /\ HandsOff

-----------------------------------------------------------------------------
(* Preserved beside the ones above: as long as nothing disturbs it, a      *)
(* standing stack's newest copy knows of all that has been created for it, *)
(* each list is empty or full except while it is being filled, and what is *)
(* in the VPC leaves room for what comes next.                             *)
Calm == Undisturbed /\ stack.exists /\ ~stack.deleting

Current == IF pc = "idle" THEN stack ELSE work

Own(S) == S \ (Foreign \cup {NoId})

(* The stack's own resources are listed under what they are.               *)
OwnKinds(o) ==
  /\ \A i \in Own({o.vpc}) : cloud[i].kind = "vpc"
  /\ \A i \in Own({o.igw}) : cloud[i].kind = "igw"
  /\ \A i \in Own(o.pub \cup o.priv) : cloud[i].kind = "subnet"
  /\ \A i \in Own(o.nats) : cloud[i].kind = "nat"
  /\ \A i \in Own(o.rts) : cloud[i].kind = "rt"
  /\ \A i \in Own(o.sgs \cup {o.bsg}) : cloud[i].kind = "sg"
  /\ \A i \in Own({o.bastion}) : cloud[i].kind = "instance"

(* A range of its own for each subnet, a name for each group.              *)
OwnSlots(o) ==
  /\ \A i \in Own(o.pub) : cloud[i].slot \in 1 .. Cardinality(o.pub)
  /\ \A i \in Own(o.priv) : cloud[i].slot \in WantedPub + 1 .. WantedPub + Cardinality(o.priv)
  /\ \A i \in Own(o.sgs) : cloud[i].slot \in 1 .. Cardinality(o.sgs)
  /\ \A i \in Own({o.bsg}) : cloud[i].slot = 0

(* What is neither recorded nor about to be is the address of a recorded   *)
(* gateway, or a table that nothing is associated with.                    *)
AllKnown(o) ==
  \A i \in Ids \ Foreign : cloud[i].kind # "none" =>
    \/ i \in Recorded(o) \cup {made}
    \/ \E n \in o.nats : i \in EipOf(n)
    \/ cloud[i].kind = "rt" /\ cloud[i].tagged /\ cloud[i].assoc = {}

(* Lists are empty or full, but for the one that the phase p fills.        *)
SubnetsDone(o) == Cardinality(o.pub) = WantedPub /\ Cardinality(o.priv) = config.priv
NatsDone(o) == config.ha => Cardinality(o.nats) = Cardinality(o.pub)
TablesDone(o) == NeedsNAT /\ o.priv # {} => Cardinality(o.rts) > 1
GroupsDone(o) == Cardinality(o.sgs) = config.sgs

Filled(o, p) ==
  /\ ExistingSubnets = {} =>
       \/ o.pub \cup o.priv = {}
       \/ SubnetsDone(o)
       \/ /\ p = "CreatingSubnets"
          /\ Cardinality(o.pub) <= WantedPub /\ Cardinality(o.priv) <= config.priv
  /\ config.exNats = {} =>
       \/ o.nats = {}
       \/ NatsDone(o)
       \/ p = "CreatingNATGateway" /\ Cardinality(o.nats) <= Cardinality(o.pub)
  /\ config.exRts = {} =>
       \/ o.rts = {}
       \/ TablesDone(o)
       \/ p = "CreatingRouteTables"
  /\ config.exSgs = {} =>
       \/ o.sgs = {}
       \/ GroupsDone(o)
       \/ p = "CreatingSecurityGroups" /\ Cardinality(o.sgs) <= config.sgs

(* What has just been created is what the phase is about, and was missing. *)
NextRange == IF MissingPub THEN Cardinality(work.pub) + 1
             ELSE WantedPub + Cardinality(work.priv) + 1

MadeFits ==
  made # NoId =>
    /\ made \notin Recorded(work)
    /\ pc = "CreatingVPC" => cloud[made].kind = "vpc"
    /\ pc = "CreatingInternetGateway" => cloud[made].kind = "igw" /\ cloud[made].uses = {}
    /\ pc = "CreatingSubnets" => /\ MissingPub \/ MissingPriv
                                 /\ cloud[made].kind = "subnet" /\ cloud[made].slot = NextRange
    /\ pc = "CreatingNATGateway" => MissingNats /\ cloud[made].kind = "eip"
    /\ pc = "CreatingRouteTables" =>
         MissingRts /\ cloud[made].kind = "rt" /\ cloud[made].tagged /\ cloud[made].assoc = {}
    /\ pc = "CreatingSecurityGroups" =>
         /\ MissingSgs
         /\ cloud[made].kind = "sg" /\ cloud[made].slot = Cardinality(work.sgs) + 1

(* The first table is the public subnets', the others the private ones'.   *)
Served(o) == UNION {cloud[r].assoc : r \in o.rts}

Routing ==
  pc = "CreatingRouteTables" /\ config.exRts = {} =>
    /\ work.rts = {} => routed = {}
    /\ work.rts # {} /\ routed = {} => Served(work) \cap work.priv = {}
    /\ routed # {} => Cardinality(work.rts) > 1
    /\ routed # {} /\ ~config.ha => work.nats \subseteq routed

(* No list holds what another does, unless the spec says so.               *)
Disjoint(o) ==
  /\ ExistingSubnets = {} => o.pub \cap o.priv = {}
  /\ ExistingSubnets # {} => o.pub \subseteq config.exPub /\ o.priv \subseteq config.exPriv

(* The subnets come before what is put into them, and the bastion's group  *)
(* only where there is to be a bastion.                                    *)
InOrder ==
  /\ Current.pub \cup Current.priv = {} => Current.nats = {} /\ Current.rts = {}
  /\ pc = "CreatingSubnets" => work.nats = {} /\ work.rts = {}
  /\ pc = "CreatingNATGateway" => work.pub \cup work.priv # {}
  /\ pc = "CreatingBastionSecurityGroup" => config.bastion

(* A private key that was returned is stored.                              *)
KeyIsKept ==
  /\ keypair => secret \/ pc = "StoreKey"
  /\ ~config.ownKey =>
       /\ pc = "RunInstance" => secret
       /\ stack.bastion # NoId \/ Current.bastion # NoId => secret

(* Where the controller panics it has nothing in hand.                     *)
EmptyHanded ==
  pc = "CreatingNATGateway" /\ work.pub = {} =>
    /\ made = NoId
    /\ work = [stack EXCEPT !.phase = work.phase]

Tidy ==
  /\ pc # "idle" => workFresh
  /\ OwnKinds(Current) /\ OwnSlots(Current) /\ AllKnown(Current) /\ Disjoint(Current)
  /\ Filled(stack, "idle") /\ Filled(Current, pc)
  /\ MadeFits /\ InOrder /\ Routing /\ KeyIsKept /\ EmptyHanded

TidyWhenCalm == Calm => Tidy

(* Ready is said of a copy whose phase is Ready; and what a stack that     *)
(* says it is ready says stays so for as long as nothing disturbs it,      *)
(* whether or not its deletion is asked for meanwhile.                     *)
ReadyIsSaid ==
  /\ stack.ready => stack.phase = "Ready"
  /\ cache.ready => cache.phase = "Ready"
  /\ work.ready => work.phase = "Ready"

ReadyIsTidy == Undisturbed /\ stack.ready => Filled(stack, "idle") /\ ReadyKeyIsStored
=============================================================================
