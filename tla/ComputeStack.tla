----------------------------- MODULE ComputeStack -----------------------------
(***************************************************************************)
(* The ComputeStack controller (controllers/computestack_controller.go):   *)
(* one Kubernetes object from which the operator builds a VPC, an Internet *)
(* gateway, subnets, NAT gateways, route tables, security groups and a     *)
(* bastion instance, and which it tears down again.                        *)
(*                                                                         *)
(* A reconcile reads the object from the informer's cache, makes AWS calls *)
(* one after another while it edits its own copy, and finally writes the   *)
(* copy's status back, which the API server accepts only if nobody wrote   *)
(* the object since that copy was read.  What a reconcile did in AWS stays *)
(* done whether or not that write succeeds.  Each action below is one such *)
(* step, so that EC2, the user, failures and crashes come between any two. *)
(*                                                                         *)
(* Lists of the status are kept as sets: the controller takes the head,    *)
(* Pick takes a fixed member.                                              *)
(***************************************************************************)
EXTENDS EC2

CONSTANTS
  Configs,    \* the specs the user may give the object
  MaxFaults   \* bound on failed calls, lost writes, stale reads and crashes

(* pub, priv      how many public and private subnets are listed           *)
(* nat, ha        NATGateway.Enabled and .HighAvailability                 *)
(* sgs            how many DefaultSecurityGroups are listed                *)
(* bastion        BastionInstance.Enabled                                  *)
(* ownKey         BastionInstance.KeyName is given                         *)
(* ownName        BastionInstance.Name is given (not "<stack>-bastion")    *)
(* retain         DeletionPolicy is "Retain"                               *)
(* ex...          the Existing...ID fields                                 *)
ConfigType ==
  [pub : Nat, priv : Nat, nat : BOOLEAN, ha : BOOLEAN, sgs : Nat,
   bastion : BOOLEAN, ownKey : BOOLEAN, ownName : BOOLEAN, retain : BOOLEAN,
   exVpc : Foreign \cup {NoId}, exIgw : Foreign \cup {NoId},
   exPub : SUBSET Foreign, exPriv : SUBSET Foreign, exNats : SUBSET Foreign,
   exRts : SUBSET Foreign, exSgs : SUBSET Foreign]

ASSUME ConfigAssumption == Configs \subseteq ConfigType /\ MaxFaults \in Nat

(* An Existing... id is one of the kind that is asked for: the controller  *)
(* describes it as such before it enters it.                               *)
ASSUME ExistingAssumption ==
  \A c \in Configs :
    /\ c.exVpc # NoId => Preexisting[c.exVpc].kind = "vpc"
    /\ \A i \in c.exPub \cup c.exPriv : Preexisting[i].kind = "subnet"

VARIABLES
  config,      \* the object's spec, which the user does not edit afterwards
  stack,       \* the object in the API server
  cache,       \* the informer's copy of it
  cacheFresh,  \* whether that copy has the object's resourceVersion
  pc,          \* where the reconcile in flight is; "idle" between two
  work,        \* its in-memory copy of the object
  workFresh,   \* whether that copy has the object's resourceVersion
  made,        \* a resource it has created and not yet entered in its copy
  routed,      \* the NAT gateways whose private route table it has created
  keypair,     \* whether AWS holds the key pair "<stack>-bastion-key"
  secret,      \* whether the Secret holds that key pair's private key
  faults       \* how many faults have happened

kube == <<config, stack, cache, cacheFresh>>
keys == <<keypair, secret>>
vars == <<cloud, kube, pc, work, workFresh, made, routed, keys, faults>>

-----------------------------------------------------------------------------
(* The object.                                                             *)

CreationPhases ==
  {"CreatingVPC", "WaitingVPC", "CreatingInternetGateway", "CreatingSubnets",
   "WaitingSubnets", "CreatingNATGateway", "WaitingNATGateway",
   "CreatingRouteTables", "CreatingSecurityGroups",
   "CreatingBastionSecurityGroup", "CreatingBastionInstance",
   "WaitingBastionInstance"}

Phases == CreationPhases \cup {"", "Pending", "Ready", "Deleting", "Failed"}

(* avail holds the ids whose recorded State is "available" or "running".   *)
Object ==
  [exists : BOOLEAN, deleting : BOOLEAN, finalizer : BOOLEAN,
   phase : Phases, ready : BOOLEAN,
   vpc : Ids \cup {NoId}, igw : Ids \cup {NoId},
   pub : SUBSET Ids, priv : SUBSET Ids, nats : SUBSET Ids, rts : SUBSET Ids,
   sgs : SUBSET Ids, bsg : Ids \cup {NoId}, bastion : Ids \cup {NoId},
   avail : SUBSET Ids]

NoObject ==
  [exists |-> FALSE, deleting |-> FALSE, finalizer |-> FALSE,
   phase |-> "", ready |-> FALSE, vpc |-> NoId, igw |-> NoId,
   pub |-> {}, priv |-> {}, nats |-> {}, rts |-> {}, sgs |-> {},
   bsg |-> NoId, bastion |-> NoId, avail |-> {}]

(* Every AWS id the object's status records.                               *)
Recorded(o) ==
  (({o.vpc} \cup {o.igw} \cup {o.bsg} \cup {o.bastion}) \ {NoId})
    \cup o.pub \cup o.priv \cup o.nats \cup o.rts \cup o.sgs

NeedsNAT == config.nat /\ config.priv > 0

ExistingSubnets == config.exPub \cup config.exPriv

(* With no subnet listed the controller creates one public subnet itself.  *)
WantedPub == IF config.pub = 0 /\ config.priv = 0 THEN 1 ELSE config.pub

(* The phase that the resources recorded in o call for.                    *)
DetermineCurrentPhase(o) ==
  IF o.phase \in {"Ready", "Failed"}                 THEN o.phase
  ELSE IF o.vpc = NoId                               THEN "CreatingVPC"
  ELSE IF o.vpc \notin o.avail                       THEN "WaitingVPC"
  ELSE IF o.igw = NoId                               THEN "CreatingInternetGateway"
  ELSE IF o.pub \cup o.priv = {}                     THEN "CreatingSubnets"
  ELSE IF ~(o.pub \cup o.priv \subseteq o.avail)     THEN "WaitingSubnets"
  ELSE IF NeedsNAT /\ o.nats = {}                    THEN "CreatingNATGateway"
  ELSE IF NeedsNAT /\ ~(o.nats \subseteq o.avail)    THEN "WaitingNATGateway"
  ELSE IF o.rts = {}                                 THEN "CreatingRouteTables"
  ELSE IF config.sgs > 0 /\ o.sgs = {}               THEN "CreatingSecurityGroups"
  ELSE IF config.bastion /\ o.bsg = NoId             THEN "CreatingBastionSecurityGroup"
  ELSE IF config.bastion /\ o.bastion = NoId         THEN "CreatingBastionInstance"
  ELSE IF config.bastion /\ o.bastion \notin o.avail THEN "WaitingBastionInstance"
  ELSE "Ready"

-----------------------------------------------------------------------------
(* How a reconcile ends, and how a call in the middle of one fails.        *)

Fault == faults < MaxFaults /\ faults' = faults + 1

(* The reconcile returns; whatever its copy held and was not written goes. *)
Return ==
  /\ pc' = "idle"
  /\ work' = NoObject
  /\ workFresh' = FALSE
  /\ made' = NoId
  /\ routed' = {}

Goto(label) == pc' = label /\ UNCHANGED <<workFresh, routed>>

(* The phase is done: the copy o goes to the status write.                 *)
Save(o) ==
  /\ pc' = "write"
  /\ work' = o
  /\ made' = NoId
  /\ UNCHANGED <<workFresh, routed>>

(* Mutant of Abort: a phase the status does not know.                      *)
AbortToError == Save([work EXCEPT !.phase = "Error", !.ready = FALSE])

(* processNextPhase returned an error: the status becomes Failed, with     *)
(* every resource entered in the copy so far, but not the one in made.     *)
Abort == Save([work EXCEPT !.phase = "Failed", !.ready = FALSE])

(* Mutant of Resume: no case for a Failed stack, which is never retried.   *)
ResumeUnlessFailed(o) ==
  /\ made' = NoId
  /\ routed' = {}
  /\ IF o.phase # "" /\ DetermineCurrentPhase(o) \notin {"Failed", "Ready"}
       THEN /\ pc' = DetermineCurrentPhase(o)
            /\ work' = [o EXCEPT !.phase = DetermineCurrentPhase(o)]
       ELSE /\ pc' = "write"
            /\ work' = [o EXCEPT !.phase = IF @ = "Failed" THEN @ ELSE "Pending"]

(* Where a reconcile of the copy o of an object not being deleted goes.    *)
Resume(o) ==
  /\ made' = NoId
  /\ routed' = {}
  /\ \/ /\ o.phase = ""
        /\ pc' = "write"
        /\ work' = [o EXCEPT !.phase = "Pending"]
     \/ /\ o.phase # ""
        /\ DetermineCurrentPhase(o) \in {"Failed", "Ready"}
        /\ pc' = "write"
        /\ work' = [o EXCEPT !.phase = "Pending"]
     \/ /\ o.phase # ""
        /\ DetermineCurrentPhase(o) \notin {"Failed", "Ready"}
        /\ pc' = DetermineCurrentPhase(o)
        /\ work' = [o EXCEPT !.phase = DetermineCurrentPhase(o)]

-----------------------------------------------------------------------------
(* The environment of the controller.                                      *)

(* kubectl delete: with a finalizer the object stays, marked; the write    *)
(* makes every copy read before it stale.                                  *)
RequestDelete ==
  /\ stack.exists /\ ~stack.deleting
  /\ stack' = IF stack.finalizer THEN [stack EXCEPT !.deleting = TRUE] ELSE NoObject
  /\ cacheFresh' = FALSE
  /\ workFresh' = FALSE
  /\ UNCHANGED <<cloud, config, cache, pc, work, made, routed, keys, faults>>

(* The watch delivers the object's latest version to the informer.         *)
SyncCache ==
  /\ ~cacheFresh
  /\ cache' = stack
  /\ cacheFresh' = TRUE
  /\ UNCHANGED <<cloud, config, stack, pc, work, workFresh, made, routed, keys, faults>>

CloudStep ==
  /\ \/ \E i \in Ids : Settle(i) /\ UNCHANGED faults
     \/ \E i \in Ids : NatFails(i) /\ Fault
  /\ UNCHANGED <<kube, pc, work, workFresh, made, routed, keys>>

(* The operator's process dies and restarts; its informer lists afresh.    *)
Crash ==
  /\ pc # "idle"
  /\ Fault
  /\ Return
  /\ cache' = stack
  /\ cacheFresh' = TRUE
  /\ UNCHANGED <<cloud, config, stack, keys>>

-----------------------------------------------------------------------------
(* Reconcile: reading the object and writing it back.                      *)

(* The objects a reconcile returns from at once: gone, being deleted       *)
(* without the finalizer, or Ready.                                        *)
Settled(o) ==
  \/ ~o.exists
  \/ o.deleting /\ ~o.finalizer
  \/ ~o.deleting /\ o.phase = "Ready"

(* Reading a cache that lags behind the object is counted as a fault, to   *)
(* bound how often it happens.                                             *)
Read == IF cacheFresh THEN UNCHANGED faults ELSE Fault

Begin ==
  /\ pc = "idle"
  /\ ~Settled(cache)
  /\ Read
  /\ workFresh' = cacheFresh
  /\ \/ /\ cache.deleting
        /\ pc' = IF cache.phase = "Deleting" THEN "delete" ELSE "write"
        /\ work' = [cache EXCEPT !.phase = "Deleting", !.ready = FALSE]
        /\ UNCHANGED <<made, routed>>
     \/ /\ ~cache.deleting /\ ~cache.finalizer
        /\ pc' = "addFinalizer"
        /\ work' = cache
        /\ UNCHANGED <<made, routed>>
     \/ /\ ~cache.deleting /\ cache.finalizer
        /\ Resume(cache)
  /\ UNCHANGED <<cloud, kube, keys>>

(* The periodic reconcile of an object with nothing to do.                 *)
Resync ==
  /\ pc = "idle"
  /\ cacheFresh
  /\ Settled(cache)
  /\ UNCHANGED vars

(* Update with the finalizer added.  An object without it has never been   *)
(* past phase "", so the reconcile goes on to write "Pending".             *)
AddFinalizer ==
  /\ pc = "addFinalizer"
  /\ workFresh
  /\ stack' = [work EXCEPT !.finalizer = TRUE]
  /\ cacheFresh' = FALSE
  /\ Resume([work EXCEPT !.finalizer = TRUE])
  /\ UNCHANGED <<cloud, config, cache, workFresh, keys, faults>>

(* Mutant of WriteStatus: a patch that does not name a resourceVersion.    *)
WriteStatusBlindly ==
  /\ pc = "write"
  /\ stack' = work
  /\ cacheFresh' = FALSE
  /\ Return
  /\ UNCHANGED <<cloud, config, cache, keys, faults>>

(* Status().Update succeeds: it needs the object's resourceVersion.        *)
WriteStatus ==
  /\ pc = "write"
  /\ workFresh
  /\ stack' = work
  /\ cacheFresh' = FALSE
  /\ Return
  /\ UNCHANGED <<cloud, config, cache, keys, faults>>

(* An update is refused (409 Conflict, or the object is gone) because the  *)
(* copy is stale, or fails for any other reason.                           *)
WriteLost ==
  /\ pc \in {"addFinalizer", "write", "removeFinalizer"}
  /\ IF workFresh THEN Fault ELSE UNCHANGED faults
  /\ Return
  /\ UNCHANGED <<cloud, kube, keys>>

-----------------------------------------------------------------------------
(* Creation, one action per AWS call that changes something.               *)

Creation == UNCHANGED <<kube, keys, faults>>

MissingPub == Cardinality(work.pub) < WantedPub

(* Mutant of CreateCallFails: an error is only logged, and the id that was *)
(* asked for is entered all the same.                                      *)
CreateErrorSwallowed ==
  /\ pc = "CreatingBastionSecurityGroup"
  /\ Unused # {}
  /\ Fault
  /\ Save([work EXCEPT !.bsg = NewId, !.phase = "CreatingBastionInstance"])
  /\ UNCHANGED <<cloud, kube, keys>>

(* An AWS call of a creation phase fails: a throttled or refused request,  *)
(* a describe call included.  Between the creation of a private subnet and *)
(* its record there is no call.                                            *)
CreateCallFails ==
  /\ pc \in CreationPhases \cup {"StoreKey", "RunInstance"}
  /\ ~(pc = "CreatingSubnets" /\ made # NoId /\ ~MissingPub)
  /\ Fault
  /\ Abort
  /\ UNCHANGED <<cloud, kube, keys>>

(* A create call that leaves its resource in made.                         *)
Create(kind, state, slot, tagged, uses) ==
  /\ made = NoId
  /\ Unused # {}
  /\ cloud' = Created(kind, state, slot, tagged, uses)
  /\ made' = NewId

UseExistingVpc ==
  /\ pc = "CreatingVPC"
  /\ config.exVpc # NoId
  /\ Save([work EXCEPT !.vpc = config.exVpc, !.phase = "WaitingVPC",
             !.avail = @ \cup {config.exVpc}])
  /\ Creation /\ UNCHANGED cloud

CreateVpc ==
  /\ pc = "CreatingVPC"
  /\ config.exVpc = NoId
  /\ Create("vpc", "pending", 0, TRUE, {})
  /\ Goto(pc) /\ UNCHANGED work
  /\ Creation

(* ModifyVpcAttribute for the DNS settings, on by default; only then is    *)
(* the VPC entered in the status.                                          *)
ModifyVpc ==
  /\ pc = "CreatingVPC"
  /\ made # NoId
  /\ Save([work EXCEPT !.vpc = made, !.phase = "WaitingVPC"])
  /\ Creation /\ UNCHANGED cloud

(* The ids among S that EC2 reports available.                             *)
AvailableOf(S) == {i \in S : cloud[i].state = "available"}

(* A Waiting phase refreshes the recorded states of S and moves on to the  *)
(* phase next once all of S is available.                                  *)
Wait(S, next) ==
  /\ Save([work EXCEPT
             !.avail = (@ \ S) \cup AvailableOf(S),
             !.phase = IF AvailableOf(S) = S THEN next ELSE @,
             !.ready = @ \/ (AvailableOf(S) = S /\ next = "Ready")])
  /\ Creation /\ UNCHANGED cloud

CheckVPCReady ==
  pc = "WaitingVPC" /\ Wait({work.vpc}, "CreatingInternetGateway")

UseExistingIgw ==
  /\ pc = "CreatingInternetGateway"
  /\ config.exIgw # NoId
  /\ Save([work EXCEPT !.igw = config.exIgw, !.phase = "CreatingSubnets"])
  /\ Creation /\ UNCHANGED cloud

CreateInternetGateway ==
  /\ pc = "CreatingInternetGateway"
  /\ config.exIgw = NoId
  /\ Create("igw", "available", 0, TRUE, {})
  /\ Goto(pc) /\ UNCHANGED work
  /\ Creation

(* A VPC takes one Internet gateway: attaching a second one is refused,    *)
(* and the gateway just created is in no status.                           *)
AttachInternetGateway ==
  /\ pc = "CreatingInternetGateway"
  /\ made # NoId
  /\ IF InVpc(work.vpc) \cap LiveOf("igw") = {}
       THEN /\ cloud' = [cloud EXCEPT ![made].uses = {work.vpc}]
            /\ Save([work EXCEPT !.igw = made, !.phase = "CreatingSubnets"])
       ELSE Abort /\ UNCHANGED cloud
  /\ Creation

UseExistingSubnets ==
  /\ pc = "CreatingSubnets"
  /\ ExistingSubnets # {}
  /\ Save([work EXCEPT !.pub = config.exPub, !.priv = config.exPriv,
             !.avail = @ \cup ExistingSubnets, !.phase = "WaitingSubnets"])
  /\ Creation /\ UNCHANGED cloud

(* Mutant of MissingPriv: off by one.                                      *)
MissingPrivButOne == Cardinality(work.priv) + 1 < config.priv

MissingPriv == Cardinality(work.priv) < config.priv

(* The public subnets come first; the range of each is its position.       *)
CreateSubnet ==
  LET slot == IF MissingPub THEN Cardinality(work.pub) + 1
              ELSE WantedPub + Cardinality(work.priv) + 1
  IN /\ pc = "CreatingSubnets"
     /\ ExistingSubnets = {}
     /\ made = NoId
     /\ MissingPub \/ MissingPriv
     /\ IF Clash("subnet", slot, work.vpc)
          THEN Abort /\ UNCHANGED cloud
          ELSE /\ Create("subnet", "pending", slot, TRUE, {work.vpc})
               /\ Goto(pc) /\ UNCHANGED work
     /\ Creation

(* A public subnet is recorded after ModifySubnetAttribute, a private one  *)
(* right after its creation.                                               *)
RecordSubnet ==
  /\ pc = "CreatingSubnets"
  /\ made # NoId
  /\ work' = IF MissingPub THEN [work EXCEPT !.pub = @ \cup {made}]
             ELSE [work EXCEPT !.priv = @ \cup {made}]
  /\ made' = NoId
  /\ Goto(pc)
  /\ Creation /\ UNCHANGED cloud

SubnetsCreated ==
  /\ pc = "CreatingSubnets"
  /\ ExistingSubnets = {}
  /\ made = NoId /\ ~MissingPub /\ ~MissingPriv
  /\ Save([work EXCEPT !.phase = "WaitingSubnets"])
  /\ Creation /\ UNCHANGED cloud

CheckSubnetsReady ==
  /\ pc = "WaitingSubnets"
  /\ Wait(work.pub \cup work.priv,
          IF NeedsNAT THEN "CreatingNATGateway" ELSE "CreatingRouteTables")

UseExistingNats ==
  /\ pc = "CreatingNATGateway"
  /\ config.exNats # {}
  /\ Save([work EXCEPT !.nats = config.exNats, !.phase = "WaitingNATGateway",
             !.avail = @ \cup config.exNats])
  /\ Creation /\ UNCHANGED cloud

(* One gateway, or one per recorded public subnet.                         *)
WantedNats == IF config.ha THEN Cardinality(work.pub) ELSE 1

MissingNats == config.exNats = {} /\ Cardinality(work.nats) < WantedNats

(* Indexing an empty PublicSubnets panics and takes the process down.      *)
AllocateAddress ==
  /\ pc = "CreatingNATGateway"
  /\ MissingNats
  /\ work.pub # {}
  /\ Create("eip", "available", 0, TRUE, {})
  /\ Goto(pc) /\ UNCHANGED work
  /\ Creation

NoPublicSubnetPanic ==
  /\ pc = "CreatingNATGateway"
  /\ MissingNats
  /\ work.pub = {}
  /\ Return
  /\ cache' = stack
  /\ cacheFresh' = TRUE
  /\ UNCHANGED <<cloud, config, stack, keys, faults>>

(* Mutant of CreateNatGateway: assigns the list instead of appending to it.*)
CreateOnlyNatGateway ==
  LET taken  == UNION {cloud[n].uses : n \in work.nats}
      subnet == Pick(work.pub \ taken)
  IN /\ pc = "CreatingNATGateway"
     /\ made # NoId
     /\ Unused # {}
     /\ work.pub \ taken # {}
     /\ cloud' = Created("nat", "pending", 0, TRUE, {made, subnet, work.vpc})
     /\ work' = [work EXCEPT !.nats = {NewId}]
     /\ made' = NoId
     /\ Goto(pc)
     /\ Creation

(* Gateway i goes to public subnet i, under the address in made.           *)
CreateNatGateway ==
  LET taken  == UNION {cloud[n].uses : n \in work.nats}
      subnet == Pick(work.pub \ taken)
  IN /\ pc = "CreatingNATGateway"
     /\ made # NoId
     /\ Unused # {}
     /\ work.pub \ taken # {}
     /\ cloud' = Created("nat", "pending", 0, TRUE, {made, subnet, work.vpc})
     /\ work' = [work EXCEPT !.nats = @ \cup {NewId}]
     /\ made' = NoId
     /\ Goto(pc)
     /\ Creation

NatsCreated ==
  /\ pc = "CreatingNATGateway"
  /\ config.exNats = {}
  /\ made = NoId /\ ~MissingNats
  /\ Save([work EXCEPT !.phase = "WaitingNATGateway"])
  /\ Creation /\ UNCHANGED cloud

CheckNATGatewaysReady ==
  pc = "WaitingNATGateway" /\ Wait(work.nats, "CreatingRouteTables")

-----------------------------------------------------------------------------
(* Route tables: a public one, then the private ones behind the gateways.  *)

AfterRouteTables ==
  IF config.sgs > 0 THEN "CreatingSecurityGroups"
  ELSE IF config.bastion THEN "CreatingBastionSecurityGroup"
  ELSE "Ready"

Enter(o, phase) == [o EXCEPT !.phase = phase, !.ready = @ \/ phase = "Ready"]

(* Mutant of UseExistingRouteTables: the tables are not entered.           *)
UseExistingRouteTablesUnrecorded ==
  /\ pc = "CreatingRouteTables"
  /\ config.exRts # {}
  /\ Save(Enter(work, AfterRouteTables))
  /\ Creation /\ UNCHANGED cloud

UseExistingRouteTables ==
  /\ pc = "CreatingRouteTables"
  /\ config.exRts # {}
  /\ Save(Enter([work EXCEPT !.rts = config.exRts], AfterRouteTables))
  /\ Creation /\ UNCHANGED cloud

(* The gateways that get a private route table of their own, or share one. *)
Unrouted == IF work.priv = {} THEN {} ELSE work.nats \ routed

MissingRts == work.rts = {} \/ Unrouted # {}

CreateRouteTable ==
  /\ pc = "CreatingRouteTables"
  /\ config.exRts = {}
  /\ MissingRts
  /\ Create("rt", "available", 0, TRUE, {work.vpc})
  /\ Goto(pc) /\ UNCHANGED work
  /\ Creation

(* The subnets the table in made is for: the public ones; or every private *)
(* one; or, with a gateway per zone, the private one of the gateway's      *)
(* position, if there is one.                                              *)
Targets ==
  LET served == UNION {cloud[r].assoc : r \in work.rts}
  IN IF work.rts = {} THEN work.pub
     ELSE IF ~config.ha THEN work.priv
     ELSE IF work.priv \subseteq served THEN {}
     ELSE {Pick(work.priv \ served)}

(* CreateRoute and the AssociateRouteTable calls succeed and the table is  *)
(* recorded -- unless it is a gateway's and has no subnet.                 *)
RecordRouteTable ==
  /\ pc = "CreatingRouteTables"
  /\ made # NoId
  /\ MissingRts
  /\ Targets \cap Held(made) = {}
  /\ cloud' = Associated(made, Targets)
  /\ work' = IF work.rts # {} /\ Targets = {} THEN work
             ELSE [work EXCEPT !.rts = @ \cup {made}]
  /\ routed' = IF work.rts = {} THEN routed
               ELSE IF config.ha THEN routed \cup {Pick(Unrouted)}
               ELSE work.nats
  /\ made' = NoId
  /\ pc' = pc
  /\ UNCHANGED workFresh
  /\ Creation

(* One of them fails after some associations were made: because a subnet   *)
(* is held by another table, or for any other reason.                      *)
RouteTableFails ==
  /\ pc = "CreatingRouteTables"
  /\ made # NoId
  /\ IF Targets \cap Held(made) = {} THEN Fault ELSE UNCHANGED faults
  /\ \E done \in SUBSET (Targets \ Held(made)) : cloud' = Associated(made, done)
  /\ Abort
  /\ UNCHANGED <<kube, keys>>

RouteTablesCreated ==
  /\ pc = "CreatingRouteTables"
  /\ config.exRts = {}
  /\ made = NoId /\ ~MissingRts
  /\ Save(Enter(work, AfterRouteTables))
  /\ Creation /\ UNCHANGED cloud

-----------------------------------------------------------------------------
(* Security groups and the bastion.                                        *)

AfterSecurityGroups ==
  IF config.bastion THEN "CreatingBastionSecurityGroup" ELSE "Ready"

UseExistingSecurityGroups ==
  /\ pc = "CreatingSecurityGroups"
  /\ config.exSgs # {}
  /\ Save(Enter([work EXCEPT !.sgs = config.exSgs], AfterSecurityGroups))
  /\ Creation /\ UNCHANGED cloud

MissingSgs == Cardinality(work.sgs) < config.sgs

(* The name of a security group is its slot; the bastion's group has 0.    *)
CreateSecurityGroup ==
  LET slot == Cardinality(work.sgs) + 1
  IN /\ pc = "CreatingSecurityGroups"
     /\ config.exSgs = {}
     /\ made = NoId
     /\ MissingSgs
     /\ IF Clash("sg", slot, work.vpc)
          THEN Abort /\ UNCHANGED cloud
          ELSE /\ Create("sg", "available", slot, TRUE, {work.vpc})
               /\ Goto(pc) /\ UNCHANGED work
     /\ Creation

(* Recorded once its ingress rules are in place.                           *)
AuthorizeIngress ==
  /\ pc = "CreatingSecurityGroups"
  /\ made # NoId
  /\ work' = [work EXCEPT !.sgs = @ \cup {made}]
  /\ made' = NoId
  /\ Goto(pc)
  /\ Creation /\ UNCHANGED cloud

SecurityGroupsCreated ==
  /\ pc = "CreatingSecurityGroups"
  /\ config.exSgs = {}
  /\ made = NoId /\ ~MissingSgs
  /\ Save(Enter(work, AfterSecurityGroups))
  /\ Creation /\ UNCHANGED cloud

(* The bastion's group is recorded whatever becomes of its ingress rules.  *)
CreateBastionSecurityGroup ==
  /\ pc = "CreatingBastionSecurityGroup"
  /\ IF Clash("sg", 0, work.vpc)
       THEN Abort /\ UNCHANGED cloud
       ELSE /\ Unused # {}
            /\ cloud' = Created("sg", "available", 0, TRUE, {work.vpc})
            /\ Save([work EXCEPT !.bsg = NewId, !.phase = "CreatingBastionInstance"])
  /\ Creation

(* Subnet, security group and key pair for the bastion.  A key pair that   *)
(* already exists ("InvalidKeyPair.Duplicate") is taken over as it is.     *)
PrepareBastion ==
  /\ pc = "CreatingBastionInstance"
  /\ IF work.pub = {}
       THEN Abort /\ UNCHANGED keypair
       ELSE /\ pc' = IF config.ownKey \/ keypair THEN "RunInstance" ELSE "StoreKey"
            /\ keypair' = (keypair \/ ~config.ownKey)
            /\ UNCHANGED <<work, workFresh, made, routed>>
  /\ UNCHANGED <<cloud, kube, secret, faults>>

(* The private key is returned once, by CreateKeyPair, and goes into the   *)
(* Secret.                                                                 *)
StoreKey ==
  /\ pc = "StoreKey"
  /\ secret' = TRUE
  /\ pc' = "RunInstance"
  /\ UNCHANGED <<cloud, kube, work, workFresh, made, routed, keypair, faults>>

RunInstance ==
  /\ pc = "RunInstance"
  /\ Unused # {}
  /\ cloud' = Created("instance", "pending", 0, ~config.ownName,
                      {work.vpc, Pick(work.pub), work.bsg})
  /\ Save([work EXCEPT !.bastion = NewId, !.phase = "WaitingBastionInstance"])
  /\ Creation

(* Mutant of CheckBastionReady: does not look at the instance's state.     *)
CheckBastionUnseen ==
  /\ pc = "WaitingBastionInstance"
  /\ Save(Enter(work, "Ready"))
  /\ Creation /\ UNCHANGED cloud

CheckBastionReady ==
  pc = "WaitingBastionInstance" /\ Wait({work.bastion}, "Ready")

(* The next call creates something, and the account's quota is used up.    *)
QuotaExceeded ==
  /\ Unused = {}
  /\ \/ made = NoId /\ pc = "CreatingVPC" /\ config.exVpc = NoId
     \/ made = NoId /\ pc = "CreatingInternetGateway" /\ config.exIgw = NoId
     \/ /\ made = NoId /\ pc = "CreatingSubnets" /\ ExistingSubnets = {}
        /\ MissingPub \/ MissingPriv
     \/ pc = "CreatingNATGateway" /\ MissingNats /\ work.pub # {}
     \/ made = NoId /\ pc = "CreatingRouteTables" /\ config.exRts = {} /\ MissingRts
     \/ made = NoId /\ pc = "CreatingSecurityGroups" /\ config.exSgs = {} /\ MissingSgs
     \/ pc \in {"CreatingBastionSecurityGroup", "RunInstance"}
  /\ Abort
  /\ Creation /\ UNCHANGED cloud

-----------------------------------------------------------------------------
(* Deletion: each reconcile takes one step of deleteStackAsync.            *)

(* The VPC searched for resources the status does not record.              *)
TargetVpc == IF work.vpc # NoId THEN work.vpc ELSE config.exVpc

OrphanBastions == {i \in InVpc(TargetVpc) \cap LiveOf("instance") : cloud[i].tagged}

OrphanRts == {i \in InVpc(TargetVpc) \cap LiveOf("rt") : cloud[i].tagged}

Deletion == UNCHANGED <<kube, keys, faults>>

(* A step that waits, or an error: the copy goes back as it is.            *)
Retry == Save(work) /\ UNCHANGED cloud

DeletePhases ==
  {"delete", "deleteBastionSG", "deleteRouteTable", "deleteNat",
   "deleteSubnet", "deleteIgw", "deleteSecurityGroup", "deleteOrphanRt",
   "deleteVpc"}

(* Describing or deleting fails for a reason that is not "not found".      *)
DeleteCallFails ==
  /\ pc \in DeletePhases
  /\ Fault
  /\ Retry
  /\ UNCHANGED <<kube, keys>>

RetainResources ==
  /\ pc = "delete"
  /\ config.retain
  /\ pc' = "removeFinalizer"
  /\ UNCHANGED <<cloud, kube, work, workFresh, made, routed, keys, faults>>

(* Mutant of DeleteBastion: the deletion policy is not looked at.          *)
DeleteBastionAnyway ==
  /\ pc = "delete"
  /\ work.bastion # NoId
  /\ cloud' = IF Live(work.bastion) THEN InState(work.bastion, "deleting") ELSE cloud
  /\ Save(IF Live(work.bastion) THEN work ELSE [work EXCEPT !.bastion = NoId])
  /\ Deletion

(* The recorded bastion first: everything else is used by it.              *)
DeleteBastion ==
  /\ pc = "delete"
  /\ ~config.retain
  /\ work.bastion # NoId
  /\ IF Live(work.bastion)
       THEN /\ cloud' = InState(work.bastion, "deleting")
            /\ Save(work)
       ELSE /\ UNCHANGED cloud
            /\ Save([work EXCEPT !.bastion = NoId])
  /\ Deletion

(* Mutant of TerminateOrphan: there is no search for lost instances.       *)
TerminateNoOrphan == FALSE

(* Then an instance that lost its record, found by its Name tag.           *)
TerminateOrphan ==
  /\ pc = "delete"
  /\ ~config.retain
  /\ work.bastion = NoId
  /\ OrphanBastions # {}
  /\ cloud' = InState(Pick(OrphanBastions), "deleting")
  /\ Save(work)
  /\ Deletion

(* Mutants of DeleteStage: the subnets before the gateways in them; the    *)
(* user's resources like the stack's own.                                  *)
DeleteSubnetsFirst ==
  IF work.bsg # NoId                                THEN "deleteBastionSG"
  ELSE IF config.exRts = {} /\ work.rts # {}        THEN "deleteRouteTable"
  ELSE IF /\ ExistingSubnets = {}
          /\ work.pub \cup work.priv # {}           THEN "deleteSubnet"
  ELSE IF config.exNats = {} /\ work.nats # {}      THEN "deleteNat"
  ELSE IF config.exIgw = NoId /\ work.igw # NoId    THEN "deleteIgw"
  ELSE IF config.exSgs = {} /\ work.sgs # {}        THEN "deleteSecurityGroup"
  ELSE IF TargetVpc # NoId /\ OrphanRts # {}        THEN "deleteOrphanRt"
  ELSE IF config.exVpc = NoId /\ work.vpc # NoId    THEN "deleteVpc"
  ELSE "removeFinalizer"

DeleteExistingToo ==
  IF work.bsg # NoId                     THEN "deleteBastionSG"
  ELSE IF work.rts # {}                  THEN "deleteRouteTable"
  ELSE IF work.nats # {}                 THEN "deleteNat"
  ELSE IF work.pub \cup work.priv # {}   THEN "deleteSubnet"
  ELSE IF work.igw # NoId                THEN "deleteIgw"
  ELSE IF work.sgs # {}                  THEN "deleteSecurityGroup"
  ELSE IF TargetVpc # NoId /\ OrphanRts # {} THEN "deleteOrphanRt"
  ELSE IF work.vpc # NoId                THEN "deleteVpc"
  ELSE "removeFinalizer"

(* What is left to delete, in the order the code looks for it.             *)
DeleteStage ==
  IF work.bsg # NoId                                THEN "deleteBastionSG"
  ELSE IF config.exRts = {} /\ work.rts # {}        THEN "deleteRouteTable"
  ELSE IF config.exNats = {} /\ work.nats # {}      THEN "deleteNat"
  ELSE IF /\ ExistingSubnets = {}
          /\ work.pub \cup work.priv # {}           THEN "deleteSubnet"
  ELSE IF config.exIgw = NoId /\ work.igw # NoId    THEN "deleteIgw"
  ELSE IF config.exSgs = {} /\ work.sgs # {}        THEN "deleteSecurityGroup"
  ELSE IF TargetVpc # NoId /\ OrphanRts # {}        THEN "deleteOrphanRt"
  ELSE IF config.exVpc = NoId /\ work.vpc # NoId    THEN "deleteVpc"
  ELSE "removeFinalizer"

(* DeleteKeyPair is tried in every pass, and its failure only logged; the  *)
(* pass also gets here when the search for orphan instances failed.        *)
DeleteKeyPair ==
  /\ pc = "delete"
  /\ ~config.retain
  /\ work.bastion = NoId
  /\ \/ OrphanBastions = {} /\ keypair' = FALSE /\ UNCHANGED faults
     \/ OrphanBastions = {} /\ keypair /\ Fault /\ UNCHANGED keypair
     \/ OrphanBastions # {} /\ Fault /\ keypair' = FALSE
  /\ pc' = DeleteStage
  /\ UNCHANGED <<cloud, kube, work, workFresh, made, routed, secret>>

(* EC2 deletes i unless it is in use, which is waited out; a resource that *)
(* is already gone is dropped from the status all the same.                *)
DeleteOrWait(i, o) ==
  IF Live(i) /\ InUse(i) THEN Retry
  ELSE cloud' = InState(i, "deleted") /\ Save(o)

DeleteBastionSG ==
  /\ pc = "deleteBastionSG"
  /\ DeleteOrWait(work.bsg, [work EXCEPT !.bsg = NoId])
  /\ Deletion

(* The associations are undone before the table is deleted.                *)
DeleteRouteTable ==
  LET rt == Pick(work.rts)
  IN /\ pc = "deleteRouteTable"
     /\ cloud' = TableDeleted(rt)
     /\ Save([work EXCEPT !.rts = @ \ {rt}])
     /\ Deletion

(* Mutant of DeleteNat: the gateway is dropped without waiting for it.     *)
DeleteNatAtOnce ==
  LET nat == Pick(work.nats)
  IN /\ pc = "deleteNat"
     /\ cloud' = IF Live(nat) THEN InState(nat, "deleting") ELSE cloud
     /\ Save([work EXCEPT !.nats = @ \ {nat}])
     /\ Deletion

(* A gateway takes time to go; its address is released after that, and is  *)
(* forgotten with it even when the release fails.                          *)
DeleteNat ==
  LET nat  == Pick(work.nats)
      gone == [i \in Ids |-> IF i \in EipOf(nat)
                             THEN [cloud[i] EXCEPT !.state = "deleted"]
                             ELSE cloud[i]]
  IN /\ pc = "deleteNat"
     /\ \/ /\ Live(nat)
           /\ cloud' = InState(nat, "deleting")
           /\ Save(work)
           /\ UNCHANGED faults
        \/ /\ ~Live(nat)
           /\ \/ cloud' = gone /\ UNCHANGED faults
              \/ Fault /\ UNCHANGED cloud
           /\ Save([work EXCEPT !.nats = @ \ {nat}])
     /\ UNCHANGED <<kube, keys>>

DeleteSubnet ==
  LET subnet == IF work.pub # {} THEN Pick(work.pub) ELSE Pick(work.priv)
  IN /\ pc = "deleteSubnet"
     /\ DeleteOrWait(subnet, [work EXCEPT !.pub = @ \ {subnet}, !.priv = @ \ {subnet}])
     /\ Deletion

(* Detaching waits until no gateway or instance in the VPC has a public    *)
(* address; deleting may fail once the gateway is detached.                *)
DeleteIgw ==
  /\ pc = "deleteIgw"
  /\ IF /\ Live(work.igw) /\ cloud[work.igw].uses # {}
        /\ InVpc(TargetVpc) \cap (LiveOf("nat") \cup LiveOf("instance")) # {}
       THEN Retry /\ UNCHANGED faults
       ELSE \/ /\ cloud' = GatewayDeleted(work.igw)
               /\ Save([work EXCEPT !.igw = NoId])
               /\ UNCHANGED faults
            \/ /\ cloud' = [cloud EXCEPT ![work.igw].uses = {}]
               /\ Save(work)
               /\ Fault
  /\ UNCHANGED <<kube, keys>>

DeleteSecurityGroup ==
  LET sg == Pick(work.sgs)
  IN /\ pc = "deleteSecurityGroup"
     /\ DeleteOrWait(sg, [work EXCEPT !.sgs = @ \ {sg}])
     /\ Deletion

(* Route tables that carry the stack's tag but are in no status.           *)
DeleteOrphanRt ==
  LET rt == Pick(OrphanRts)
  IN /\ pc = "deleteOrphanRt"
     /\ OrphanRts # {}
     /\ cloud' = TableDeleted(rt)
     /\ Save(work)
     /\ Deletion

DeleteVpc ==
  /\ pc = "deleteVpc"
  /\ DeleteOrWait(work.vpc, [work EXCEPT !.vpc = NoId])
  /\ Deletion

(* With the finalizer gone Kubernetes deletes the object.                  *)
RemoveFinalizer ==
  /\ pc = "removeFinalizer"
  /\ workFresh
  /\ stack' = NoObject
  /\ cacheFresh' = FALSE
  /\ Return
  /\ UNCHANGED <<cloud, config, cache, keys, faults>>

-----------------------------------------------------------------------------
(* The specification.                                                      *)

Init ==
  /\ CloudInit
  /\ config \in Configs
  /\ stack = [NoObject EXCEPT !.exists = TRUE]
  /\ cache = stack /\ cacheFresh = TRUE
  /\ pc = "idle" /\ work = NoObject /\ workFresh = FALSE
  /\ made = NoId /\ routed = {}
  /\ keypair = FALSE /\ secret = FALSE
  /\ faults = 0

CreateStep ==
  \/ UseExistingVpc \/ CreateVpc \/ ModifyVpc \/ CheckVPCReady
  \/ UseExistingIgw \/ CreateInternetGateway \/ AttachInternetGateway
  \/ UseExistingSubnets \/ CreateSubnet \/ RecordSubnet \/ SubnetsCreated
  \/ CheckSubnetsReady
  \/ UseExistingNats \/ AllocateAddress \/ NoPublicSubnetPanic
  \/ CreateNatGateway \/ NatsCreated \/ CheckNATGatewaysReady
  \/ UseExistingRouteTables \/ CreateRouteTable \/ RecordRouteTable
  \/ RouteTableFails \/ RouteTablesCreated
  \/ UseExistingSecurityGroups \/ CreateSecurityGroup \/ AuthorizeIngress
  \/ SecurityGroupsCreated
  \/ CreateBastionSecurityGroup \/ PrepareBastion \/ StoreKey \/ RunInstance
  \/ CheckBastionReady
  \/ QuotaExceeded \/ CreateCallFails

DeleteStep ==
  \/ RetainResources \/ DeleteBastion \/ TerminateOrphan \/ DeleteKeyPair
  \/ DeleteBastionSG \/ DeleteRouteTable \/ DeleteNat \/ DeleteSubnet
  \/ DeleteIgw \/ DeleteSecurityGroup \/ DeleteOrphanRt \/ DeleteVpc
  \/ RemoveFinalizer \/ DeleteCallFails

Reconcile ==
  Begin \/ Resync \/ AddFinalizer \/ CreateStep \/ DeleteStep
  \/ WriteStatus \/ WriteLost

Next == Reconcile \/ RequestDelete \/ SyncCache \/ CloudStep \/ Crash

(* The work queue retries for ever, the watch delivers, EC2 makes progress *)
(* on each resource.  Nobody has to delete the object, and no fault has to *)
(* happen.                                                                 *)
Fairness ==
  /\ WF_vars(Reconcile)
  /\ WF_vars(SyncCache)
  /\ \A i \in Ids : WF_vars(CloudStep /\ cloud'[i] # cloud[i])

Spec == Init /\ [][Next]_vars

FairSpec == Spec /\ Fairness
-----------------------------------------------------------------------------
(* Properties.                                                             *)

(* Every variable holds what its comment says.                             *)
TypeOK ==
  /\ cloud \in [Ids -> Resource]
  /\ config \in Configs
  /\ stack \in Object /\ cache \in Object /\ work \in Object
  /\ cacheFresh \in BOOLEAN /\ workFresh \in BOOLEAN
  /\ pc \in {"idle", "addFinalizer", "write", "StoreKey", "RunInstance",
              "removeFinalizer"} \cup CreationPhases \cup DeletePhases
  /\ made \in Ids \cup {NoId}
  /\ routed \in SUBSET Ids
  /\ keypair \in BOOLEAN /\ secret \in BOOLEAN
  /\ faults \in 0 .. MaxFaults

(* What the status records exists: until the user asks for the deletion,   *)
(* no lost or stale write leaves an id in it that EC2 no longer knows.     *)
RecordedIsLive == ~stack.deleting => \A i \in Recorded(stack) : Live(i)

(* Ready is only ever reported for a status that records a resource of     *)
(* every kind the spec asks for, each seen available.                      *)
ReadyIsEarned ==
  stack.phase = "Ready" =>
    DetermineCurrentPhase([stack EXCEPT !.phase = "Pending"]) = "Ready"

(* What of the user's the deletion finds when it searches the VPC by the   *)
(* stack's tags: for instance what an earlier stack of that name retained. *)
Swept ==
  {i \in Foreign : /\ Preexisting[i].tagged
                   /\ Preexisting[i].kind \in {"instance", "rt"}
                   /\ config.exVpc \in Preexisting[i].uses}

(* A resource the user brought along is never deleted, detached from its   *)
(* VPC or taken apart -- but for what the deletion sweeps up by tag, and   *)
(* that too is left alone until the deletion is asked for, and for good    *)
(* under the Retain policy.                                                *)
ForeignIntact ==
  \A i \in Foreign :
    i \notin Swept \/ config.retain \/ (stack.exists /\ ~stack.deleting) =>
      /\ cloud[i].state = "available"
      /\ cloud[i].uses = Preexisting[i].uses
      /\ Preexisting[i].assoc \subseteq cloud[i].assoc

(* The status, and with it the object itself, never lets go of a resource  *)
(* the operator created while EC2 still has it: neither a stale write, nor *)
(* a retried deletion step, nor the removal of the finalizer drops one.    *)
Forgotten == Recorded(stack) \ Recorded(stack')

NoLiveResourceForgotten ==
  [][\A i \in Forgotten : i \in Foreign \/ config.retain \/ ~Live(i)]_vars

(* Once Deleting has been written, no stale reconcile writes another phase *)
(* over it, and none creates anything any more.                            *)
DeletingIsFinal ==
  [][stack.phase = "Deleting" /\ stack'.exists =>
       /\ stack'.phase = "Deleting"
       /\ Unused' = Unused]_vars

(* Up, coming up, or failed: not yet asked to go.                          *)
Standing == {"pending", "available", "failed"}

(* Nothing is deleted in EC2 before the user has asked for it, and nothing *)
(* at all under the Retain policy.                                         *)
DeletionIsAsked ==
  [][\A i \in Ids :
       cloud[i].state \in Standing /\ cloud'[i].state \in {"deleting", "deleted"}
       => (stack.deleting \/ ~stack.exists) /\ ~config.retain]_vars

(* Nothing of the user's is where the stack's own is to go: in the VPC the *)
(* spec names there is no gateway it does not name, no subnet in a range   *)
(* and no group of a name the controller will ask for; and no route table  *)
(* holds a subnet it names, unless it names the tables too.                *)
Unhindered ==
  LET InTheVpc(kind) == {i \in Foreign : /\ Preexisting[i].kind = kind
                                         /\ config.exVpc \in Preexisting[i].uses}
  IN /\ config.exIgw = NoId => InTheVpc("igw") = {}
     /\ ExistingSubnets = {} =>
          \A i \in InTheVpc("subnet") : Preexisting[i].slot \notin 1 .. WantedPub + config.priv
     /\ config.exSgs = {} =>
          \A i \in InTheVpc("sg") : Preexisting[i].slot \notin 1 .. config.sgs
     /\ config.bastion => \A i \in InTheVpc("sg") : Preexisting[i].slot # 0
     /\ config.exRts = {} =>
          /\ config.exPub \cap config.exPriv = {}
          /\ \A i \in Foreign : Preexisting[i].kind = "rt" =>
                                Preexisting[i].assoc \cap ExistingSubnets = {}

(* Nothing has failed, the quota has room, and the user is not in the way. *)
Undisturbed == faults = 0 /\ Unused # {} /\ Unhindered

(* As long as nothing disturbs a stack that is to stay, every resource the *)
(* operator created is recorded by the object or by the reconcile in       *)
(* flight, sits behind a recorded gateway, or is a route table that the    *)
(* deletion will find by tag.                                              *)
Accounted ==
  LET known == Recorded(stack) \cup Recorded(work) \cup {made}
  IN known \cup (UNION {EipOf(n) : n \in known \ {NoId}})
       \cup {i \in LiveOf("rt") : cloud[i].tagged}

NothingLostWithoutFault ==
  Undisturbed /\ stack.exists /\ ~stack.deleting =>
    \A i \in Ids \ Foreign : Live(i) => i \in Accounted

(* The stack becomes Ready, if nobody deletes it first.                    *)
EventuallyReady ==
  <>(stack.phase = "Ready" \/ stack.deleting \/ ~stack.exists)

(* Resources that no status records and no search finds, and that keep EC2 *)
(* from deleting what they are in.                                         *)
Strays ==
  {i \in Ids \ (Foreign \cup Recorded(stack)) :
     /\ Live(i)
     /\ \/ cloud[i].kind \in {"subnet", "nat", "sg"}
        \/ cloud[i].kind = "igw" /\ cloud[i].uses # {}
        \/ cloud[i].kind = "instance" /\ ~cloud[i].tagged}

(* Deletion gets through any failures, lost writes and crashes -- provided *)
(* that creation left no stray behind.                                     *)
DeletionCompletes == <>[](Strays = {}) => (stack.deleting ~> ~stack.exists)

(* What makes EC2 refuse every further attempt at a creation: a stray, or  *)
(* a route table in no status that holds subnets of the stack.             *)
Blockers ==
  Strays \cup {r \in LiveOf("rt") \ (Foreign \cup Recorded(stack)) :
                cloud[r].assoc # {}}

(* A spec with no list that a failure can leave half filled and no NAT     *)
(* gateway that EC2 can let fail, or one that names existing resources in  *)
(* place of every list.                                                    *)
OneOfEach ==
  \/ config.pub + config.priv <= 1 /\ config.sgs <= 1 /\ ~config.nat
  \/ /\ config.exVpc # NoId /\ config.exIgw # NoId /\ ExistingSubnets # {}
     /\ config.exNats # {} /\ config.exRts # {} /\ config.exSgs # {}

(* A NAT gateway needs a public subnet, which the spec may fail to list.   *)
Buildable == NeedsNAT => config.pub > 0 \/ config.exNats # {}

(* Creation reaches Ready unless something blocks it or the quota is used  *)
(* up: for every spec that can be built while nothing fails, and through   *)
(* failures, lost writes and crashes for a spec that has OneOfEach (for    *)
(* the others see CreatedBecomesReady).                                    *)
CreationRecovers ==
  /\ OneOfEach \/ (Buildable /\ [](faults = 0))
  /\ <>[](Blockers = {} /\ Unused # {})
  => EventuallyReady

-----------------------------------------------------------------------------
(* What the controller promises of any object: its status is the record,   *)
(* and what it created in EC2 are the resources.                           *)
Promise == INSTANCE Lifecycle WITH
  object   <- IF ~stack.exists THEN "gone"
              ELSE IF stack.deleting THEN "marked" ELSE "standing",
  kept     <- config.retain,
  recorded <- Recorded(stack) \ Foreign,
  live     <- {i \in Ids \ Foreign : Live(i)}

(* The controller implements it: through stale reads, lost writes and      *)
(* crashes no step of Reconcile breaks the promise.                        *)
KeepsPromise == Promise!Spec

-----------------------------------------------------------------------------
(* What the comments and the documentation say of the controller, and the  *)
(* code does not do.                                                       *)

(* "Isso garante idempotencia mesmo com conflitos de atualizacao de        *)
(* status": a VPC is created once, status conflicts or not.                *)
OneVpc == Cardinality(LiveOf("vpc") \ Foreign) <= 1

(* "Tudo criado = Ready": a status that records everything becomes Ready.  *)
CreatedBecomesReady ==
  DetermineCurrentPhase(stack) = "Ready" /\ stack.exists /\ ~stack.deleting
    ~> stack.phase = "Ready" \/ stack.deleting \/ ~stack.exists

(* "status.ready: All resources ready": all the subnets, gateways, route   *)
(* tables and security groups the spec lists.                              *)
ReadyIsComplete ==
  stack.ready =>
    /\ ExistingSubnets = {} =>
         /\ Cardinality(stack.pub) = WantedPub
         /\ Cardinality(stack.priv) = config.priv
    /\ NeedsNAT /\ config.exNats = {} /\ config.ha =>
         Cardinality(stack.nats) = Cardinality(stack.pub)
    /\ NeedsNAT /\ config.exRts = {} /\ stack.priv # {} => Cardinality(stack.rts) > 1
    /\ config.exSgs = {} => Cardinality(stack.sgs) = config.sgs

(* "Stores private key in Secret": the key of a bastion that is Ready can  *)
(* be read from the Secret its status names.                               *)
ReadyKeyIsStored == stack.ready /\ config.bastion /\ ~config.ownKey => secret

(* What does hold of the two before: a stack that nothing has disturbed    *)
(* and that reports Ready has all the spec asks for and a key to be read.  *)
CompleteWithoutFault == Undisturbed => ReadyIsComplete /\ ReadyKeyIsStored

(* The deletion function is called "until done=true", which it must reach. *)
DeletionFinishes == stack.deleting ~> ~stack.exists
=============================================================================
