------------------------------ MODULE SetupEKS ------------------------------
(***************************************************************************)
(* The SetupEKS controller: it makes a network, a cluster, node groups and *)
(* add-ons, phase after phase, one Reconcile per phase, and deletes all of *)
(* it again.  Every AWS call is a step of its own, so that a crash, or a   *)
(* change of the object, may come between any two of them.                 *)
(*                                                                         *)
(* What a phase makes is remembered in the status, which is written at the *)
(* end of Reconcile; the phase that finds it there does nothing.           *)
(***************************************************************************)
EXTENDS Integers, FiniteSets, Sequences

CONSTANTS
  Setups,     \* the specs considered, as far as they matter, and the quota of
              \* the account
  MaxId,      \* how many resources there can be
  MaxFaults   \* how often something goes wrong

Zones == 1..2

(* What the status has places for; the parts of the second zone are there  *)
(* if the spec has two.                                                    *)
Public    == <<"public1", "public2">>
Private   == <<"private1", "private2">>
Eip       == <<"eip1", "eip2">>
NAT       == <<"nat1", "nat2">>
PrivateRT == <<"privateRT1", "privateRT2">>

Each(parts) == {parts[z] : z \in Zones}

Subnets == Each(Public) \cup Each(Private)
Tables  == {"publicRT"} \cup Each(PrivateRT)
Roles   == {"clusterRole", "nodeRole"}
Groups  == {"clusterSG", "nodeSG"}

Parts == Roles \cup {"vpc", "igw"} \cup Subnets \cup Each(Eip) \cup Each(NAT) \cup Tables
           \cup Groups \cup {"cluster", "pool", "addon"}

(* A balancer is made by what runs in the cluster.                         *)
Kinds == Parts \cup {"balancer"}

(* What exists before: a VPC that the spec names, with a gateway of its    *)
(* own, or with subnets of one zone that the spec names too.  It has the   *)
(* first ids.                                                              *)
ForeignParts ==
  [nothing |-> <<>>, vpc |-> <<"vpc">>, gateway |-> <<"vpc", "igw">>,
   subnets |-> <<"vpc", "public1", "private1">>]

ASSUME SetupAssumption ==
  /\ Setups \subseteq [nat : {"None", "Single", "HighAvailability"}, zones : Zones,
                       existing : DOMAIN ForeignParts, addons : BOOLEAN,
                       policy : {"Delete", "Retain"}, quota : 3..MaxId]
  /\ \A setup \in Setups : setup.existing = "subnets" => setup.zones = 1

ASSUME BoundsAssumption == MaxId \in Nat /\ MaxId >= 3 /\ MaxFaults \in Nat

Ids == 1..MaxId
None == 0

VARIABLES
  config,      \* the spec: a member of Setups
  object,      \* the object in the API server
  cache,       \* the object in the controller's cache
  cacheFresh,  \* whether that is the latest version
  pc,          \* where Reconcile is
  work,        \* the object that Reconcile has read, and changes
  workFresh,   \* whether it was the latest version
  todo,        \* the calls that this Reconcile has left
  made,        \* the ids that it holds in local variables
  cloud,       \* the resources
  faults       \* how often something has gone wrong

local == <<pc, work, workFresh, todo, made>>
kube  == <<object, cache, cacheFresh>>
vars  == <<config, object, cache, cacheFresh, pc, work, workFresh, todo, made, cloud, faults>>

NoRecord == [part \in Parts |-> None]

Object(exists, phase, rec) ==
  [exists |-> exists, deleting |-> FALSE, finalizer |-> FALSE, phase |-> phase,
   ready |-> FALSE, rec |-> rec]

Created == Object(TRUE, "", NoRecord)
Gone    == Object(FALSE, "", NoRecord)

Resource(state, part, settings, network, address) ==
  [state |-> state, part |-> part, settings |-> settings, network |-> network,
   address |-> address]

Nothing == Resource("none", "", {}, None, None)

Fault == faults < MaxFaults /\ faults' = faults + 1

OwnVpc     == config.existing = "nothing"
OwnSubnets == config.existing # "subnets"

ForeignPart == ForeignParts[config.existing]

Foreign == DOMAIN ForeignPart

-----------------------------------------------------------------------------
(* The resources.                                                          *)
Live      == {i \in Ids : cloud[i].state \in {"pending", "available", "failed"}}
Described == Live \cup {i \in Ids : cloud[i].state = "deleting"}
Unused    == {i \in 1..config.quota : cloud[i].state = "none"}
Fresh     == {i \in Unused : \A j \in Unused : i <= j}

Ours == Live \ Foreign

Slow == {"vpc", "cluster", "pool", "addon"} \cup Each(NAT)

Lingering == {"cluster", "pool", "balancer"} \cup Each(NAT)

(* Those that have a name, under which AWS has only one.                   *)
HasName == Roles \cup {"cluster", "pool", "addon"}

Of(parts) == {i \in Described : cloud[i].part \in parts}

(* What is in the network of a resource, or in a VPC.                      *)
Within(network, parts) == {i \in Of(parts) : cloud[i].network = network}

Twins(part, network) ==
  IF part \in HasName THEN Of({part})
  ELSE IF part \in Groups \cup Subnets THEN Within(network, {part})
  ELSE {}

(* An internet gateway can be attached to a VPC that has none, a table be  *)
(* associated with a subnet that has none.                                 *)
Taken(i, setting) ==
  /\ setting \in {"attachment", "association"}
  /\ \E j \in Within(cloud[i].network, {cloud[i].part}) \ {i} : setting \in cloud[j].settings

(* What keeps a resource from being deleted.                               *)
InUse(i) ==
  LET users(parts) == Within(IF cloud[i].part = "vpc" THEN i ELSE cloud[i].network, parts) # {}
  IN CASE cloud[i].part = "cluster"    -> Of({"pool"}) # {}
       [] cloud[i].part = "clusterSG"  -> Of({"cluster"}) # {} \/ users({"nodeSG"})
       [] cloud[i].part \in Subnets    ->
            users(Each(NAT) \cup {"balancer"}) \/ Of({"cluster", "pool"}) # {}
       [] cloud[i].part = "igw"        -> "attachment" \in cloud[i].settings
       [] cloud[i].part \in Roles      -> "policies" \in cloud[i].settings
       [] cloud[i].part \in Each(Eip)  -> \E j \in Of(Each(NAT)) : cloud[j].address = i
       [] cloud[i].part = "vpc"        ->
            \/ users(Subnets \cup Groups \cup Tables \cup Each(NAT) \cup {"cluster", "balancer"})
            \/ \E j \in Within(i, {"igw"}) : "attachment" \in cloud[j].settings
       [] OTHER                        -> FALSE

-----------------------------------------------------------------------------
(* What is switched on after a resource is made.                           *)
Attributes == {"hostnames", "support", "attachment", "publicIp", "route", "association",
               "policies", "nodes", "cluster"}

Outcomes == {"fails", "waits", "passes"}

Steps == [op : {"make", "set", "find", "delete", "await", "detach", "sweep", "clear"},
          part : Kinds \cup {"tables", "balancers"}, setting : Attributes \cup {""},
          records : SUBSET Parts, inUse : Outcomes, on : Outcomes]

(* The scripts of the phases: what is left to be made, and with which call *)
(* it comes into the status.  A call that fails ends the phase, or is      *)
(* passed over.                                                            *)
Step(op, part, setting, records, inUse, on) ==
  [op |-> op, part |-> part, setting |-> setting, records |-> records, inUse |-> inUse,
   on |-> on]

Making(part, setting, records) ==
  Step(IF setting = "" THEN "make" ELSE "set", part, setting, records, "fails", "fails")

Make(part)               == Making(part, "", {})
MakeAndRecord(part)      == Making(part, "", {part})
TryMake(part)            == [MakeAndRecord(part) EXCEPT !.on = "passes"]
Set(part, setting)       == Making(part, setting, {})
SetUnrecorded(part, what) == Set(part, what)   \* a mutant of the next one
SetAndRecord(part, what) == Making(part, what, {part})
Find(parts)              == Step("find", "vpc", "", parts, "fails", "fails")

IsRecorded(part) == work.rec[part] # None

If(condition, script) == IF condition THEN script ELSE <<>>

InZones(Script(_)) == Script(1) \o If(config.zones = 2, Script(2))

role(part) == If(~IsRecorded(part), <<MakeAndRecord(part), Set(part, "policies")>>)

reconcileIAMRoles == role("clusterRole") \o role("nodeRole")

reconcileVPC ==
  If(~IsRecorded("vpc"),
     IF OwnVpc THEN <<Make("vpc"), Set("vpc", "hostnames"), SetAndRecord("vpc", "support")>>
     ELSE <<Find({"vpc"})>>)

(* Also in a VPC that exists already.                                      *)
reconcileInternetGateway ==
  If(~IsRecorded("igw"), <<Make("igw"), SetAndRecord("igw", "attachment")>>)

reconcileSubnets ==
  LET public(z)  == If(~IsRecorded(Public[z]),
                       <<Make(Public[z]), SetAndRecord(Public[z], "publicIp")>>)
      private(z) == If(~IsRecorded(Private[z]), <<MakeAndRecord(Private[z])>>)
  IN IF OwnSubnets THEN InZones(public) \o InZones(private)
     ELSE <<Find({"public1", "private1"})>>

(* Once there is one, there are no more.                                   *)
reconcileNATGateways ==
  LET nat(z) == <<Make(Eip[z]), Making(NAT[z], "", {Eip[z], NAT[z]})>>
  IN If(\A z \in Zones : ~IsRecorded(NAT[z]),
        nat(1) \o If(config.nat = "HighAvailability" /\ IsRecorded("public2"), nat(2)))

reconcileRouteTables ==
  LET table(part) ==
        <<Make(part), Set(part, "route"), SetAndRecord(part, "association")>>
      private(z)  == If(IsRecorded(NAT[z]) /\ IsRecorded(Private[z]), table(PrivateRT[z]))
  IN If(\A part \in Tables : ~IsRecorded(part),
        table("publicRT") \o private(1) \o private(2))

(* Mutant: the group is recorded before it has its rules.                  *)
GroupsRecordedEarly ==
  If(~IsRecorded("clusterSG"), <<MakeAndRecord("clusterSG")>>)
  \o If(~IsRecorded("nodeSG"),
        <<MakeAndRecord("nodeSG"), Set("nodeSG", "nodes"), Set("nodeSG", "cluster")>>)

reconcileSecurityGroups ==
  If(~IsRecorded("clusterSG"), <<MakeAndRecord("clusterSG")>>)
  \o If(~IsRecorded("nodeSG"),
        <<Make("nodeSG"), Set("nodeSG", "nodes"), SetAndRecord("nodeSG", "cluster")>>)

reconcileCluster   == If(~IsRecorded("cluster"), <<MakeAndRecord("cluster")>>)
reconcileNodePools == If(~IsRecorded("pool"), <<MakeAndRecord("pool")>>)
reconcileAddons    == If(~IsRecorded("addon"), <<TryMake("addon")>>)

(* The phases that make something, and the ones that wait for it.          *)
ScriptOf(phase) ==
  CASE phase = "CreatingIAMRoles"       -> reconcileIAMRoles
    [] phase = "CreatingVPC"            -> reconcileVPC
    [] phase = "CreatingIGW"            -> reconcileInternetGateway
    [] phase = "CreatingSubnets"        -> reconcileSubnets
    [] phase = "CreatingNATGateway"     -> reconcileNATGateways
    [] phase = "CreatingRouteTables"    -> reconcileRouteTables
    [] phase = "CreatingSecGroups"      -> reconcileSecurityGroups
    [] phase = "CreatingCluster"        -> reconcileCluster
    [] phase = "CreatingNodePools"      -> reconcileNodePools
    [] phase = "InstallingAddons"       -> reconcileAddons

Creating == {"CreatingIAMRoles", "CreatingVPC", "CreatingIGW", "CreatingSubnets",
             "CreatingNATGateway", "CreatingRouteTables", "CreatingSecGroups",
             "CreatingCluster", "CreatingNodePools", "InstallingAddons"}

AwaitedIn ==
  [WaitingVPC |-> {"vpc"}, WaitingSubnets |-> Subnets, WaitingNATGateway |-> Each(NAT),
   WaitingCluster |-> {"cluster"}, WaitingNodePools |-> {"pool"}, WaitingAddons |-> {"addon"}]

Waiting == DOMAIN AwaitedIn

(* Without private subnets, or if the user wants none, no NAT gateways.    *)
WantsNat == config.nat # "None" /\ \E z \in Zones : IsRecorded(Private[z])

NextPhase(phase) ==
  CASE phase \in {"", "Failed"}       -> "Pending"
    [] phase = "Pending"              -> "CreatingIAMRoles"
    [] phase = "CreatingIAMRoles"     -> "CreatingVPC"
    [] phase = "CreatingVPC"          -> "WaitingVPC"
    [] phase = "WaitingVPC"           -> "CreatingIGW"
    [] phase = "CreatingIGW"          -> "CreatingSubnets"
    [] phase = "CreatingSubnets"      -> "WaitingSubnets"
    [] phase = "WaitingSubnets"       -> IF WantsNat THEN "CreatingNATGateway"
                                         ELSE "CreatingRouteTables"
    [] phase = "CreatingNATGateway"   -> "WaitingNATGateway"
    [] phase = "WaitingNATGateway"    -> "CreatingRouteTables"
    [] phase = "CreatingRouteTables"  -> "CreatingSecGroups"
    [] phase = "CreatingSecGroups"    -> "CreatingCluster"
    [] phase = "CreatingCluster"      -> "WaitingCluster"
    [] phase = "WaitingCluster"       -> "CreatingNodePools"
    [] phase = "CreatingNodePools"    -> "WaitingNodePools"
    [] phase = "WaitingNodePools"     -> IF config.addons THEN "InstallingAddons" ELSE "Ready"
    [] phase = "InstallingAddons"     -> "WaitingAddons"
    [] phase = "WaitingAddons"        -> "Ready"

Phases == Creating \cup Waiting \cup {"", "Pending", "Failed", "Ready", "Deleting"}

-----------------------------------------------------------------------------
(* The script of the deletion.  A resource that is in use makes Reconcile  *)
(* wait, and come again, or not; so does any other failure.  The last step *)
(* of a part clears its place in the status, whatever AWS has said.        *)
DeleteStep(op, part, clears, inUse, on) == Step(op, part, "", clears, inUse, on)

Delete(part, inUse)        == DeleteStep("delete", part, {part}, inUse, "passes")
DeleteFirst(part, on)      == DeleteStep("delete", part, {}, "waits", on)
Await(part, clears)        == DeleteStep("await", part, clears, "waits", "passes")
Clear(parts)               == DeleteStep("clear", "vpc", parts, "passes", "passes")
Detach(part, setting)      == Step("detach", part, setting, {}, "passes", "passes")
Sweep(parts, clears)       == DeleteStep("sweep", parts, clears, "passes", "passes")

deleteNodeGroups == If(IsRecorded("pool"), <<DeleteFirst("pool", "waits"), Await("pool", {"pool"})>>)

deleteAddons == If(IsRecorded("addon"), <<Delete("addon", "passes")>>)

deleteCluster ==
  If(IsRecorded("cluster"), <<DeleteFirst("cluster", "waits"), Await("cluster", {"cluster"})>>)

deleteSecurityGroup(part) == If(IsRecorded(part), <<Delete(part, "waits")>>)

(* Whatever route tables there are in the VPC.                             *)
deleteRouteTables == If(OwnVpc /\ IsRecorded("vpc"), <<Sweep("tables", Tables)>>)

(* Mutant: the addresses are released while the gateways are on their way. *)
deleteNATGatewaysAtOnce ==
  LET gateway(z) == If(IsRecorded(NAT[z]),
                       <<DeleteFirst(NAT[z], "waits"),
                         DeleteStep("delete", Eip[z], {}, "passes", "passes")>>)
  IN If(OwnSubnets, gateway(1) \o gateway(2) \o <<Clear(Each(NAT) \cup Each(Eip))>>)

deleteNATGateways ==
  LET nat(z)     == If(IsRecorded(NAT[z]), <<DeleteFirst(NAT[z], "waits")>>)
      address(z) == If(IsRecorded(NAT[z]),
                       <<Await(NAT[z], {}), DeleteStep("delete", Eip[z], {}, "passes", "passes")>>)
      all        == nat(1) \o nat(2) \o address(1) \o address(2)
  IN If(OwnSubnets /\ all # <<>>,
        all \o <<Clear(Each(NAT) \cup Each(Eip))>>)

(* Mutant: they are waited for, but nobody deletes them.                   *)
awaitLoadBalancers == If(OwnVpc /\ IsRecorded("vpc"), <<Await("balancer", {})>>)

(* Those that what ran in the cluster has left.                            *)
deleteLoadBalancers ==
  If(OwnVpc /\ IsRecorded("vpc"), <<Sweep("balancers", {}), Await("balancer", {})>>)

(* Mutant: the user's subnets are taken for the setup's own.               *)
deleteAllSubnets ==
  LET subnet(part) == If(IsRecorded(part), <<DeleteFirst(part, "passes")>>)
  IN subnet("public1") \o subnet("public2") \o subnet("private1") \o subnet("private2")
     \o <<Clear(Subnets)>>

deleteSubnets ==
  LET subnet(part) == If(IsRecorded(part), <<DeleteFirst(part, "passes")>>)
  IN If(OwnSubnets,
        subnet("public1") \o subnet("public2") \o subnet("private1") \o subnet("private2")
        \o <<Clear(Subnets)>>)

deleteInternetGateway ==
  If(OwnVpc /\ IsRecorded("igw"),
     If(IsRecorded("vpc"), <<Detach("igw", "attachment")>>) \o <<Delete("igw", "passes")>>)

deleteVPC == If(OwnVpc /\ IsRecorded("vpc"), <<Delete("vpc", "waits")>>)

deleteRole(part) ==
  If(IsRecorded(part), <<Detach(part, "policies"), Delete(part, "passes")>>)

deleteSetup ==
  If(config.policy # "Retain",
     deleteNodeGroups \o deleteAddons \o deleteCluster
     \o deleteSecurityGroup("nodeSG") \o deleteSecurityGroup("clusterSG")
     \o deleteRouteTables \o deleteNATGateways \o deleteLoadBalancers
     \o deleteSubnets \o deleteInternetGateway \o deleteVPC
     \o deleteRole("nodeRole") \o deleteRole("clusterRole"))

-----------------------------------------------------------------------------
(* Reconcile.                                                              *)
Return ==
  /\ pc' = "idle" /\ work' = Gone /\ workFresh' = FALSE
  /\ todo' = <<>> /\ made' = NoRecord

ReadObject ==
  /\ pc = "idle" /\ cache.exists
  /\ IF cacheFresh THEN UNCHANGED faults ELSE Fault
  /\ workFresh' = cacheFresh
  /\ todo' = <<>> /\ made' = NoRecord
  /\ UNCHANGED <<config, object, cache, cacheFresh, cloud>>

(* Mutant: a phase that has failed is not repeated.                        *)
BeginSyncUnlessFailed ==
  /\ ReadObject /\ ~cache.deleting
  /\ ~(cache.finalizer /\ cache.phase \in {"Ready", "Failed"})
  /\ work' = cache
  /\ pc' = IF cache.finalizer THEN "phase" ELSE "finalizer"

(* A cluster that is ready is not looked at again.                         *)
BeginSync ==
  /\ ReadObject /\ ~cache.deleting
  /\ ~(cache.finalizer /\ cache.phase = "Ready")
  /\ work' = cache
  /\ pc' = IF cache.finalizer THEN "phase" ELSE "finalizer"

(* The first time only the phase is written.                               *)
BeginDeletion ==
  /\ ReadObject /\ cache.deleting
  /\ work' = [cache EXCEPT !.phase = "Deleting", !.ready = FALSE]
  /\ pc' = IF cache.phase = "Deleting" THEN "phase" ELSE "status"

AddFinalizer ==
  /\ pc = "finalizer"
  /\ IF workFresh
     THEN /\ object' = [object EXCEPT !.finalizer = TRUE]
          /\ work' = [work EXCEPT !.finalizer = TRUE]
          /\ cacheFresh' = FALSE /\ pc' = "phase"
          /\ UNCHANGED <<workFresh, todo, made>>
     ELSE Return /\ UNCHANGED <<object, cacheFresh>>
  /\ UNCHANGED <<config, cache, cloud, faults>>

Keeping == UNCHANGED <<config, kube, workFresh>>

BeginPhase ==
  /\ pc = "phase" /\ work.phase \notin Waiting
  /\ todo' = CASE work.phase = "Deleting"  -> deleteSetup
                [] work.phase \in Creating -> ScriptOf(work.phase)
                [] OTHER                   -> <<>>
  /\ pc' = "run"
  /\ UNCHANGED <<work, made, cloud, faults>> /\ Keeping

(* The phase is over: it is the next one's turn, in the next Reconcile.    *)
EndPhase ==
  /\ pc = "run" /\ todo = <<>> /\ ~work.deleting
  /\ LET next == NextPhase(work.phase)
     IN work' = [work EXCEPT !.phase = next, !.ready = (next = "Ready")]
  /\ pc' = "status"
  /\ UNCHANGED <<todo, made, cloud, faults>> /\ Keeping

EndDeletion ==
  /\ pc = "run" /\ todo = <<>> /\ work.deleting
  /\ pc' = "release"
  /\ UNCHANGED <<work, todo, made, cloud, faults>> /\ Keeping

(* Everything recorded that the phase is about.                            *)
Awaited == {work.rec[part] : part \in AwaitedIn[work.phase]} \ {None}

PhaseFails ==
  /\ work' = [work EXCEPT !.phase = "Failed", !.ready = FALSE]
  /\ pc' = "status" /\ todo' = <<>>
  /\ UNCHANGED <<made, cloud>> /\ Keeping

(* An add-on that is not recorded, or not found, is not waited for.        *)
Check ==
  /\ pc = "phase" /\ work.phase \in Waiting
  /\ IF \A i \in Awaited : cloud[i].state = "available"
     THEN pc' = "run" /\ UNCHANGED work
     ELSE pc' = "status" /\ UNCHANGED work
  /\ UNCHANGED <<todo, made, cloud, faults>> /\ Keeping

CheckFails ==
  /\ pc = "phase" /\ work.phase \in Waiting /\ Fault
  /\ IF work.phase = "WaitingAddons"
     THEN pc' = "run" /\ UNCHANGED <<work, todo, made, cloud>> /\ Keeping
     ELSE PhaseFails

-----------------------------------------------------------------------------
(* The steps of the scripts.                                               *)
Running(op) == pc = "run" /\ todo # <<>> /\ Head(todo).op = op

Part == Head(todo).part

Target == IF work.rec[Part] # None THEN work.rec[Part] ELSE made[Part]

Network == IF work.rec["vpc"] # None THEN work.rec["vpc"] ELSE made["vpc"]

(* What the step has to do with the status, with the ids known by then.    *)
Note(ids) ==
  work' = [work EXCEPT !.rec = [part \in Parts |->
             IF part \notin Head(todo).records THEN @[part]
             ELSE IF work.deleting THEN None ELSE ids[part]]]

Proceed(ids) ==
  /\ made' = ids /\ Note(ids)
  /\ todo' = Tail(todo)
  /\ UNCHANGED pc /\ Keeping

(* Mutant: what was to come is kept for the next time.                     *)
WaitInPlace == pc' = "status" /\ UNCHANGED <<work, todo, made, cloud>> /\ Keeping

(* The status is written as it is, and the deletion begins again later.    *)
Halt == pc' = "status" /\ todo' = <<>> /\ UNCHANGED <<work, made>> /\ Keeping

Wait == Halt /\ UNCHANGED cloud

(* An add-on that fails is left out.                                       *)
PassOver ==
  /\ IF work.deleting THEN Note(made) ELSE UNCHANGED work
  /\ todo' = Tail(todo)
  /\ UNCHANGED <<pc, made, cloud>> /\ Keeping

Fails(how) ==
  \/ how = "fails"  /\ PhaseFails
  \/ how = "waits"  /\ Wait
  \/ how = "passes" /\ PassOver

(* The call is not answered, or with an error that says nothing.           *)
CallFails ==
  /\ pc = "run" /\ todo # <<>> /\ Head(todo).op \notin {"clear", "sweep"} /\ Fault
  /\ Fails(Head(todo).on)

Refused == Fails(Head(todo).inUse) /\ UNCHANGED faults

Unaltered == UNCHANGED <<cloud, faults>>

(* Roles, clusters, node groups and add-ons that exist are taken over.     *)
MakeCall ==
  /\ Running("make") /\ UNCHANGED faults
  /\ LET twins   == Twins(Part, Network)
         address == IF Part = "nat1" THEN made["eip1"] ELSE IF Part = "nat2" THEN made["eip2"]
                    ELSE None
         new     == Resource(IF Part \in Slow THEN "pending" ELSE "available", Part, {},
                             IF Part = "vpc" THEN None ELSE Network, address)
     IN \/ /\ twins = {}
           /\ \E i \in Fresh : /\ cloud' = [cloud EXCEPT ![i] = new]
                               /\ Proceed([made EXCEPT ![Part] = i])
        \/ /\ Part \in HasName
           /\ \E i \in twins : Proceed([made EXCEPT ![Part] = i])
           /\ UNCHANGED cloud

MakeRefused ==
  /\ Running("make")
  /\ \/ Part \notin HasName /\ Twins(Part, Network) # {}
     \/ Fresh = {} /\ Twins(Part, Network) = {}
  /\ Fails(Head(todo).on) /\ UNCHANGED faults

SetCall ==
  /\ Running("set") /\ ~Taken(Target, Head(todo).setting)
  /\ cloud' = [cloud EXCEPT ![Target].settings = @ \cup {Head(todo).setting}]
  /\ Proceed(made) /\ UNCHANGED faults

SetRefused ==
  /\ Running("set") /\ Taken(Target, Head(todo).setting)
  /\ Refused

FindCall ==
  /\ Running("find")
  /\ Proceed([part \in Parts |->
                IF \E i \in Foreign : ForeignPart[i] = part
                THEN CHOOSE i \in Foreign : ForeignPart[i] = part ELSE made[part]])
  /\ Unaltered

(* What is deleted already, or is being deleted, is not an obstacle.       *)
DeleteCall ==
  /\ Running("delete") /\ UNCHANGED faults
  /\ \/ /\ Target \in Live /\ ~InUse(Target)
        /\ cloud' = [cloud EXCEPT ![Target].state =
                        IF Part \in Lingering THEN "deleting" ELSE "gone"]
     \/ Target \notin Live /\ UNCHANGED cloud
  /\ Proceed(made)

DeleteRefused ==
  /\ Running("delete") /\ Target \in Live /\ InUse(Target)
  /\ Refused

Awaits == IF Part = "balancer" THEN Within(Network, {"balancer"})
          ELSE Described \cap {Target}

AwaitCall ==
  /\ Running("await") /\ UNCHANGED faults
  /\ IF Awaits = {} THEN Proceed(made) /\ UNCHANGED cloud ELSE Wait

(* An internet gateway cannot be detached as long as addresses need it.    *)
DetachCall ==
  /\ Running("detach") /\ UNCHANGED faults
  /\ IF /\ Target \in Live
        /\ Part = "igw" => Within(Network, Each(NAT) \cup {"balancer"}) = {}
     THEN cloud' = [cloud EXCEPT ![Target].settings = @ \ {Head(todo).setting}]
     ELSE UNCHANGED cloud
  /\ Proceed(made)

(* One after the other, and whatever cannot be deleted stays.              *)
SweptParts == IF Part = "balancers" THEN {"balancer"} ELSE Tables

Without(swept) ==
  [i \in Ids |->
     IF i \notin swept THEN cloud[i]
     ELSE [cloud[i] EXCEPT !.state = IF Part = "balancers" THEN "deleting" ELSE "gone"]]

SweepCall ==
  LET all == Within(Network, SweptParts) \cap Live
  IN /\ pc = "run" /\ todo # <<>> /\ Head(todo).op = "sweep"
     /\ \E swept \in SUBSET all :
          /\ IF swept = all THEN UNCHANGED faults ELSE Fault
          /\ cloud' = Without(swept)
     /\ Proceed(made)

(* A table that a subnet could not be taken off is in use; it is waited    *)
(* for, without a look at those that would have come after it.             *)
SweepHeldUp ==
  LET all == Within(Network, Tables) \cap Live
  IN /\ pc = "run" /\ todo # <<>> /\ Head(todo).op = "sweep" /\ Part = "tables"
     /\ Fault
     /\ \E swept \in SUBSET all : swept # all /\ cloud' = Without(swept)
     /\ Halt

ClearStep == Running("clear") /\ Proceed(made) /\ Unaltered

Script ==
  \/ MakeCall \/ MakeRefused \/ SetCall \/ SetRefused \/ FindCall
  \/ DeleteCall \/ DeleteRefused \/ AwaitCall \/ DetachCall \/ SweepCall \/ SweepHeldUp
  \/ ClearStep \/ CallFails

-----------------------------------------------------------------------------
WritesBack(new) ==
  /\ IF workFresh THEN object' = new /\ cacheFresh' = FALSE
     ELSE UNCHANGED <<object, cacheFresh>>
  /\ Return
  /\ UNCHANGED <<config, cache, cloud, faults>>

WriteStatus == pc = "status" /\ WritesBack(work)

RemoveFinalizer == pc = "release" /\ WritesBack(Gone)

WriteFails ==
  /\ pc \in {"finalizer", "status", "release"} /\ Fault
  /\ Return
  /\ UNCHANGED <<config, kube, cloud>>

Reconcile ==
  \/ BeginSync \/ BeginDeletion \/ AddFinalizer \/ BeginPhase \/ EndPhase \/ EndDeletion
  \/ Check \/ CheckFails \/ Script \/ WriteStatus \/ RemoveFinalizer \/ WriteFails

-----------------------------------------------------------------------------
(* Around the controller.                                                  *)
Crash ==
  /\ pc # "idle" /\ Fault
  /\ Return
  /\ UNCHANGED <<config, kube, cloud>>

SyncCache ==
  /\ ~cacheFresh
  /\ cache' = object /\ cacheFresh' = TRUE
  /\ UNCHANGED <<config, object, local, cloud, faults>>

RequestDelete ==
  /\ object.exists /\ ~object.deleting
  /\ object' = IF object.finalizer THEN [object EXCEPT !.deleting = TRUE] ELSE Gone
  /\ cacheFresh' = FALSE /\ workFresh' = FALSE
  /\ UNCHANGED <<config, cache, pc, work, todo, made, cloud, faults>>

CloudStep(i) ==
  /\ cloud[i].state \in {"pending", "deleting"}
  /\ cloud' = [cloud EXCEPT ![i].state = IF @ = "pending" THEN "available" ELSE "gone"]
  /\ UNCHANGED <<config, kube, local, faults>>

(* AWS does not manage to make what it has promised.                       *)
FailToStart(i) ==
  /\ cloud[i].state = "pending" /\ cloud[i].part \notin {"vpc"} /\ Fault
  /\ cloud' = [cloud EXCEPT ![i].state = "failed"]
  /\ UNCHANGED <<config, kube, local>>

(* Something that runs in the cluster gets a load balancer.                *)
Expose(i) ==
  /\ cloud[i].part = "cluster" /\ cloud[i].state = "available"
  /\ \A j \in Ids : cloud[j].part # "balancer"
  /\ \E j \in Fresh :
       cloud' = [cloud EXCEPT ![j] =
                   Resource("available", "balancer", {}, cloud[i].network, None)]
  /\ UNCHANGED <<config, kube, local, faults>>

Environment ==
  \/ Crash \/ SyncCache \/ RequestDelete
  \/ \E i \in Ids : CloudStep(i) \/ FailToStart(i) \/ Expose(i)

Init ==
  /\ config \in Setups
  /\ object = Created
  /\ cache = object /\ cacheFresh = TRUE
  /\ pc = "idle" /\ work = Gone /\ workFresh = FALSE
  /\ todo = <<>> /\ made = NoRecord
  /\ cloud = [i \in Ids |->
               IF i \in Foreign
               THEN Resource("available", ForeignPart[i],
                             IF ForeignPart[i] = "igw" THEN {"attachment"} ELSE {},
                             IF i = 1 THEN None ELSE 1, None)
               ELSE Nothing]
  /\ faults = 0

Next == Reconcile \/ Environment

Spec == Init /\ [][Next]_vars

(* Reconcile is requeued, the watch delivers, and AWS gets things done.    *)
Fairness ==
  /\ WF_vars(Reconcile) /\ WF_vars(SyncCache)
  /\ \A i \in Ids : WF_vars(CloudStep(i))

FairSpec == Spec /\ Fairness

-----------------------------------------------------------------------------
RecordOf(rec) == {rec[part] : part \in Parts} \ {None}

Recorded == RecordOf(object.rec)

RecordType == [Parts -> Ids \cup {None}]

ObjectType ==
  [exists : BOOLEAN, deleting : BOOLEAN, finalizer : BOOLEAN, ready : BOOLEAN,
   phase : Phases, rec : RecordType]

ResourceType ==
  [state : {"none", "pending", "available", "failed", "deleting", "gone"},
   part : Kinds \cup {""}, settings : SUBSET Attributes,
   network : Ids \cup {None}, address : Ids \cup {None}]

(* Everything is of its type, and nothing is left to be done after the     *)
(* script has been cut short.                                              *)
TypeOK ==
  /\ config \in Setups
  /\ object \in ObjectType /\ cache \in ObjectType /\ work \in ObjectType
  /\ cacheFresh \in BOOLEAN /\ workFresh \in BOOLEAN
  /\ pc \in {"idle", "finalizer", "phase", "run", "status", "release"}
  /\ todo \in Seq(Steps) /\ (todo # <<>> => pc = "run")
  /\ made \in RecordType
  /\ cloud \in [Ids -> ResourceType]
  /\ \A i \in Ids : cloud[i].state = "none" <=> cloud[i].part = ""
  /\ faults \in 0..MaxFaults

(* What the controller has made and nobody will ever delete.               *)
OursAndLost ==
  {i \in Ours : cloud[i].part # "balancer"}
    \ (Recorded \cup RecordOf(work.rec) \cup RecordOf(made))

(* Nothing has gone wrong, the account has room for more, and the VPC has  *)
(* no gateway of the user's (else each attempt to attach another one       *)
(* fails, and so does the phase).                                          *)
Undisturbed == faults = 0 /\ Fresh # {} /\ config.existing # "gateway"

(* If nothing disturbs it, everything that the controller makes is in the  *)
(* status, or in the hands of a Reconcile, as long as the user does not    *)
(* delete the object: then what the present Reconcile has made is lost,    *)
(* and so is what a phase that fails has made and not recorded.            *)
NothingLost ==
  Undisturbed /\ object.exists /\ ~object.deleting => OursAndLost = {}

(* What the phases give to the parts that they make.                       *)
Settings(part) ==
  CASE part = "vpc" /\ OwnVpc                  -> {"hostnames", "support"}
    [] part = "igw"                            -> {"attachment"}
    [] part \in Each(Public) /\ OwnSubnets      -> {"publicIp"}
    [] part \in Tables                         -> {"route", "association"}
    [] part = "nodeSG"                         -> {"nodes", "cluster"}
    [] part \in Roles /\ faults = 0             -> {"policies"}
    [] OTHER                                   -> {}

(* What a cluster needs in any case, and what a failure on the way may     *)
(* leave out for ever: the NAT gateways after the first one, the routes    *)
(* that lead to them, and the add-ons.                                     *)
Needed ==
  Roles \cup Groups \cup {"vpc", "igw", "publicRT", "cluster", "pool"}
    \cup {Public[z] : z \in 1..config.zones} \cup {Private[z] : z \in 1..config.zones}
    \cup IF config.nat = "None" THEN {} ELSE {"nat1"}

Wanted ==
  LET zones == IF config.nat = "HighAvailability" THEN 1..config.zones ELSE {1}
  IN (IF config.nat = "None" THEN {}
      ELSE {NAT[z] : z \in zones} \cup {PrivateRT[z] : z \in zones})
     \cup (IF config.addons THEN {"addon"} ELSE {})

(* A setup that the status calls ready has all its parts, with everything  *)
(* that belongs to them, although phases may have failed half-way and have *)
(* been repeated.  (The roles' policies are not attached again.)           *)
ReadyIsComplete ==
  object.ready /\ ~object.deleting =>
    \A part \in Needed \cup (IF Undisturbed THEN Wanted ELSE {}) :
      /\ object.rec[part] \in Live
      /\ Settings(part) \subseteq cloud[object.rec[part]].settings

(* Nothing is deleted before the user has deleted the object, or if the    *)
(* deletion policy is to keep it; and nothing of the user's ever.          *)
NothingDeletedUnasked ==
  [][LET deleted == Live \ Live'
     IN /\ deleted \cap Foreign = {}
        /\ deleted # {} => config.policy = "Delete" /\ (object.deleting \/ ~object.exists)]_vars

(* The invariant that it follows from.                                     *)

(* What is recorded under these names is the user's, and nothing else is.  *)
Kept == (IF OwnVpc THEN {} ELSE {"vpc"}) \cup (IF OwnSubnets THEN {} ELSE {"public1", "private1"})

KeptApart(rec) == \A part \in Parts : rec[part] \in Foreign => part \in Kept

ForeignStand ==
  \A i \in Foreign : cloud[i].state = "available" /\ cloud[i].part = ForeignPart[i]

(* No object gets anywhere without its finalizer.                          *)
Sound(o) ==
  /\ o.phase # "" \/ o.deleting => o.finalizer
  /\ o.phase = "Deleting" => o.deleting
  /\ KeptApart(o.rec)

(* Nobody takes an object for deleted that is not.                         *)
Asked == object.deleting \/ ~object.exists

Copies ==
  /\ cache.deleting \/ work.deleting => Asked
  /\ cacheFresh => cache = object
  /\ workFresh => object.exists /\ (work.deleting <=> object.deleting)

(* What is made and then recorded, and what is looked for, which ends the  *)
(* script; and what is deleted, which nothing of the user's is.            *)
MakingSteps ==
  {step \in Steps : /\ step.op \in {"make", "set"} /\ step.part \in Parts
                    /\ step.op = "set" => step.setting \in Attributes}

FindingScripts == {<<Find(parts)>> : parts \in SUBSET Kept}

DeletingSteps ==
  {step \in Steps : /\ step.op \in {"delete", "await", "detach", "sweep", "clear"}
                    /\ step.op = "delete" => step.part \in Parts \ Kept
                    /\ step.op = "sweep" => step.part \in {"tables", "balancers"}
                    /\ step.op = "detach" => step.setting \in Attributes
                    /\ step.inUse # "fails" /\ step.on # "fails"}

AtPc ==
  /\ pc \in {"idle", "finalizer", "phase"} => made = NoRecord
  /\ pc = "finalizer" => ~work.deleting
  /\ pc \in {"phase", "run", "status", "release"} => work.finalizer
  /\ pc \in {"finalizer", "phase", "run"} =>
       IF work.deleting THEN work.phase = "Deleting" ELSE work.phase # "Ready"
  /\ IF work.deleting
     THEN made = NoRecord /\ todo \in Seq(DeletingSteps) /\ (config.policy = "Retain" => todo = <<>>)
     ELSE todo \in Seq(MakingSteps) \cup FindingScripts
  /\ todo # <<>> => \A part \in Parts : made[part] \notin Foreign

IInv ==
  /\ TypeOK /\ ForeignStand /\ Copies /\ AtPc
  /\ Sound(object) /\ Sound(cache) /\ Sound(work)

(* The deletion takes nothing out of the status that lives on, if nothing  *)
(* goes wrong: it waits for what is in use.  (A VPC of the user's keeps    *)
(* what is recorded in it, and a call that fails lets go of most parts.)   *)
NothingForgotten ==
  [][faults = 0 /\ OwnVpc /\ config.policy = "Delete" =>
       (Recorded \ Recorded') \cap Live' = {}]_vars

(* An object that the user deletes goes, unless something lives that is    *)
(* not in its status: what lies in the VPC keeps the VPC, a node group     *)
(* keeps the cluster, and the deletion waits for them for ever.  (So do    *)
(* balancers, which it only looks for in a VPC of its own.)                *)
DeletionCompletes ==
  []<>~(/\ object.exists /\ object.deleting
        /\ OursAndLost = {} /\ (OwnVpc \/ Of({"balancer"}) = {}))

(* A setup that is let alone becomes ready, if failures do not go on for   *)
(* ever; but a NAT gateway, a cluster or a node group that AWS could not   *)
(* make is waited for as well, and a resource that was made and not        *)
(* recorded may stand in the way of the one that is made in its place.     *)
EventuallyReady ==
  []<>(\/ object.ready \/ object.deleting \/ ~object.exists
       \/ OursAndLost # {} \/ \E i \in Recorded : cloud[i].state = "failed")

=============================================================================
