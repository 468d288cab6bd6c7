--------------------------- MODULE SetupEKSProofs ---------------------------
(* What the SetupEKS controller never does, for all setups and any number  *)
(* of faults, and what it promises as long as nobody asks for a deletion.  *)
EXTENDS SetupEKSInv, TLAPS, WellFoundedInduction

-----------------------------------------------------------------------------
(* The names of the parts.                                                 *)
LEMMA PartNames ==
  /\ {"clusterRole", "nodeRole", "vpc", "igw", "publicRT", "clusterSG", "nodeSG",
      "cluster", "pool", "addon"} \subseteq Parts
  /\ \A z \in Zones : /\ Public[z] \in Subnets /\ Private[z] \in Subnets
                      /\ Eip[z] \in Parts /\ NAT[z] \in Parts /\ PrivateRT[z] \in Tables
  /\ Subnets = {"public1", "public2", "private1", "private2"} /\ Subnets \subseteq Parts
  /\ Tables = {"publicRT", "privateRT1", "privateRT2"} /\ Tables \subseteq Parts
  /\ Each(NAT) = {"nat1", "nat2"} /\ Each(Eip) = {"eip1", "eip2"}
  /\ Each(NAT) \subseteq Parts /\ Each(Eip) \subseteq Parts
  /\ 1 \in Zones /\ 2 \in Zones
<1>1. /\ Each(Public) = {"public1", "public2"} /\ Each(Private) = {"private1", "private2"}
      /\ Each(NAT) = {"nat1", "nat2"} /\ Each(Eip) = {"eip1", "eip2"}
      /\ Each(PrivateRT) = {"privateRT1", "privateRT2"}
  BY DEF Each, Zones, Public, Private, Eip, NAT, PrivateRT
<1>2. /\ Subnets = {"public1", "public2", "private1", "private2"}
      /\ Tables = {"publicRT", "privateRT1", "privateRT2"}
  BY <1>1 DEF Subnets, Tables
<1>3. \A z \in Zones : /\ Public[z] \in Each(Public) /\ Private[z] \in Each(Private)
                       /\ Eip[z] \in Each(Eip) /\ NAT[z] \in Each(NAT) /\ PrivateRT[z] \in Each(PrivateRT)
  BY DEF Each
<1>4. /\ Each(Public) \cup Each(Private) = Subnets /\ Each(PrivateRT) \subseteq Tables
      /\ Subnets \subseteq Parts /\ Tables \subseteq Parts
      /\ Each(Eip) \subseteq Parts /\ Each(NAT) \subseteq Parts
      /\ {"clusterRole", "nodeRole", "vpc", "igw", "publicRT", "clusterSG", "nodeSG",
          "cluster", "pool", "addon"} \subseteq Parts
  BY DEF Parts, Subnets, Tables, Roles, Groups
<1> QED BY <1>1, <1>2, <1>3, <1>4 DEF Zones

(* What the user has.                                                      *)
LEMMA ForeignFacts ==
  ASSUME config \in Setups
  PROVE  /\ Foreign \subseteq Ids /\ None \notin Foreign
         /\ \A i \in Foreign : ForeignPart[i] \in {"vpc", "igw", "public1", "private1"}
         /\ Kept \subseteq Parts /\ Kept \subseteq {"vpc", "public1", "private1"}
         /\ OwnVpc => Kept = {}
         /\ OwnSubnets => Kept \subseteq {"vpc"}
         /\ ~OwnVpc => {"vpc"} \subseteq Kept
         /\ ~OwnSubnets => {"public1", "private1"} \subseteq Kept
<1>1. config.existing \in {"nothing", "vpc", "gateway", "subnets"}
  <2>1. DOMAIN ForeignParts = {"nothing", "vpc", "gateway", "subnets"}
    BY DEF ForeignParts
  <2> QED BY <2>1, SetupAssumption
<1>2. /\ config.existing = "nothing" => ForeignPart = <<>>
      /\ config.existing = "vpc" => ForeignPart = <<"vpc">>
      /\ config.existing = "gateway" => ForeignPart = <<"vpc", "igw">>
      /\ config.existing = "subnets" => ForeignPart = <<"vpc", "public1", "private1">>
  BY DEF ForeignPart, ForeignParts
<1>3. /\ Foreign \subseteq 1..3
      /\ \A i \in Foreign : ForeignPart[i] \in {"vpc", "igw", "public1", "private1"}
  BY <1>1, <1>2 DEF Foreign
<1>4. 1..3 \subseteq Ids /\ None \notin 1..3
  BY BoundsAssumption DEF Ids, None
<1>5. Kept \subseteq {"vpc", "public1", "private1"}
  BY DEF Kept
<1>6. {"vpc", "public1", "private1"} \subseteq Parts
  BY PartNames
<1>7. /\ OwnVpc => Kept = {}
      /\ OwnSubnets => Kept \subseteq {"vpc"}
      /\ ~OwnVpc => {"vpc"} \subseteq Kept
      /\ ~OwnSubnets => {"public1", "private1"} \subseteq Kept
  BY DEF Kept, OwnVpc, OwnSubnets
<1> QED BY <1>3, <1>4, <1>5, <1>6, <1>7

-----------------------------------------------------------------------------
(* What is made.                                                           *)

LEMMA MakingFacts ==
  ASSUME NEW part \in Parts, NEW setting \in Attributes, NEW records \in SUBSET Parts
  PROVE  /\ Making(part, "", records) \in MakingSteps /\ Make(part) \in MakingSteps
         /\ MakeAndRecord(part) \in MakingSteps /\ TryMake(part) \in MakingSteps
         /\ Set(part, setting) \in MakingSteps /\ SetAndRecord(part, setting) \in MakingSteps
<1>1. \A x \in Attributes \cup {""}, r \in SUBSET Parts : Making(part, x, r) \in MakingSteps
  <2>1. part \in Kinds \cup {"tables", "balancers"}
    BY DEF Kinds
  <2> QED BY <2>1 DEF Making, Step, MakingSteps, Steps, Outcomes
<1>2. TryMake(part) \in MakingSteps
  <2>1. PICK step \in MakingSteps : step = MakeAndRecord(part)
    BY <1>1 DEF MakeAndRecord
  <2>2. [step EXCEPT !.on = "passes"] \in MakingSteps
    BY DEF MakingSteps, Steps, Outcomes
  <2> QED BY <2>1, <2>2 DEF TryMake
<1> QED BY <1>1, <1>2 DEF Make, MakeAndRecord, Set, SetAndRecord

LEMMA AttributeNames ==
  {"hostnames", "support", "attachment", "publicIp", "route", "association",
   "policies", "nodes", "cluster"} \subseteq Attributes
BY DEF Attributes

LEMMA RolesMade == reconcileIAMRoles \in Seq(MakingSteps)
<1>1. \A part \in Parts : MakeAndRecord(part) \in MakingSteps /\ Set(part, "policies") \in MakingSteps
  BY MakingFacts, AttributeNames
<1>2. \A part \in Parts : role(part) \in Seq(MakingSteps)
  BY <1>1 DEF role, If
<1>3. role("clusterRole") \in Seq(MakingSteps) /\ role("nodeRole") \in Seq(MakingSteps)
  BY <1>2, PartNames
<1> QED BY <1>3 DEF reconcileIAMRoles

LEMMA VpcMade ==
  ASSUME config \in Setups
  PROVE  reconcileVPC \in Seq(MakingSteps) \cup FindingScripts
<1>1. /\ Make("vpc") \in MakingSteps /\ Set("vpc", "hostnames") \in MakingSteps
      /\ SetAndRecord("vpc", "support") \in MakingSteps
  BY MakingFacts, AttributeNames, PartNames
<1>2. <<>> \in Seq(MakingSteps)
      /\ <<Make("vpc"), Set("vpc", "hostnames"), SetAndRecord("vpc", "support")>> \in Seq(MakingSteps)
  BY <1>1
<1>3. ~OwnVpc => <<Find({"vpc"})>> \in FindingScripts
  BY ForeignFacts DEF FindingScripts
<1> QED BY <1>2, <1>3 DEF reconcileVPC, If

LEMMA GatewayMade == reconcileInternetGateway \in Seq(MakingSteps)
<1>1. Make("igw") \in MakingSteps /\ SetAndRecord("igw", "attachment") \in MakingSteps
  BY MakingFacts, AttributeNames, PartNames
<1> QED BY <1>1 DEF reconcileInternetGateway, If

LEMMA SubnetsMade ==
  ASSUME config \in Setups
  PROVE  reconcileSubnets \in Seq(MakingSteps) \cup FindingScripts
<1>1. \A z \in Zones :
        /\ Make(Public[z]) \in MakingSteps /\ SetAndRecord(Public[z], "publicIp") \in MakingSteps
        /\ MakeAndRecord(Private[z]) \in MakingSteps
  BY MakingFacts, AttributeNames, PartNames
<1>2. \A z \in Zones :
        /\ If(~IsRecorded(Public[z]), <<Make(Public[z]), SetAndRecord(Public[z], "publicIp")>>)
             \in Seq(MakingSteps)
        /\ If(~IsRecorded(Private[z]), <<MakeAndRecord(Private[z])>>) \in Seq(MakingSteps)
  BY <1>1 DEF If
<1>3. PICK p1 \in Seq(MakingSteps), p2 \in Seq(MakingSteps), q1 \in Seq(MakingSteps),
           q2 \in Seq(MakingSteps) :
        /\ p1 = If(~IsRecorded(Public[1]), <<Make(Public[1]), SetAndRecord(Public[1], "publicIp")>>)
        /\ p2 = If(~IsRecorded(Public[2]), <<Make(Public[2]), SetAndRecord(Public[2], "publicIp")>>)
        /\ q1 = If(~IsRecorded(Private[1]), <<MakeAndRecord(Private[1])>>)
        /\ q2 = If(~IsRecorded(Private[2]), <<MakeAndRecord(Private[2])>>)
  BY <1>2, PartNames
<1>4. (p1 \o If(config.zones = 2, p2)) \o (q1 \o If(config.zones = 2, q2)) \in Seq(MakingSteps)
  BY DEF If
<1>5. ~OwnSubnets => <<Find({"public1", "private1"})>> \in FindingScripts
  BY ForeignFacts DEF FindingScripts
<1>6. reconcileSubnets = IF OwnSubnets
        THEN (p1 \o If(config.zones = 2, p2)) \o (q1 \o If(config.zones = 2, q2))
        ELSE <<Find({"public1", "private1"})>>
  BY <1>3 DEF reconcileSubnets, InZones
<1> QED BY <1>4, <1>5, <1>6

LEMMA NatMade == reconcileNATGateways \in Seq(MakingSteps)
<1>1. \A z \in Zones :
        Make(Eip[z]) \in MakingSteps /\ Making(NAT[z], "", {Eip[z], NAT[z]}) \in MakingSteps
  BY MakingFacts, AttributeNames, PartNames
<1>2. ASSUME NEW z \in Zones
      PROVE  <<Make(Eip[z]), Making(NAT[z], "", {Eip[z], NAT[z]})>> \in Seq(MakingSteps)
  <2>1. Make(Eip[z]) \in MakingSteps /\ Making(NAT[z], "", {Eip[z], NAT[z]}) \in MakingSteps
    BY <1>1
  <2>2. PICK a \in MakingSteps : a = Make(Eip[z])
    BY <2>1
  <2>3. PICK b \in MakingSteps : b = Making(NAT[z], "", {Eip[z], NAT[z]})
    BY <2>1
  <2>4. <<a, b>> \in Seq(MakingSteps)
    OBVIOUS
  <2> QED BY <2>2, <2>3, <2>4
<1>3. PICK n1 \in Seq(MakingSteps), n2 \in Seq(MakingSteps) :
        /\ n1 = <<Make(Eip[1]), Making(NAT[1], "", {Eip[1], NAT[1]})>>
        /\ n2 = <<Make(Eip[2]), Making(NAT[2], "", {Eip[2], NAT[2]})>>
  BY <1>2, PartNames
<1>4. n1 \o n2 \in Seq(MakingSteps) /\ n1 \o <<>> \in Seq(MakingSteps)
  OBVIOUS
<1>5. reconcileNATGateways =
        If(\A z \in Zones : ~IsRecorded(NAT[z]),
           n1 \o If(config.nat = "HighAvailability" /\ IsRecorded("public2"), n2))
  BY <1>3 DEF reconcileNATGateways
<1> QED BY <1>4, <1>5 DEF If

LEMMA TablesMade == reconcileRouteTables \in Seq(MakingSteps)
<1> DEFINE table(part) == <<Make(part), Set(part, "route"), SetAndRecord(part, "association")>>
<1>1. \A part \in Tables :
        /\ Make(part) \in MakingSteps /\ Set(part, "route") \in MakingSteps
        /\ SetAndRecord(part, "association") \in MakingSteps
  BY MakingFacts, AttributeNames, PartNames
<1>2. \A part \in Tables : table(part) \in Seq(MakingSteps)
  BY <1>1
<1>3. PICK t \in Seq(MakingSteps), t1 \in Seq(MakingSteps), t2 \in Seq(MakingSteps) :
        t = table("publicRT") /\ t1 = table(PrivateRT[1]) /\ t2 = table(PrivateRT[2])
  BY <1>2, PartNames
<1>4. reconcileRouteTables =
        If(\A part \in Tables : ~IsRecorded(part),
           (t \o If(IsRecorded(NAT[1]) /\ IsRecorded(Private[1]), t1))
             \o If(IsRecorded(NAT[2]) /\ IsRecorded(Private[2]), t2))
  BY <1>3 DEF reconcileRouteTables
<1> HIDE DEF table
<1>5. \A a, b \in BOOLEAN : (t \o If(a, t1)) \o If(b, t2) \in Seq(MakingSteps)
  BY DEF If
<1> QED BY <1>4, <1>5 DEF If

LEMMA GroupsMade == reconcileSecurityGroups \in Seq(MakingSteps)
<1>1. /\ MakeAndRecord("clusterSG") \in MakingSteps /\ Make("nodeSG") \in MakingSteps
      /\ Set("nodeSG", "nodes") \in MakingSteps /\ SetAndRecord("nodeSG", "cluster") \in MakingSteps
  BY MakingFacts, AttributeNames, PartNames
<1>2. /\ <<MakeAndRecord("clusterSG")>> \in Seq(MakingSteps)
      /\ <<Make("nodeSG"), Set("nodeSG", "nodes"), SetAndRecord("nodeSG", "cluster")>> \in Seq(MakingSteps)
  BY <1>1
<1> QED BY <1>2 DEF reconcileSecurityGroups, If

LEMMA ClusterMade ==
  /\ reconcileCluster \in Seq(MakingSteps) /\ reconcileNodePools \in Seq(MakingSteps)
  /\ reconcileAddons \in Seq(MakingSteps)
<1>1. /\ MakeAndRecord("cluster") \in MakingSteps /\ MakeAndRecord("pool") \in MakingSteps
      /\ TryMake("addon") \in MakingSteps
  BY MakingFacts, AttributeNames, PartNames
<1> QED BY <1>1 DEF reconcileCluster, reconcileNodePools, reconcileAddons, If

LEMMA WhichScript ==
  /\ ScriptOf("CreatingIAMRoles") = reconcileIAMRoles
  /\ ScriptOf("CreatingVPC") = reconcileVPC
  /\ ScriptOf("CreatingIGW") = reconcileInternetGateway
  /\ ScriptOf("CreatingSubnets") = reconcileSubnets
  /\ ScriptOf("CreatingNATGateway") = reconcileNATGateways
  /\ ScriptOf("CreatingRouteTables") = reconcileRouteTables
  /\ ScriptOf("CreatingSecGroups") = reconcileSecurityGroups
  /\ ScriptOf("CreatingCluster") = reconcileCluster
  /\ ScriptOf("CreatingNodePools") = reconcileNodePools
  /\ ScriptOf("InstallingAddons") = reconcileAddons
BY Zenon DEF ScriptOf

(* Every phase makes and records, or looks for what the user has.          *)
LEMMA PhaseScripts ==
  ASSUME config \in Setups
  PROVE  \A phase \in Creating : ScriptOf(phase) \in Seq(MakingSteps) \cup FindingScripts
BY WhichScript, RolesMade, VpcMade, GatewayMade, SubnetsMade, NatMade, TablesMade, GroupsMade,
   ClusterMade DEF Creating

LEMMA WhichPhase ==
  /\ NextPhase("") = "Pending" /\ NextPhase("Failed") = "Pending"
  /\ NextPhase("Pending") = "CreatingIAMRoles"
  /\ NextPhase("CreatingIAMRoles") = "CreatingVPC"
  /\ NextPhase("CreatingVPC") = "WaitingVPC"
  /\ NextPhase("WaitingVPC") = "CreatingIGW"
  /\ NextPhase("CreatingIGW") = "CreatingSubnets"
  /\ NextPhase("CreatingSubnets") = "WaitingSubnets"
  /\ NextPhase("WaitingSubnets") \in {"CreatingNATGateway", "CreatingRouteTables"}
  /\ NextPhase("CreatingNATGateway") = "WaitingNATGateway"
  /\ NextPhase("WaitingNATGateway") = "CreatingRouteTables"
  /\ NextPhase("CreatingRouteTables") = "CreatingSecGroups"
  /\ NextPhase("CreatingSecGroups") = "CreatingCluster"
  /\ NextPhase("CreatingCluster") = "WaitingCluster"
  /\ NextPhase("WaitingCluster") = "CreatingNodePools"
  /\ NextPhase("CreatingNodePools") = "WaitingNodePools"
  /\ NextPhase("WaitingNodePools") \in {"InstallingAddons", "Ready"}
  /\ NextPhase("InstallingAddons") = "WaitingAddons"
  /\ NextPhase("WaitingAddons") = "Ready"
BY Zenon DEF NextPhase

LEMMA PhaseFollows ==
  \A phase \in Phases \ {"Ready", "Deleting"} : NextPhase(phase) \in Phases \ {"", "Deleting"}
<1>1. Waiting = {"WaitingVPC", "WaitingSubnets", "WaitingNATGateway", "WaitingCluster",
                 "WaitingNodePools", "WaitingAddons"}
  BY DEF Waiting, AwaitedIn
<1>2. /\ Creating \cup Waiting \cup {"Pending", "Ready"} \subseteq Phases
      /\ "" \notin Creating \cup Waiting /\ "Deleting" \notin Creating \cup Waiting
  BY <1>1 DEF Phases, Creating
<1> DEFINE Follow == Creating \cup Waiting \cup {"Ready"}
<1>3. \A phase \in Creating : NextPhase(phase) \in Follow
  <2>1. {"CreatingVPC", "WaitingVPC", "CreatingSubnets", "WaitingSubnets", "WaitingNATGateway",
         "CreatingSecGroups", "CreatingCluster", "WaitingCluster", "WaitingNodePools",
         "WaitingAddons"} \subseteq Follow
    BY <1>1 DEF Creating
  <2> HIDE DEF Follow
  <2>2. \A phase \in {"CreatingIAMRoles", "CreatingVPC", "CreatingIGW", "CreatingSubnets",
                      "CreatingNATGateway"} : NextPhase(phase) \in Follow
    BY <2>1, WhichPhase
  <2>3. \A phase \in {"CreatingRouteTables", "CreatingSecGroups", "CreatingCluster",
                      "CreatingNodePools", "InstallingAddons"} : NextPhase(phase) \in Follow
    BY <2>1, WhichPhase
  <2> QED BY <2>2, <2>3 DEF Creating
<1>4. \A phase \in Waiting : NextPhase(phase) \in Follow
  <2>1. {"CreatingIGW", "CreatingNATGateway", "CreatingRouteTables", "CreatingNodePools",
         "InstallingAddons", "Ready"} \subseteq Follow
    BY DEF Creating
  <2> HIDE DEF Follow
  <2>2. \A phase \in {"WaitingVPC", "WaitingSubnets", "WaitingNATGateway"} : NextPhase(phase) \in Follow
    BY <2>1, WhichPhase
  <2>3. \A phase \in {"WaitingCluster", "WaitingNodePools", "WaitingAddons"} : NextPhase(phase) \in Follow
    BY <2>1, WhichPhase
  <2> QED BY <1>1, <2>2, <2>3
<1>5. \A phase \in {"", "Pending", "Failed"} :
        NextPhase(phase) \in Creating \cup Waiting \cup {"Pending"}
  BY WhichPhase DEF Creating
<1>6. ASSUME NEW phase \in Phases \ {"Ready", "Deleting"}
      PROVE  phase \in Creating \/ phase \in Waiting \/ phase \in {"", "Pending", "Failed"}
  BY DEF Phases
<1> QED BY <1>2, <1>3, <1>4, <1>5, <1>6

-----------------------------------------------------------------------------
(* What is deleted.                                                        *)

LEMMA DeletingFacts ==
  ASSUME NEW part \in Parts, NEW clears \in SUBSET Parts
  PROVE  /\ Await(part, clears) \in DeletingSteps
         /\ Detach(part, "attachment") \in DeletingSteps
         /\ Detach(part, "policies") \in DeletingSteps
         /\ Clear(clears) \in DeletingSteps
         /\ part \notin Kept =>
              /\ Delete(part, "waits") \in DeletingSteps /\ Delete(part, "passes") \in DeletingSteps
              /\ DeleteFirst(part, "waits") \in DeletingSteps
              /\ DeleteFirst(part, "passes") \in DeletingSteps
              /\ DeleteStep("delete", part, {}, "passes", "passes") \in DeletingSteps
<1>1. part \in Kinds \cup {"tables", "balancers"} /\ "vpc" \in Kinds \cup {"tables", "balancers"}
  BY PartNames DEF Kinds
<1>2. "attachment" \in Attributes /\ "policies" \in Attributes
  BY AttributeNames
<1>3. /\ Await(part, clears) \in DeletingSteps /\ Clear(clears) \in DeletingSteps
  BY <1>1 DEF Await, Clear, DeleteStep, Step, DeletingSteps, Steps, Outcomes
<1>4. /\ Detach(part, "attachment") \in DeletingSteps
      /\ Detach(part, "policies") \in DeletingSteps
  BY <1>1, <1>2 DEF Detach, Step, DeletingSteps, Steps, Outcomes
<1>5. ASSUME part \notin Kept
      PROVE  \A cleared \in SUBSET Parts, inUse \in {"waits", "passes"}, on \in {"waits", "passes"} :
               DeleteStep("delete", part, cleared, inUse, on) \in DeletingSteps
  BY <1>1, <1>5 DEF DeleteStep, Step, DeletingSteps, Steps, Outcomes
<1>6. {part} \in SUBSET Parts /\ {} \in SUBSET Parts
  OBVIOUS
<1> QED BY <1>3, <1>4, <1>5, <1>6 DEF Delete, DeleteFirst

LEMMA SweepingFacts ==
  /\ Sweep("tables", Tables) \in DeletingSteps /\ Sweep("balancers", {}) \in DeletingSteps
  /\ Await("balancer", {}) \in DeletingSteps
<1>1. Tables \in SUBSET Parts /\ "balancer" \in Kinds
  BY PartNames DEF Kinds
<1> QED BY <1>1 DEF Sweep, Await, DeleteStep, Step, DeletingSteps, Steps, Outcomes

(* The scripts for what is never the user's.                               *)
LEMMA OursDeleted ==
  ASSUME config \in Setups
  PROVE  /\ deleteNodeGroups \in Seq(DeletingSteps) /\ deleteAddons \in Seq(DeletingSteps)
         /\ deleteCluster \in Seq(DeletingSteps)
         /\ \A part \in Groups : deleteSecurityGroup(part) \in Seq(DeletingSteps)
         /\ \A part \in Roles : deleteRole(part) \in Seq(DeletingSteps)
         /\ deleteRouteTables \in Seq(DeletingSteps) /\ deleteLoadBalancers \in Seq(DeletingSteps)
<1>1. \A part \in {"pool", "addon", "cluster"} \cup Groups \cup Roles :
        /\ part \in Parts /\ part \notin Kept
        /\ {part} \in SUBSET Parts
  BY PartNames, ForeignFacts DEF Groups, Roles
<1>2. \A part \in {"pool", "addon", "cluster"} \cup Groups \cup Roles :
        /\ Delete(part, "waits") \in DeletingSteps /\ Delete(part, "passes") \in DeletingSteps
        /\ DeleteFirst(part, "waits") \in DeletingSteps /\ Detach(part, "policies") \in DeletingSteps
        /\ Await(part, {part}) \in DeletingSteps
  BY <1>1, DeletingFacts
<1>3. ASSUME NEW part \in {"pool", "addon", "cluster"} \cup Groups \cup Roles
      PROVE  /\ <<DeleteFirst(part, "waits"), Await(part, {part})>> \in Seq(DeletingSteps)
             /\ <<Delete(part, "waits")>> \in Seq(DeletingSteps)
             /\ <<Delete(part, "passes")>> \in Seq(DeletingSteps)
             /\ <<Detach(part, "policies"), Delete(part, "passes")>> \in Seq(DeletingSteps)
  <2>1. PICK first \in DeletingSteps : first = DeleteFirst(part, "waits")
    BY <1>2
  <2>2. PICK awaits \in DeletingSteps : awaits = Await(part, {part})
    BY <1>2
  <2>3. PICK waits \in DeletingSteps : waits = Delete(part, "waits")
    BY <1>2
  <2>4. PICK passes \in DeletingSteps : passes = Delete(part, "passes")
    BY <1>2
  <2>5. PICK detaches \in DeletingSteps : detaches = Detach(part, "policies")
    BY <1>2
  <2>6. /\ <<first, awaits>> \in Seq(DeletingSteps) /\ <<waits>> \in Seq(DeletingSteps)
        /\ <<passes>> \in Seq(DeletingSteps) /\ <<detaches, passes>> \in Seq(DeletingSteps)
    OBVIOUS
  <2> QED BY <2>1, <2>2, <2>3, <2>4, <2>5, <2>6
<1>4. <<>> \in Seq(DeletingSteps)
  OBVIOUS
<1>5. /\ deleteNodeGroups \in Seq(DeletingSteps) /\ deleteAddons \in Seq(DeletingSteps)
      /\ deleteCluster \in Seq(DeletingSteps)
  BY <1>3, <1>4 DEF deleteNodeGroups, deleteAddons, deleteCluster, If
<1>6. \A part \in Groups : deleteSecurityGroup(part) \in Seq(DeletingSteps)
  BY <1>3, <1>4 DEF deleteSecurityGroup, If
<1>7. \A part \in Roles : deleteRole(part) \in Seq(DeletingSteps)
  BY <1>3, <1>4 DEF deleteRole, If
<1>8. deleteRouteTables \in Seq(DeletingSteps) /\ deleteLoadBalancers \in Seq(DeletingSteps)
  BY SweepingFacts DEF deleteRouteTables, deleteLoadBalancers, If
<1> QED BY <1>5, <1>6, <1>7, <1>8

LEMMA NatDeleted ==
  ASSUME config \in Setups
  PROVE  deleteNATGateways \in Seq(DeletingSteps)
<1> DEFINE nat(z)     == If(IsRecorded(NAT[z]), <<DeleteFirst(NAT[z], "waits")>>)
           address(z) == If(IsRecorded(NAT[z]),
                            <<Await(NAT[z], {}), DeleteStep("delete", Eip[z], {}, "passes", "passes")>>)
           all        == nat(1) \o nat(2) \o address(1) \o address(2)
<1>1. \A z \in Zones : /\ NAT[z] \in Parts /\ Eip[z] \in Parts
                       /\ NAT[z] \notin Kept /\ Eip[z] \notin Kept
  BY PartNames, ForeignFacts DEF NAT, Eip, Zones
<1>2. \A z \in Zones : /\ DeleteFirst(NAT[z], "waits") \in DeletingSteps
                       /\ Await(NAT[z], {}) \in DeletingSteps
                       /\ DeleteStep("delete", Eip[z], {}, "passes", "passes") \in DeletingSteps
  BY <1>1, DeletingFacts
<1>3. \A z \in Zones : nat(z) \in Seq(DeletingSteps) /\ address(z) \in Seq(DeletingSteps)
  BY <1>2 DEF If
<1>4. PICK n1 \in Seq(DeletingSteps), n2 \in Seq(DeletingSteps),
           a1 \in Seq(DeletingSteps), a2 \in Seq(DeletingSteps) :
        n1 = nat(1) /\ n2 = nat(2) /\ a1 = address(1) /\ a2 = address(2)
  BY <1>3, PartNames
<1>5. PICK c \in DeletingSteps : c = Clear(Each(NAT) \cup Each(Eip))
  <2>1. Each(NAT) \cup Each(Eip) \in SUBSET Parts /\ "nat1" \in Parts
    BY PartNames
  <2> QED BY <2>1, DeletingFacts
<1>6. deleteNATGateways = If(OwnSubnets /\ all # <<>>, all \o <<Clear(Each(NAT) \cup Each(Eip))>>)
  BY DEF deleteNATGateways
<1>7. all = n1 \o n2 \o a1 \o a2
  BY <1>4
<1> HIDE DEF all
<1>8. n1 \o n2 \o a1 \o a2 \in Seq(DeletingSteps) /\ <<c>> \in Seq(DeletingSteps)
  OBVIOUS
<1>9. all \o <<c>> \in Seq(DeletingSteps)
  BY <1>7, <1>8
<1> QED BY <1>5, <1>6, <1>9 DEF If

LEMMA NetworkDeleted ==
  ASSUME config \in Setups
  PROVE  /\ deleteSubnets \in Seq(DeletingSteps) /\ deleteInternetGateway \in Seq(DeletingSteps)
         /\ deleteVPC \in Seq(DeletingSteps)
<1>1. deleteSubnets \in Seq(DeletingSteps)
  <2> DEFINE subnet(part) == If(IsRecorded(part), <<DeleteFirst(part, "passes")>>)
  <2>1. CASE OwnSubnets
    <3>1. \A part \in Subnets : part \in Parts /\ part \notin Kept
      BY <2>1, PartNames, ForeignFacts
    <3>2. \A part \in Subnets : DeleteFirst(part, "passes") \in DeletingSteps
      BY <3>1, DeletingFacts
    <3>3. \A part \in Subnets : subnet(part) \in Seq(DeletingSteps)
      BY <3>2 DEF If
    <3>4. PICK p1 \in Seq(DeletingSteps), p2 \in Seq(DeletingSteps),
               q1 \in Seq(DeletingSteps), q2 \in Seq(DeletingSteps) :
            p1 = subnet("public1") /\ p2 = subnet("public2") /\ q1 = subnet("private1")
              /\ q2 = subnet("private2")
      BY <3>3, PartNames
    <3>5. PICK c \in DeletingSteps : c = Clear(Subnets)
      BY PartNames, DeletingFacts
    <3>6. p1 \o p2 \o q1 \o q2 \o <<c>> \in Seq(DeletingSteps)
      OBVIOUS
    <3>7. deleteSubnets = p1 \o p2 \o q1 \o q2 \o <<c>>
      BY <2>1, <3>4, <3>5 DEF deleteSubnets, If
    <3> QED BY <3>6, <3>7
  <2>2. CASE ~OwnSubnets
    BY <2>2 DEF deleteSubnets, If
  <2> QED BY <2>1, <2>2
<1>2. CASE OwnVpc
  <2>1. /\ "igw" \in Parts /\ "vpc" \in Parts /\ "igw" \notin Kept /\ "vpc" \notin Kept
    BY <1>2, PartNames, ForeignFacts
  <2>2. /\ Detach("igw", "attachment") \in DeletingSteps /\ Delete("igw", "passes") \in DeletingSteps
        /\ Delete("vpc", "waits") \in DeletingSteps
    BY <2>1, DeletingFacts
  <2> QED BY <1>1, <2>2 DEF deleteInternetGateway, deleteVPC, If
<1>3. CASE ~OwnVpc
  BY <1>1, <1>3 DEF deleteInternetGateway, deleteVPC, If
<1> QED BY <1>2, <1>3

(* Only what is the setup's own is deleted, and nothing under Retain.      *)
LEMMA DeletingScript ==
  ASSUME config \in Setups
  PROVE  /\ deleteSetup \in Seq(DeletingSteps)
         /\ config.policy = "Retain" => deleteSetup = <<>>
<1>1. config.policy = "Retain" => deleteSetup = <<>>
  BY DEF deleteSetup, If
<1>2. CASE config.policy # "Retain"
  <2>1. /\ deleteSecurityGroup("nodeSG") \in Seq(DeletingSteps)
        /\ deleteSecurityGroup("clusterSG") \in Seq(DeletingSteps)
        /\ deleteRole("nodeRole") \in Seq(DeletingSteps)
        /\ deleteRole("clusterRole") \in Seq(DeletingSteps)
    BY OursDeleted DEF Groups, Roles
  <2>2. PICK a \in Seq(DeletingSteps) :
          a = deleteNodeGroups \o deleteAddons \o deleteCluster
              \o deleteSecurityGroup("nodeSG") \o deleteSecurityGroup("clusterSG")
    <3>1. PICK s1 \in Seq(DeletingSteps), s2 \in Seq(DeletingSteps), s3 \in Seq(DeletingSteps),
               s4 \in Seq(DeletingSteps), s5 \in Seq(DeletingSteps) :
            /\ s1 = deleteNodeGroups /\ s2 = deleteAddons /\ s3 = deleteCluster
            /\ s4 = deleteSecurityGroup("nodeSG") /\ s5 = deleteSecurityGroup("clusterSG")
      BY <2>1, OursDeleted
    <3>2. s1 \o s2 \o s3 \o s4 \o s5 \in Seq(DeletingSteps)
      OBVIOUS
    <3> QED BY <3>1, <3>2
  <2>3. PICK s6 \in Seq(DeletingSteps), s7 \in Seq(DeletingSteps), s8 \in Seq(DeletingSteps),
             s9 \in Seq(DeletingSteps) :
          /\ s6 = deleteRouteTables /\ s7 = deleteNATGateways /\ s8 = deleteLoadBalancers
          /\ s9 = deleteSubnets
    BY OursDeleted, NatDeleted, NetworkDeleted
  <2>4. PICK t1 \in Seq(DeletingSteps), t2 \in Seq(DeletingSteps), t3 \in Seq(DeletingSteps),
             t4 \in Seq(DeletingSteps) :
          /\ t1 = deleteInternetGateway /\ t2 = deleteVPC
          /\ t3 = deleteRole("nodeRole") /\ t4 = deleteRole("clusterRole")
    BY <2>1, NetworkDeleted
  <2>5. a \o s6 \o s7 \o s8 \o s9 \in Seq(DeletingSteps)
    OBVIOUS
  <2>6. a \o s6 \o s7 \o s8 \o s9 \o t1 \o t2 \o t3 \o t4 \in Seq(DeletingSteps)
    BY <2>5
  <2>7. deleteSetup = a \o s6 \o s7 \o s8 \o s9 \o t1 \o t2 \o t3 \o t4
    BY <1>2, <2>2, <2>3, <2>4 DEF deleteSetup, If
  <2> QED BY <1>1, <2>6, <2>7
<1>3. CASE config.policy = "Retain"
  BY <1>1, <1>3
<1> QED BY <1>2, <1>3

-----------------------------------------------------------------------------
(* What the invariant is about depends on the spec alone, which stays.     *)

LEMMA ConfigKeeps ==
  ASSUME config' = config
  PROVE  /\ Kept' = Kept /\ Foreign' = Foreign /\ ForeignPart' = ForeignPart
         /\ DeletingSteps' = DeletingSteps /\ FindingScripts' = FindingScripts
<1>1. Kept' = Kept
  BY DEF Kept, OwnVpc, OwnSubnets
<1>2. Foreign' = Foreign /\ ForeignPart' = ForeignPart
  BY DEF Foreign, ForeignPart
<1> QED BY <1>1, <1>2 DEF DeletingSteps, FindingScripts

CloudOK ==
  /\ cloud \in [Ids -> ResourceType]
  /\ \A i \in Ids : cloud[i].state = "none" <=> cloud[i].part = ""
  /\ ForeignStand

FaultsOK == faults \in 0..MaxFaults

LEMMA FaultKeeps ==
  ASSUME FaultsOK, Fault \/ UNCHANGED faults
  PROVE  FaultsOK'
BY BoundsAssumption DEF FaultsOK, Fault

(* The records.                                                            *)
LEMMA RecordFacts ==
  ASSUME config \in Setups
  PROVE  /\ NoRecord \in RecordType /\ KeptApart(NoRecord)
         /\ \A part \in Parts : NoRecord[part] \notin Foreign
         /\ Gone \in ObjectType /\ Sound(Gone) /\ ~Gone.deleting /\ ~Gone.exists
         /\ Created \in ObjectType /\ Sound(Created) /\ ~Created.deleting /\ Created.exists
<1>1. /\ NoRecord \in RecordType /\ \A part \in Parts : NoRecord[part] = None
  BY DEF NoRecord, RecordType
<1>2. KeptApart(NoRecord) /\ \A part \in Parts : NoRecord[part] \notin Foreign
  BY <1>1, ForeignFacts DEF KeptApart
<1>3. "" \in Phases
  BY DEF Phases
<1>4. /\ Gone \in ObjectType /\ ~Gone.deleting /\ ~Gone.exists /\ Gone.phase = "" /\ Gone.rec = NoRecord
      /\ Created \in ObjectType /\ ~Created.deleting /\ Created.exists /\ Created.phase = ""
      /\ Created.rec = NoRecord
  BY <1>1, <1>3 DEF Gone, Created, Object, ObjectType
<1> QED BY <1>1, <1>2, <1>4 DEF Sound

(* The scripts.                                                            *)
LEMMA ScriptTypes ==
  /\ Seq(MakingSteps) \subseteq Seq(Steps) /\ Seq(DeletingSteps) \subseteq Seq(Steps)
  /\ <<>> \in Seq(MakingSteps) /\ <<>> \in Seq(DeletingSteps) /\ <<>> \in Seq(Steps)
<1>1. MakingSteps \subseteq Steps /\ DeletingSteps \subseteq Steps
  BY DEF MakingSteps, DeletingSteps
<1> QED BY <1>1

LEMMA FindingTypes ==
  ASSUME config \in Setups, NEW script \in FindingScripts
  PROVE  /\ script \in Seq(Steps) /\ script # <<>> /\ Tail(script) = <<>>
         /\ Head(script).op = "find" /\ Head(script).part = "vpc" /\ Head(script).on = "fails"
         /\ Head(script).inUse = "fails" /\ Head(script).records \subseteq Kept
         /\ Head(script) \in Steps
<1>1. PICK parts \in SUBSET Kept : script = <<Find(parts)>>
  BY DEF FindingScripts
<1>2. PICK step : step = Find(parts)
  OBVIOUS
<1>3. /\ step \in Steps /\ step.op = "find" /\ step.part = "vpc" /\ step.on = "fails"
      /\ step.inUse = "fails" /\ step.records = parts
  BY <1>1, <1>2, PartNames, ForeignFacts DEF Find, Step, Steps, Outcomes, Kinds
<1> QED BY <1>1, <1>2, <1>3

(* What the head of the script is.                                         *)
LEMMA HeadFacts ==
  ASSUME IInv, todo # <<>>
  PROVE  /\ Head(todo) \in Steps /\ pc = "run" /\ work.finalizer
         /\ work.deleting =>
              /\ Head(todo) \in DeletingSteps /\ Tail(todo) \in Seq(DeletingSteps)
              /\ config.policy # "Retain" /\ made = NoRecord /\ work.phase = "Deleting"
         /\ ~work.deleting =>
              \/ Head(todo) \in MakingSteps /\ Tail(todo) \in Seq(MakingSteps)
              \/ /\ Tail(todo) = <<>> /\ Head(todo).op = "find" /\ Head(todo).part = "vpc"
                 /\ Head(todo).on = "fails" /\ Head(todo).records \subseteq Kept
<1>1. PICK script : script = todo
  OBVIOUS
<1>2. config \in Setups /\ AtPc /\ todo \in Seq(Steps) /\ pc = "run"
  BY DEF IInv, TypeOK
<1>3. Head(todo) \in Steps
  BY <1>2
<1>4. CASE work.deleting
  <2>1. todo \in Seq(DeletingSteps) /\ config.policy # "Retain" /\ made = NoRecord
    BY <1>2, <1>4 DEF AtPc
  <2>2. Head(todo) \in DeletingSteps /\ Tail(todo) \in Seq(DeletingSteps)
    BY <2>1
  <2> QED BY <1>2, <1>3, <1>4, <2>1, <2>2 DEF AtPc
<1>5. CASE ~work.deleting
  <2>1. todo \in Seq(MakingSteps) \/ todo \in FindingScripts
    BY <1>2, <1>5 DEF AtPc
  <2>2. CASE todo \in Seq(MakingSteps)
    <3>1. Head(todo) \in MakingSteps /\ Tail(todo) \in Seq(MakingSteps)
      BY <2>2
    <3> QED BY <1>2, <1>3, <1>5, <3>1 DEF AtPc
  <2>3. CASE todo \in FindingScripts
    <3>1. /\ Tail(script) = <<>> /\ Head(script).op = "find" /\ Head(script).part = "vpc"
          /\ Head(script).on = "fails" /\ Head(script).records \subseteq Kept
      BY <1>1, <1>2, <2>3, FindingTypes
    <3> QED BY <1>1, <1>2, <1>3, <1>5, <3>1 DEF AtPc
  <2> QED BY <2>1, <2>2, <2>3
<1> QED BY <1>4, <1>5

-----------------------------------------------------------------------------
(* Reconcile ends, and with it what it knew.                               *)

LEMMA ReturnKeeps ==
  ASSUME IInv, Return, UNCHANGED <<config, cache, cloud>>, FaultsOK',
         \/ UNCHANGED <<object, cacheFresh>>
         \/ /\ cacheFresh' = FALSE
            /\ object' \in ObjectType /\ Sound(object)' /\ (Asked => Asked')
  PROVE  IInv'
<1>1. config \in Setups /\ CloudOK /\ Copies /\ Sound(object) /\ Sound(cache)
      /\ object \in ObjectType /\ cache \in ObjectType /\ cacheFresh \in BOOLEAN
  BY DEF IInv, TypeOK, CloudOK
<1>2. /\ pc' = "idle" /\ work' = Gone /\ workFresh' = FALSE /\ todo' = <<>> /\ made' = NoRecord
  BY DEF Return
<1>3. /\ Kept' = Kept /\ Foreign' = Foreign /\ ForeignPart' = ForeignPart
      /\ DeletingSteps' = DeletingSteps /\ FindingScripts' = FindingScripts
  BY ConfigKeeps
<1>4. object' \in ObjectType /\ Sound(object)' /\ (Asked => Asked') /\ cacheFresh' \in BOOLEAN
  BY <1>1, <1>3 DEF Sound, KeptApart, Asked
<1>5. Sound(cache)' /\ Sound(work)'
  BY <1>1, <1>2, <1>3, RecordFacts DEF Sound, KeptApart
<1>6. TypeOK'
  BY <1>1, <1>2, <1>4, RecordFacts, ScriptTypes DEF TypeOK, CloudOK, FaultsOK
<1>7. ForeignStand'
  BY <1>1, <1>3 DEF CloudOK, ForeignStand
<1>8. Copies'
  BY <1>1, <1>2, <1>4, RecordFacts DEF Copies
<1>9. AtPc'
  BY <1>2, ScriptTypes, RecordFacts, <1>1 DEF AtPc
<1> QED BY <1>4, <1>5, <1>6, <1>7, <1>8, <1>9 DEF IInv

LEMMA WritesKeep ==
  ASSUME IInv, WriteStatus \/ RemoveFinalizer \/ WriteFails \/ Crash
  PROVE  IInv'
<1>1. config \in Setups /\ FaultsOK /\ Copies /\ Sound(work) /\ work \in ObjectType
  BY DEF IInv, TypeOK, FaultsOK
<1>2. /\ Return /\ UNCHANGED <<config, cache, cloud>> /\ (Fault \/ UNCHANGED faults)
  BY DEF WriteStatus, RemoveFinalizer, WriteFails, Crash, WritesBack, kube
<1>3. FaultsOK'
  BY <1>1, <1>2, FaultKeeps
<1>4. CASE WriteStatus /\ workFresh
  <2>1. object' = work /\ cacheFresh' = FALSE
    BY <1>4 DEF WriteStatus, WritesBack
  <2>2. Sound(object)'
    BY <1>1, <1>2, <2>1, ConfigKeeps DEF Sound, KeptApart
  <2>3. Asked => Asked'
    BY <1>1, <1>4, <2>1 DEF Copies, Asked
  <2> QED BY <1>1, <1>2, <1>3, <2>1, <2>2, <2>3, ReturnKeeps
<1>5. CASE RemoveFinalizer /\ workFresh
  <2>1. object' = Gone /\ cacheFresh' = FALSE
    BY <1>5 DEF RemoveFinalizer, WritesBack
  <2>2. Sound(object)' /\ Asked' /\ object' \in ObjectType
    BY <1>1, <1>2, <2>1, ConfigKeeps, RecordFacts DEF Sound, KeptApart, Asked
  <2> QED BY <1>2, <1>3, <2>1, <2>2, ReturnKeeps
<1>6. CASE WriteFails \/ Crash \/ ~workFresh
  <2>1. UNCHANGED <<object, cacheFresh>>
    BY <1>6 DEF WriteStatus, RemoveFinalizer, WriteFails, Crash, WritesBack, kube
  <2> QED BY <1>2, <1>3, <2>1, ReturnKeeps
<1> QED BY <1>4, <1>5, <1>6

LEMMA AddFinalizerKeeps ==
  ASSUME IInv, AddFinalizer
  PROVE  IInv'
<1>1. /\ config \in Setups /\ CloudOK /\ FaultsOK /\ Copies /\ AtPc
      /\ Sound(object) /\ Sound(cache) /\ Sound(work)
      /\ object \in ObjectType /\ cache \in ObjectType /\ work \in ObjectType
  BY DEF IInv, TypeOK, CloudOK, FaultsOK
<1>2. pc = "finalizer" /\ UNCHANGED <<config, cache, cloud, faults>>
  BY DEF AddFinalizer
<1>3. FaultsOK'
  BY <1>1, <1>2 DEF FaultsOK
<1>4. CASE ~workFresh
  BY <1>2, <1>3, <1>4, ReturnKeeps DEF AddFinalizer
<1>5. CASE workFresh
  <2>1. /\ object' = [object EXCEPT !.finalizer = TRUE] /\ work' = [work EXCEPT !.finalizer = TRUE]
        /\ cacheFresh' = FALSE /\ pc' = "phase" /\ UNCHANGED <<workFresh, todo, made>>
    BY <1>5 DEF AddFinalizer
  <2>2. /\ object' \in ObjectType /\ object'.finalizer /\ object'.rec = object.rec
        /\ object'.phase = object.phase /\ object'.deleting = object.deleting
        /\ object'.exists = object.exists
    BY <1>1, <2>1 DEF ObjectType
  <2>3. /\ work' \in ObjectType /\ work'.finalizer /\ work'.rec = work.rec
        /\ work'.phase = work.phase /\ work'.deleting = work.deleting
    BY <1>1, <2>1 DEF ObjectType
  <2>4. /\ Kept' = Kept /\ Foreign' = Foreign /\ ForeignPart' = ForeignPart
        /\ DeletingSteps' = DeletingSteps /\ FindingScripts' = FindingScripts
    BY <1>2, ConfigKeeps
  <2>5. Sound(object)' /\ Sound(cache)' /\ Sound(work)'
    BY <1>1, <1>2, <2>2, <2>3, <2>4 DEF Sound, KeptApart
  <2>6. todo = <<>> /\ todo \in Seq(Steps) /\ made \in RecordType /\ workFresh \in BOOLEAN
    BY <1>2 DEF IInv, TypeOK
  <2>7. TypeOK'
    BY <1>1, <1>2, <1>3, <2>1, <2>2, <2>3, <2>6 DEF TypeOK, CloudOK, FaultsOK
  <2>8. ForeignStand'
    BY <1>1, <1>2, <2>4 DEF CloudOK, ForeignStand
  <2>9. Copies'
    BY <1>1, <1>2, <2>1, <2>2, <2>3 DEF Copies, Asked
  <2>10. AtPc'
    BY <1>1, <1>2, <2>1, <2>3, <2>4, <2>6, ScriptTypes DEF AtPc
  <2> QED BY <2>5, <2>7, <2>8, <2>9, <2>10 DEF IInv
<1> QED BY <1>4, <1>5

(* Reconcile begins, with the object as it is in the cache.                *)
LEMMA ReadKeeps ==
  ASSUME IInv, BeginSync \/ BeginDeletion
  PROVE  IInv'
<1>1. /\ config \in Setups /\ CloudOK /\ FaultsOK /\ Copies /\ cache \in ObjectType
      /\ Sound(object) /\ Sound(cache) /\ object \in ObjectType /\ cacheFresh \in BOOLEAN
  BY DEF IInv, TypeOK, CloudOK, FaultsOK
<1>2. /\ ReadObject /\ workFresh' = cacheFresh /\ todo' = <<>> /\ made' = NoRecord
      /\ UNCHANGED <<config, object, cache, cacheFresh, cloud>> /\ (Fault \/ UNCHANGED faults)
      /\ cache.exists
  BY DEF BeginSync, BeginDeletion, ReadObject
<1>3. FaultsOK'
  BY <1>1, <1>2, FaultKeeps
<1>4. /\ work' \in ObjectType /\ work'.finalizer = cache.finalizer
      /\ work'.deleting = cache.deleting /\ work'.rec = cache.rec
      /\ (IF work'.deleting THEN work'.phase = "Deleting" ELSE work'.phase = cache.phase)
      /\ work'.deleting <=> BeginDeletion
  <2>1. CASE BeginSync
    BY <1>1, <2>1 DEF BeginSync, BeginDeletion, ObjectType
  <2>2. CASE BeginDeletion
    <3>1. work' = [cache EXCEPT !.phase = "Deleting", !.ready = FALSE] /\ cache.deleting
      BY <2>2 DEF BeginDeletion
    <3>2. "Deleting" \in Phases
      BY DEF Phases
    <3> QED BY <1>1, <2>2, <3>1, <3>2 DEF ObjectType
  <2> QED BY <2>1, <2>2
<1>5. /\ Kept' = Kept /\ Foreign' = Foreign /\ ForeignPart' = ForeignPart
      /\ DeletingSteps' = DeletingSteps /\ FindingScripts' = FindingScripts
  BY <1>2, ConfigKeeps
<1>6. Sound(object)' /\ Sound(cache)' /\ Sound(work)'
  BY <1>1, <1>2, <1>4, <1>5 DEF Sound, KeptApart
<1>7. /\ pc' \in {"phase", "status", "finalizer"}
      /\ pc' \in {"phase", "status"} => work'.finalizer
      /\ pc' = "finalizer" => ~work'.deleting
      /\ ~work'.deleting => work'.phase # "Ready"
  <2>1. CASE BeginSync
    BY <1>1, <1>4, <2>1 DEF BeginSync, Sound
  <2>2. CASE BeginDeletion
    BY <1>1, <1>4, <2>2 DEF BeginDeletion, Sound
  <2> QED BY <2>1, <2>2
<1>8. TypeOK'
  BY <1>1, <1>2, <1>3, <1>4, <1>7, RecordFacts, ScriptTypes DEF TypeOK, CloudOK, FaultsOK
<1>9. ForeignStand'
  BY <1>1, <1>2, <1>5 DEF CloudOK, ForeignStand
<1>10. Copies'
  BY <1>1, <1>2, <1>4 DEF Copies, Asked
<1>11. AtPc'
  BY <1>1, <1>2, <1>4, <1>5, <1>7, ScriptTypes, RecordFacts DEF AtPc
<1> QED BY <1>6, <1>8, <1>9, <1>10, <1>11 DEF IInv

-----------------------------------------------------------------------------
(* Between its beginning and its end Reconcile changes its copy, and AWS.  *)

LEMMA LocalMove ==
  ASSUME IInv, Keeping, CloudOK', FaultsOK', pc \in {"phase", "run"},
         work' \in ObjectType, work'.deleting = work.deleting, work'.finalizer = work.finalizer,
         work'.phase = "Deleting" => work.deleting, KeptApart(work.rec)',
         pc' \in {"run", "status", "release"}, made' \in RecordType,
         pc' = "run" => IF work.deleting THEN work'.phase = "Deleting" ELSE work'.phase # "Ready",
         todo' # <<>> => pc' = "run",
         IF work.deleting
         THEN /\ made' = NoRecord /\ todo' \in Seq(DeletingSteps)
              /\ config.policy = "Retain" => todo' = <<>>
         ELSE todo' \in Seq(MakingSteps) \cup FindingScripts,
         todo' # <<>> => \A part \in Parts : made'[part] \notin Foreign
  PROVE  IInv'
<1>1. /\ config \in Setups /\ Copies /\ cache \in ObjectType /\ AtPc
      /\ Sound(object) /\ Sound(cache) /\ object \in ObjectType /\ cacheFresh \in BOOLEAN
      /\ workFresh \in BOOLEAN /\ work.finalizer
  BY DEF IInv, TypeOK, AtPc
<1>2. UNCHANGED <<config, object, cache, cacheFresh, workFresh>>
  BY DEF Keeping, kube
<1>3. /\ Kept' = Kept /\ Foreign' = Foreign /\ ForeignPart' = ForeignPart
      /\ DeletingSteps' = DeletingSteps /\ FindingScripts' = FindingScripts
  BY <1>2, ConfigKeeps
<1>4. Sound(object)' /\ Sound(cache)' /\ Sound(work)'
  BY <1>1, <1>2, <1>3 DEF Sound, KeptApart
<1>5. todo' \in Seq(Steps)
  <2>1. CASE todo' \in FindingScripts
    <3>1. PICK script \in FindingScripts : script = todo'
      BY <2>1
    <3> QED BY <1>1, <3>1, FindingTypes
  <2>2. CASE todo' \notin FindingScripts
    BY <2>2, ScriptTypes
  <2> QED BY <2>1, <2>2
<1>6. TypeOK'
  BY <1>1, <1>2, <1>5 DEF TypeOK, CloudOK, FaultsOK
<1>7. ForeignStand'
  BY DEF CloudOK
<1>8. Copies'
  BY <1>1, <1>2 DEF Copies, Asked
<1>9. AtPc'
  BY <1>1, <1>2, <1>3 DEF AtPc
<1> QED BY <1>4, <1>6, <1>7, <1>8, <1>9 DEF IInv

(* What most of the steps need to know.                                    *)
LEMMA Known ==
  ASSUME IInv
  PROVE  /\ config \in Setups /\ CloudOK /\ FaultsOK /\ AtPc /\ Sound(work) /\ KeptApart(work.rec)
         /\ work \in ObjectType /\ work.rec \in RecordType /\ work.phase \in Phases
         /\ made \in RecordType /\ todo \in Seq(Steps) /\ (todo # <<>> => pc = "run")
BY DEF IInv, TypeOK, CloudOK, FaultsOK, Sound, ObjectType

(* Also if AWS stays as it is.                                             *)
LEMMA CloudStays ==
  ASSUME IInv, UNCHANGED <<config, cloud>>
  PROVE  CloudOK' /\ (KeptApart(work.rec)' <=> \A part \in Parts : work'.rec[part] \in Foreign => part \in Kept)
BY Known, ConfigKeeps DEF CloudOK, ForeignStand, KeptApart

LEMMA BeginPhaseKeeps ==
  ASSUME IInv, BeginPhase
  PROVE  IInv'
<1>1. /\ config \in Setups /\ FaultsOK /\ AtPc /\ Sound(work) /\ KeptApart(work.rec)
      /\ work \in ObjectType /\ work.phase \in Phases
  BY Known
<1>2. pc = "phase" /\ pc' = "run" /\ UNCHANGED <<work, made, cloud, faults>> /\ Keeping
  BY DEF BeginPhase
<1>3. config' = config
  BY <1>2 DEF Keeping
<1>4. CloudOK' /\ FaultsOK' /\ KeptApart(work.rec)'
  BY <1>1, <1>2, <1>3, CloudStays DEF FaultsOK, KeptApart
<1>5. made = NoRecord /\ IF work.deleting THEN work.phase = "Deleting" ELSE work.phase # "Ready"
  BY <1>1, <1>2 DEF AtPc
<1>6. CASE work.deleting
  <2>1. todo' = deleteSetup
    <3>1. work.phase = "Deleting"
      BY <1>5, <1>6
    <3>2. work.phase \notin Creating
      BY <3>1 DEF Creating
    <3> QED BY <3>1, <3>2, Zenon DEF BeginPhase
  <2>2. todo' \in Seq(DeletingSteps) /\ (config.policy = "Retain" => todo' = <<>>)
    BY <1>1, <2>1, DeletingScript
  <2> QED BY <1>1, <1>2, <1>4, <1>5, <1>6, <2>2, LocalMove, RecordFacts
<1>7. CASE ~work.deleting
  <2>1. work.phase # "Deleting"
    BY <1>1, <1>7 DEF Sound
  <2>2. CASE work.phase \in Creating
    <3>1. todo' = ScriptOf(work.phase)
      BY <2>1, <2>2, Zenon DEF BeginPhase
    <3>2. todo' \in Seq(MakingSteps) \cup FindingScripts
      BY <1>1, <2>2, <3>1, PhaseScripts
    <3> QED BY <1>1, <1>2, <1>4, <1>5, <1>7, <2>1, <3>2, LocalMove, RecordFacts
  <2>3. CASE work.phase \notin Creating
    <3>1. todo' = <<>>
      BY <2>1, <2>3, Zenon DEF BeginPhase
    <3> QED BY <1>1, <1>2, <1>4, <1>5, <1>7, <2>1, <3>1, LocalMove, RecordFacts, ScriptTypes
  <2> QED BY <2>2, <2>3
<1> QED BY <1>6, <1>7

LEMMA EndKeeps ==
  ASSUME IInv, EndPhase \/ EndDeletion
  PROVE  IInv'
<1>1. /\ config \in Setups /\ FaultsOK /\ AtPc /\ Sound(work) /\ KeptApart(work.rec)
      /\ work \in ObjectType /\ work.phase \in Phases /\ made \in RecordType
  BY Known
<1>2. pc = "run" /\ todo = <<>> /\ UNCHANGED <<todo, made, cloud, faults>> /\ Keeping
  BY DEF EndPhase, EndDeletion
<1>3. config' = config
  BY <1>2 DEF Keeping
<1>4. CloudOK' /\ FaultsOK'
  BY <1>1, <1>2, <1>3, CloudStays DEF FaultsOK
<1>5. work.deleting => made = NoRecord
  BY <1>1 DEF AtPc
<1>6. CASE EndPhase
  <2>1. /\ ~work.deleting /\ pc' = "status"
        /\ work' = [work EXCEPT !.phase = NextPhase(work.phase),
                                !.ready = (NextPhase(work.phase) = "Ready")]
    BY <1>6 DEF EndPhase
  <2>2. work.phase \notin {"Ready", "Deleting"}
    BY <1>1, <1>2, <2>1 DEF AtPc, Sound
  <2>3. NextPhase(work.phase) \in Phases \ {"", "Deleting"}
    BY <1>1, <2>2, PhaseFollows
  <2>4. /\ work' \in ObjectType /\ work'.deleting = work.deleting
        /\ work'.finalizer = work.finalizer /\ work'.phase # "Deleting" /\ work'.rec = work.rec
    BY <1>1, <2>1, <2>3 DEF ObjectType
  <2>5. KeptApart(work.rec)'
    BY <1>1, <1>2, <1>3, <2>4, CloudStays DEF KeptApart
  <2> QED BY <1>1, <1>2, <1>4, <2>1, <2>4, <2>5, LocalMove, ScriptTypes
<1>7. CASE EndDeletion
  <2>1. work.deleting /\ pc' = "release" /\ work' = work
    BY <1>7 DEF EndDeletion
  <2>2. KeptApart(work.rec)'
    BY <1>1, <1>2, <1>3, <2>1, CloudStays DEF KeptApart
  <2> QED BY <1>1, <1>2, <1>4, <1>5, <2>1, <2>2, LocalMove, ScriptTypes
<1> QED BY <1>6, <1>7

(* A phase that fails, and one that is taken up again later.                *)
LEMMA HaltKeeps ==
  ASSUME IInv, PhaseFails \/ Halt, CloudOK', FaultsOK', pc \in {"phase", "run"}
  PROVE  IInv'
<1>1. /\ config \in Setups /\ AtPc /\ Sound(work) /\ KeptApart(work.rec)
      /\ work \in ObjectType /\ made \in RecordType
  BY Known
<1>2. /\ pc' = "status" /\ todo' = <<>> /\ UNCHANGED made /\ Keeping
      /\ work' = [work EXCEPT !.phase = "Failed", !.ready = FALSE] \/ UNCHANGED work
  BY DEF PhaseFails, Halt
<1>3. config' = config
  BY <1>2 DEF Keeping
<1>4. /\ work' \in ObjectType /\ work'.deleting = work.deleting /\ work'.finalizer = work.finalizer
      /\ work'.phase = "Deleting" => work.deleting
      /\ work'.rec = work.rec
  <2>1. "Failed" \in Phases
    BY DEF Phases
  <2> QED BY <1>1, <1>2, <2>1 DEF ObjectType, Sound
<1>5. KeptApart(work.rec)'
  BY <1>1, <1>2, <1>3, <1>4, ConfigKeeps DEF KeptApart
<1>6. work.deleting => made = NoRecord
  BY <1>1 DEF AtPc
<1> QED BY <1>1, <1>2, <1>4, <1>5, <1>6, LocalMove, ScriptTypes

LEMMA StopKeeps ==
  ASSUME IInv, PhaseFails \/ Wait, FaultsOK', pc \in {"phase", "run"}
  PROVE  IInv'
<1>1. config \in Setups /\ UNCHANGED cloud /\ Keeping /\ (PhaseFails \/ Halt)
  BY Known DEF PhaseFails, Wait, Halt
<1>2. CloudOK'
  BY <1>1, Known, CloudStays DEF Keeping
<1> QED BY <1>1, <1>2, HaltKeeps

LEMMA CheckKeeps ==
  ASSUME IInv, Check \/ CheckFails
  PROVE  IInv'
<1>1. /\ config \in Setups /\ FaultsOK /\ AtPc /\ Sound(work) /\ KeptApart(work.rec)
      /\ work \in ObjectType /\ made \in RecordType /\ (todo # <<>> => pc = "run")
  BY Known
<1>2. pc = "phase" /\ todo = <<>> /\ (Fault \/ UNCHANGED faults)
  BY <1>1 DEF Check, CheckFails
<1>3. FaultsOK'
  BY <1>1, <1>2, FaultKeeps
<1>4. CASE PhaseFails
  BY <1>2, <1>3, <1>4, StopKeeps
<1>5. CASE pc' \in {"run", "status"} /\ UNCHANGED <<work, todo, made, cloud>> /\ Keeping
  <2>1. config' = config
    BY <1>5 DEF Keeping
  <2>2. CloudOK' /\ KeptApart(work.rec)'
    BY <1>1, <1>5, <2>1, CloudStays DEF KeptApart
  <2>3. /\ IF work.deleting THEN work.phase = "Deleting" ELSE work.phase # "Ready"
        /\ work.deleting => made = NoRecord
        /\ work.phase = "Deleting" => work.deleting
    BY <1>1, <1>2 DEF AtPc, Sound
  <2> QED BY <1>1, <1>2, <1>3, <1>5, <2>2, <2>3, LocalMove, ScriptTypes
<1> QED BY <1>4, <1>5 DEF Check, CheckFails

-----------------------------------------------------------------------------
(* The steps of a script, as far as Reconcile's own state goes.            *)

LEMMA ProceedKeeps ==
  ASSUME IInv, todo # <<>>, CloudOK', FaultsOK',
         \E ids \in RecordType :
           /\ Proceed(ids)
           /\ work.deleting => ids = NoRecord
           /\ ~work.deleting =>
                /\ \A part \in Head(todo).records : ids[part] \in Foreign => part \in Kept
                /\ Tail(todo) # <<>> => \A part \in Parts : ids[part] \notin Foreign
  PROVE  IInv'
<1>1. /\ config \in Setups /\ AtPc /\ Sound(work) /\ KeptApart(work.rec) /\ work \in ObjectType
      /\ work.rec \in RecordType /\ todo \in Seq(Steps) /\ pc = "run"
  BY Known
<1>2. /\ Head(todo) \in Steps /\ work.finalizer
      /\ work.deleting => /\ Tail(todo) \in Seq(DeletingSteps) /\ config.policy # "Retain"
                          /\ work.phase = "Deleting"
      /\ ~work.deleting => /\ Tail(todo) \in Seq(MakingSteps) \cup FindingScripts
                           /\ work.phase # "Ready"
  BY <1>1, HeadFacts, ScriptTypes DEF AtPc
<1>3. PICK ids \in RecordType :
        /\ Proceed(ids)
        /\ work.deleting => ids = NoRecord
        /\ ~work.deleting =>
             /\ \A part \in Head(todo).records : ids[part] \in Foreign => part \in Kept
             /\ Tail(todo) # <<>> => \A part \in Parts : ids[part] \notin Foreign
  OBVIOUS
<1>4. /\ made' = ids /\ todo' = Tail(todo) /\ pc' = "run" /\ Keeping
      /\ work' = [work EXCEPT !.rec = [part \in Parts |->
                    IF part \notin Head(todo).records THEN work.rec[part]
                    ELSE IF work.deleting THEN None ELSE ids[part]]]
  BY <1>1, <1>3 DEF Proceed, Note, ObjectType
<1>5. PICK rec : rec = [part \in Parts |->
                    IF part \notin Head(todo).records THEN work.rec[part]
                    ELSE IF work.deleting THEN None ELSE ids[part]]
  OBVIOUS
<1>6. rec \in RecordType
  BY <1>1, <1>5 DEF RecordType
<1>7. /\ work' \in ObjectType /\ work'.deleting = work.deleting /\ work'.finalizer = work.finalizer
      /\ work'.phase = work.phase /\ work'.rec = rec
  BY <1>1, <1>4, <1>5, <1>6 DEF ObjectType
<1>8. \A part \in Parts : rec[part] \in Foreign => part \in Kept
  BY <1>1, <1>3, <1>5, ForeignFacts DEF KeptApart
<1>9. config' = config
  BY <1>4 DEF Keeping
<1>10. KeptApart(work.rec)'
  BY <1>7, <1>8, <1>9, ConfigKeeps DEF KeptApart
<1>11. work.phase = "Deleting" => work.deleting
  BY <1>1 DEF Sound
<1>12. todo' # <<>> => \A part \in Parts : made'[part] \notin Foreign
  BY <1>1, <1>3, <1>4, RecordFacts
<1> QED BY <1>1, <1>2, <1>3, <1>4, <1>7, <1>10, <1>11, <1>12, LocalMove

(* A call that fails or is refused.                                        *)
LEMMA FailsKeeps ==
  ASSUME IInv, todo # <<>>, FaultsOK', \E how \in Outcomes : Fails(how)
  PROVE  IInv'
<1>1. /\ config \in Setups /\ AtPc /\ Sound(work) /\ KeptApart(work.rec) /\ work \in ObjectType
      /\ made \in RecordType /\ pc = "run"
  BY Known
<1>2. PhaseFails \/ Wait \/ PassOver
  BY DEF Fails
<1>3. CASE PhaseFails \/ Wait
  BY <1>1, <1>3, StopKeeps
<1>4. CASE PassOver
  <2>1. /\ todo' = Tail(todo) /\ UNCHANGED <<pc, made, cloud>> /\ Keeping
        /\ IF work.deleting THEN Note(made) ELSE UNCHANGED work
    BY <1>4 DEF PassOver
  <2>2. config' = config
    BY <2>1 DEF Keeping
  <2>3. CloudOK'
    BY <2>1, <2>2, CloudStays
  <2>4. \A part \in Parts : made[part] \notin Foreign
    BY <1>1 DEF AtPc
  <2>5. CASE work.deleting
    <3>1. PICK ids \in RecordType : ids = made
      BY <1>1
    <3>2. Proceed(ids) /\ ids = NoRecord
      BY <1>1, <2>1, <2>5, <3>1 DEF Proceed, AtPc
    <3> QED BY <2>3, <2>5, <3>2, ProceedKeeps
  <2>6. CASE ~work.deleting
    <3>1. /\ Tail(todo) \in Seq(MakingSteps) \cup FindingScripts
          /\ work.phase # "Ready" /\ (work.phase = "Deleting" => work.deleting) /\ work.finalizer
      BY <1>1, <2>6, HeadFacts, ScriptTypes DEF AtPc, Sound
    <3>2. KeptApart(work.rec)'
      BY <1>1, <2>1, <2>2, <2>6, CloudStays DEF KeptApart
    <3> QED BY <1>1, <2>1, <2>3, <2>4, <2>6, <3>1, <3>2, LocalMove
  <2> QED BY <2>5, <2>6
<1> QED BY <1>2, <1>3, <1>4

LEMMA RefusedKeeps ==
  ASSUME IInv, CallFails \/ MakeRefused \/ SetRefused \/ DeleteRefused
  PROVE  IInv'
<1>1. todo # <<>> /\ (Fault \/ UNCHANGED faults) /\ (Fails(Head(todo).on) \/ Fails(Head(todo).inUse))
  BY DEF CallFails, MakeRefused, SetRefused, DeleteRefused, Refused, Running
<1>2. FaultsOK'
  BY <1>1, Known, FaultKeeps
<1>3. Head(todo).on \in Outcomes /\ Head(todo).inUse \in Outcomes
  <2>1. Head(todo) \in Steps
    BY <1>1, HeadFacts
  <2> QED BY <2>1 DEF Steps
<1>4. \E how \in Outcomes : Fails(how)
  <2>1. PICK on \in Outcomes, inUse \in Outcomes : on = Head(todo).on /\ inUse = Head(todo).inUse
    BY <1>3
  <2>2. Fails(on) \/ Fails(inUse)
    BY <1>1, <2>1
  <2> QED BY <2>2
<1> QED BY <1>1, <1>2, <1>4, FailsKeeps

-----------------------------------------------------------------------------
(* The steps of a script, as far as AWS goes.                              *)

LEMMA MadeKeeps ==
  ASSUME IInv, todo # <<>>, CloudOK', FaultsOK', Proceed(made)
  PROVE  IInv'
<1>1. /\ AtPc /\ made \in RecordType
  BY Known
<1>2. work.deleting => made = NoRecord
  BY <1>1 DEF AtPc
<1>3. \A part \in Parts : made[part] \notin Foreign
  BY <1>1 DEF AtPc
<1>4. Head(todo).records \subseteq Parts
  <2>1. Head(todo) \in Steps
    BY HeadFacts
  <2> QED BY <2>1 DEF Steps
<1> QED BY <1>1, <1>2, <1>3, <1>4, ProceedKeeps

(* One resource changes, and it is not the user's, or is known as before. *)
LEMMA OneChanges ==
  ASSUME IInv, UNCHANGED config,
         \E i \in Ids : \E new \in ResourceType :
           /\ cloud' = [cloud EXCEPT ![i] = new]
           /\ new.state = "none" <=> new.part = ""
           /\ i \in Foreign => new.state = "available" /\ new.part = ForeignPart[i]
  PROVE  CloudOK'
<1>1. PICK i \in Ids, new \in ResourceType :
        /\ cloud' = [cloud EXCEPT ![i] = new]
        /\ new.state = "none" <=> new.part = ""
        /\ i \in Foreign => new.state = "available" /\ new.part = ForeignPart[i]
  OBVIOUS
<1>2. config \in Setups /\ cloud \in [Ids -> ResourceType] /\ ForeignStand
      /\ \A j \in Ids : cloud[j].state = "none" <=> cloud[j].part = ""
  BY Known DEF CloudOK
<1>3. cloud' \in [Ids -> ResourceType] /\ \A j \in Ids : cloud'[j] = IF j = i THEN new ELSE cloud[j]
  BY <1>1, <1>2
<1>4. \A j \in Ids : cloud'[j].state = "none" <=> cloud'[j].part = ""
  BY <1>1, <1>2, <1>3
<1>5. \A j \in Foreign : cloud'[j].state = "available" /\ cloud'[j].part = ForeignPart[j]
  BY <1>1, <1>2, <1>3, ForeignFacts DEF ForeignStand
<1>6. ForeignStand'
  BY <1>5, ConfigKeeps DEF ForeignStand
<1> QED BY <1>3, <1>4, <1>6 DEF CloudOK

(* The names under which the controller finds a resource.                  *)
LEMMA TargetTypes ==
  ASSUME IInv, todo # <<>>
  PROVE  /\ Part \in Kinds \cup {"tables", "balancers"}
         /\ Network \in Ids \cup {None}
         /\ Part \in Parts => Target \in Ids \cup {None}
         /\ None \notin Ids
<1>1. Head(todo) \in Steps /\ work.rec \in RecordType /\ made \in RecordType
  BY Known, HeadFacts
<1>2. "vpc" \in Parts /\ None \notin Ids
  BY PartNames, BoundsAssumption DEF Ids, None
<1>3. \A part \in Parts : work.rec[part] \in Ids \cup {None} /\ made[part] \in Ids \cup {None}
  BY <1>1 DEF RecordType
<1> QED BY <1>1, <1>2, <1>3 DEF Part, Network, Target, Steps

(* What is not the user's: the vacant ids, and what has a name.            *)
LEMMA NotForeign ==
  ASSUME IInv
  PROVE  /\ \A i \in Fresh : i \in Ids /\ i \notin Foreign
         /\ \A part \in HasName, network \in Ids \cup {None} :
              \A i \in Twins(part, network) : i \in Ids /\ i \notin Foreign
<1>1. config \in Setups /\ ForeignStand
  BY Known DEF CloudOK
<1>2. Foreign \subseteq Ids /\ \A i \in Foreign : ForeignPart[i] \in {"vpc", "igw", "public1", "private1"}
  BY <1>1, ForeignFacts
<1>3. ASSUME NEW i \in Fresh
      PROVE  i \in Ids /\ i \notin Foreign
  <2>1. config.quota \in 3..MaxId
    BY <1>1, SetupAssumption
  <2>2. i \in 1..config.quota /\ cloud[i].state = "none"
    BY <1>3 DEF Fresh, Unused
  <2> QED BY <1>1, <2>1, <2>2, BoundsAssumption DEF Ids, ForeignStand
<1>4. ASSUME NEW part \in HasName, NEW network \in Ids \cup {None}, NEW i \in Twins(part, network)
      PROVE  i \in Ids /\ i \notin Foreign
  <2>1. i \in Ids /\ cloud[i].part = part
    BY <1>4 DEF Twins, Of, Described, Live
  <2>2. part \notin {"vpc", "igw", "public1", "private1"}
    BY DEF HasName, Roles
  <2> QED BY <1>1, <1>2, <2>1, <2>2 DEF ForeignStand
<1> QED BY <1>3, <1>4

LEMMA MakeKeeps ==
  ASSUME IInv, MakeCall
  PROVE  IInv'
<1>1. /\ todo # <<>> /\ Head(todo).op = "make" /\ UNCHANGED faults
  BY DEF MakeCall, Running
<1>2. /\ config \in Setups /\ AtPc /\ FaultsOK /\ made \in RecordType
      /\ \A part \in Parts : made[part] \notin Foreign
  BY <1>1, Known DEF AtPc
<1>3. FaultsOK'
  BY <1>1, <1>2 DEF FaultsOK
<1>4. ~work.deleting /\ Part \in Parts
  BY <1>1, HeadFacts DEF DeletingSteps, MakingSteps, Part
<1>5. Head(todo).records \subseteq Parts
  <2>1. Head(todo) \in Steps
    BY <1>1, HeadFacts
  <2> QED BY <2>1 DEF Steps
<1>6. ASSUME NEW i \in Ids, i \notin Foreign, Proceed([made EXCEPT ![Part] = i]), CloudOK'
      PROVE  IInv'
  <2>1. PICK ids : ids = [made EXCEPT ![Part] = i]
    OBVIOUS
  <2>2. ids \in RecordType /\ \A part \in Parts : ids[part] \notin Foreign
    BY <1>2, <1>6, <2>1 DEF RecordType
  <2> QED BY <1>1, <1>3, <1>4, <1>5, <1>6, <2>1, <2>2, ProceedKeeps
<1> DEFINE address == IF Part = "nat1" THEN made["eip1"]
                      ELSE IF Part = "nat2" THEN made["eip2"] ELSE None
           new == Resource(IF Part \in Slow THEN "pending" ELSE "available", Part, {},
                           IF Part = "vpc" THEN None ELSE Network, address)
<1>7. \/ \E i \in Fresh : cloud' = [cloud EXCEPT ![i] = new] /\ Proceed([made EXCEPT ![Part] = i])
      \/ /\ Part \in HasName /\ UNCHANGED cloud
         /\ \E i \in Twins(Part, Network) : Proceed([made EXCEPT ![Part] = i])
  BY Zenon DEF MakeCall
<1>8. Network \in Ids \cup {None}
  BY <1>1, TargetTypes
<1>9. new \in ResourceType /\ new.state # "none" /\ new.part # ""
  <2>1. "eip1" \in Parts /\ "eip2" \in Parts /\ "" \notin Parts
    <3>1. "" \notin Subnets /\ "" \notin Tables /\ "" \notin Each(NAT) /\ "" \notin Each(Eip)
      BY PartNames
    <3>2. "" \notin Roles /\ "" \notin Groups
      BY DEF Roles, Groups
    <3> QED BY <3>1, <3>2, PartNames DEF Parts
  <2>2. address \in Ids \cup {None}
    BY <1>2, <2>1 DEF RecordType
  <2> HIDE DEF address
  <2>3. Part \in Kinds
    BY <1>4 DEF Kinds
  <2>4. new.state \in {"pending", "available"} /\ new.part = Part
    BY DEF Resource
  <2> QED BY <1>4, <1>8, <2>1, <2>2, <2>3, <2>4 DEF Resource, ResourceType
<1> HIDE DEF new, address
<1>10. CASE \E i \in Fresh : cloud' = [cloud EXCEPT ![i] = new] /\ Proceed([made EXCEPT ![Part] = i])
  <2>1. PICK i \in Fresh : cloud' = [cloud EXCEPT ![i] = new] /\ Proceed([made EXCEPT ![Part] = i])
    BY <1>10
  <2>2. i \in Ids /\ i \notin Foreign
    BY NotForeign
  <2>3. config' = config
    BY <2>1 DEF Proceed, Keeping
  <2>4. CloudOK'
    BY <1>9, <2>1, <2>2, <2>3, OneChanges
  <2> QED BY <1>6, <2>1, <2>2, <2>4
<1>11. CASE /\ Part \in HasName /\ UNCHANGED cloud
            /\ \E i \in Twins(Part, Network) : Proceed([made EXCEPT ![Part] = i])
  <2>1. PICK i \in Twins(Part, Network) : Proceed([made EXCEPT ![Part] = i])
    BY <1>11
  <2>2. PICK part \in HasName, network \in Ids \cup {None} : part = Part /\ network = Network
    BY <1>8, <1>11
  <2>3. i \in Ids /\ i \notin Foreign
    BY <2>2, NotForeign
  <2>4. config' = config
    BY <2>1 DEF Proceed, Keeping
  <2>5. CloudOK'
    BY <1>11, <2>4, CloudStays
  <2> QED BY <1>6, <2>1, <2>3, <2>5
<1> QED BY <1>7, <1>10, <1>11

(* What the resource that a step is about gets, or loses.                  *)
LEMMA SettingsKeep ==
  ASSUME IInv, UNCHANGED config,
         \E i \in Ids : \E settings \in SUBSET Attributes :
           cloud' = [cloud EXCEPT ![i] = [cloud[i] EXCEPT !.settings = settings]]
  PROVE  CloudOK'
<1>1. PICK i \in Ids, settings \in SUBSET Attributes :
        cloud' = [cloud EXCEPT ![i] = [cloud[i] EXCEPT !.settings = settings]]
  OBVIOUS
<1>2. /\ cloud[i] \in ResourceType /\ (cloud[i].state = "none" <=> cloud[i].part = "")
      /\ i \in Foreign => cloud[i].state = "available" /\ cloud[i].part = ForeignPart[i]
  BY Known DEF CloudOK, ForeignStand
<1>3. PICK old \in ResourceType : old = cloud[i]
  BY <1>2
<1>4. PICK new : new = [old EXCEPT !.settings = settings]
  OBVIOUS
<1>5. new \in ResourceType /\ new.state = old.state /\ new.part = old.part
  BY <1>4 DEF ResourceType
<1>6. cloud' = [cloud EXCEPT ![i] = new]
  BY <1>1, <1>3, <1>4
<1> QED BY <1>2, <1>3, <1>5, <1>6, OneChanges

LEMMA SetKeeps ==
  ASSUME IInv, SetCall
  PROVE  IInv'
<1>1. todo # <<>> /\ Head(todo).op = "set" /\ UNCHANGED faults /\ Proceed(made)
  BY DEF SetCall, Running
<1>2. FaultsOK' /\ config' = config
  BY <1>1, Known DEF FaultsOK, Proceed, Keeping
<1>3. Part \in Parts /\ Head(todo).setting \in Attributes
  BY <1>1, HeadFacts DEF DeletingSteps, MakingSteps, Part
<1>4. Target \in Ids \cup {None}
  BY <1>1, <1>3, TargetTypes
<1>5. cloud \in [Ids -> ResourceType]
  BY Known DEF CloudOK
<1>6. PICK i \in Ids \cup {None} : i = Target
  BY <1>4
<1>7. cloud' = [cloud EXCEPT ![i] = [cloud[i] EXCEPT !.settings = cloud[i].settings \cup {Head(todo).setting}]]
  BY <1>6 DEF SetCall
<1>8. CASE i \in Ids
  <2>1. cloud[i].settings \cup {Head(todo).setting} \in SUBSET Attributes
    BY <1>3, <1>5, <1>8 DEF ResourceType
  <2>2. PICK settings \in SUBSET Attributes : settings = cloud[i].settings \cup {Head(todo).setting}
    BY <2>1
  <2>3. CloudOK'
    BY <1>2, <1>7, <1>8, <2>2, SettingsKeep
  <2> QED BY <1>1, <1>2, <2>3, MadeKeeps
<1>9. CASE i \notin Ids
  <2>1. cloud' = cloud
    BY <1>5, <1>7, <1>9
  <2>2. CloudOK'
    BY <1>2, <2>1, CloudStays
  <2> QED BY <1>1, <1>2, <2>2, MadeKeeps
<1> QED BY <1>8, <1>9

LEMMA DetachKeeps ==
  ASSUME IInv, DetachCall
  PROVE  IInv'
<1>1. todo # <<>> /\ UNCHANGED faults /\ Proceed(made)
  BY DEF DetachCall, Running
<1>2. FaultsOK' /\ config' = config
  BY <1>1, Known DEF FaultsOK, Proceed, Keeping
<1>3. cloud \in [Ids -> ResourceType]
  BY Known DEF CloudOK
<1>4. CASE UNCHANGED cloud
  BY <1>1, <1>2, <1>4, CloudStays, MadeKeeps
<1>5. CASE Target \in Live /\ cloud' = [cloud EXCEPT ![Target].settings = @ \ {Head(todo).setting}]
  <2>1. PICK i \in Ids : i = Target
    BY <1>5 DEF Live
  <2>2. PICK settings \in SUBSET Attributes : settings = cloud[i].settings \ {Head(todo).setting}
    BY <1>3 DEF ResourceType
  <2>3. cloud' = [cloud EXCEPT ![i] = [cloud[i] EXCEPT !.settings = settings]]
    BY <1>5, <2>1, <2>2
  <2>4. CloudOK'
    BY <1>2, <2>3, SettingsKeep
  <2> QED BY <1>1, <1>2, <2>4, MadeKeeps
<1> QED BY <1>4, <1>5 DEF DetachCall

(* What is in the user's place, and what the steps of the deletion aim at. *)
LEMMA AimedAt ==
  ASSUME IInv, todo # <<>>, Head(todo).op = "delete"
  PROVE  work.deleting /\ Target \notin Foreign
<1>1. /\ work.deleting /\ Part \in Parts \ Kept
  BY HeadFacts DEF DeletingSteps, MakingSteps, Part
<1>2. KeptApart(work.rec) /\ \A part \in Parts : made[part] \notin Foreign
  BY Known DEF AtPc
<1> QED BY <1>1, <1>2 DEF Target, KeptApart

LEMMA StateKeeps ==
  ASSUME IInv, UNCHANGED config,
         \E i \in Ids \ Foreign : \E state \in {"available", "failed", "deleting", "gone"} :
           /\ cloud[i].state # "none"
           /\ cloud' = [cloud EXCEPT ![i] = [cloud[i] EXCEPT !.state = state]]
  PROVE  CloudOK'
<1>1. PICK i \in Ids \ Foreign, state \in {"available", "failed", "deleting", "gone"} :
        /\ cloud[i].state # "none"
        /\ cloud' = [cloud EXCEPT ![i] = [cloud[i] EXCEPT !.state = state]]
  OBVIOUS
<1>2. cloud[i] \in ResourceType /\ (cloud[i].state = "none" <=> cloud[i].part = "")
  BY Known DEF CloudOK
<1>3. PICK old \in ResourceType : old = cloud[i]
  BY <1>2
<1>4. PICK new : new = [old EXCEPT !.state = state]
  OBVIOUS
<1>5. new \in ResourceType /\ new.state = state /\ new.part = old.part
  BY <1>4 DEF ResourceType
<1>6. cloud' = [cloud EXCEPT ![i] = new]
  BY <1>1, <1>3, <1>4
<1> QED BY <1>1, <1>2, <1>3, <1>5, <1>6, OneChanges

LEMMA DeleteKeeps ==
  ASSUME IInv, DeleteCall
  PROVE  IInv'
<1>1. todo # <<>> /\ Head(todo).op = "delete" /\ UNCHANGED faults /\ Proceed(made)
  BY DEF DeleteCall, Running
<1>2. FaultsOK' /\ config' = config
  BY <1>1, Known DEF FaultsOK, Proceed, Keeping
<1>3. CASE UNCHANGED cloud
  BY <1>1, <1>2, <1>3, CloudStays, MadeKeeps
<1>4. CASE Target \in Live /\ cloud' = [cloud EXCEPT ![Target].state =
                                         IF Part \in Lingering THEN "deleting" ELSE "gone"]
  <2>1. PICK i \in Ids : i = Target
    BY <1>4 DEF Live
  <2>2. PICK state \in {"deleting", "gone"} :
          state = IF Part \in Lingering THEN "deleting" ELSE "gone"
    OBVIOUS
  <2>3. cloud' = [cloud EXCEPT ![i] = [cloud[i] EXCEPT !.state = state]]
    BY <1>4, <2>1, <2>2
  <2>4. i \notin Foreign /\ cloud[i].state # "none"
    BY <1>1, <1>4, <2>1, AimedAt DEF Live
  <2>5. CloudOK'
    BY <1>2, <2>3, <2>4, StateKeeps
  <2> QED BY <1>1, <1>2, <2>5, MadeKeeps
<1> QED BY <1>3, <1>4 DEF DeleteCall

(* Of what is swept nothing is the user's.                                 *)
LEMMA SweptFacts ==
  ASSUME IInv
  PROVE  \A network : Within(network, {"balancer"}) \cap Foreign = {}
                      /\ Within(network, Tables) \cap Foreign = {}
<1>1. config \in Setups /\ ForeignStand
  BY Known DEF CloudOK
<1>2. \A i \in Foreign : cloud[i].part \in {"vpc", "igw", "public1", "private1"}
  BY <1>1, ForeignFacts DEF ForeignStand
<1>3. \A i \in Foreign : cloud[i].part \notin Tables /\ cloud[i].part # "balancer"
  BY <1>2, PartNames
<1> QED BY <1>3 DEF Within, Of

LEMMA SweepClears ==
  ASSUME IInv, UNCHANGED config, NEW parts \in {Tables, {"balancer"}},
         NEW swept \in SUBSET (Within(Network, parts) \cap Live), cloud' = Without(swept)
  PROVE  CloudOK'
<1>1. swept \subseteq Live /\ swept \cap Foreign = {}
  <2>1. PICK network : network = Network
    OBVIOUS
  <2> QED BY <2>1, SweptFacts
<1>2. PICK state \in {"deleting", "gone"} : state = IF Part = "balancers" THEN "deleting" ELSE "gone"
  OBVIOUS
<1>3. /\ config \in Setups /\ cloud \in [Ids -> ResourceType] /\ ForeignStand
      /\ \A i \in Ids : cloud[i].state = "none" <=> cloud[i].part = ""
  BY Known DEF CloudOK
<1>4. cloud' = [i \in Ids |-> IF i \notin swept THEN cloud[i] ELSE [cloud[i] EXCEPT !.state = state]]
  BY <1>2 DEF Without
<1>5. ASSUME NEW i \in Ids
      PROVE  /\ cloud'[i] \in ResourceType /\ (cloud'[i].state = "none" <=> cloud'[i].part = "")
             /\ i \in Foreign => cloud'[i] = cloud[i]
  <2>1. CASE i \notin swept
    <3>1. cloud'[i] = cloud[i]
      BY <1>4, <2>1
    <3> QED BY <1>3, <3>1
  <2>2. CASE i \in swept
    <3>1. PICK old \in ResourceType : old = cloud[i]
      BY <1>3
    <3>2. cloud'[i] = [old EXCEPT !.state = state]
      BY <1>4, <2>2, <3>1
    <3>3. old.state # "none" /\ i \notin Foreign
      BY <1>1, <2>2, <3>1 DEF Live
    <3>4. cloud'[i] \in ResourceType /\ cloud'[i].state = state /\ cloud'[i].part = old.part
      BY <3>2 DEF ResourceType
    <3> QED BY <1>3, <3>1, <3>3, <3>4
  <2> QED BY <2>1, <2>2
<1>6. cloud' \in [Ids -> ResourceType]
  BY <1>4, <1>5
<1>7. ForeignStand'
  <2>1. \A i \in Foreign : cloud'[i] = cloud[i]
    BY <1>3, <1>5, ForeignFacts
  <2> QED BY <1>3, <2>1, ConfigKeeps DEF ForeignStand
<1> QED BY <1>5, <1>6, <1>7 DEF CloudOK

LEMMA SweepKeeps ==
  ASSUME IInv, SweepCall \/ SweepHeldUp
  PROVE  IInv'
<1>1. /\ todo # <<>> /\ pc = "run" /\ (Fault \/ UNCHANGED faults)
      /\ Proceed(made) \/ Halt
  BY DEF SweepCall, SweepHeldUp
<1>2. FaultsOK' /\ UNCHANGED config
  BY <1>1, Known, FaultKeeps DEF Proceed, Halt, Keeping
<1>3. CloudOK'
  <2>1. PICK parts \in {Tables, {"balancer"}} :
          \E swept \in SUBSET (Within(Network, parts) \cap Live) : cloud' = Without(swept)
    <3>1. CASE SweepCall
      BY <3>1, Zenon DEF SweepCall, SweptParts
    <3>2. CASE SweepHeldUp
      BY <3>2, Zenon DEF SweepHeldUp
    <3> QED BY <3>1, <3>2
  <2> QED BY <1>2, <2>1, SweepClears
<1> QED BY <1>1, <1>2, <1>3, MadeKeeps, HaltKeeps

LEMMA FindKeeps ==
  ASSUME IInv, FindCall
  PROVE  IInv'
<1>1. todo # <<>> /\ Head(todo).op = "find" /\ UNCHANGED <<cloud, faults>>
  BY DEF FindCall, Running, Unaltered
<1>2. PICK ids : /\ Proceed(ids)
                 /\ ids = [part \in Parts |->
                             IF \E i \in Foreign : ForeignPart[i] = part
                             THEN CHOOSE i \in Foreign : ForeignPart[i] = part ELSE made[part]]
  BY DEF FindCall
<1>3. config \in Setups /\ made \in RecordType
  BY Known
<1>4. ids \in RecordType
  <2>1. ASSUME NEW part \in Parts
        PROVE  ids[part] \in Ids \cup {None}
    <3>1. CASE \E i \in Foreign : ForeignPart[i] = part
      <4>1. ids[part] \in Foreign
        BY <1>2, <3>1
      <4> QED BY <1>3, <4>1, ForeignFacts
    <3>2. CASE ~\E i \in Foreign : ForeignPart[i] = part
      <4>1. ids[part] = made[part]
        BY <1>2, <3>2
      <4> QED BY <1>3, <4>1 DEF RecordType
    <3> QED BY <3>1, <3>2
  <2> QED BY <1>2, <2>1 DEF RecordType
<1>5. ~work.deleting /\ Head(todo).records \subseteq Kept /\ Tail(todo) = <<>>
  BY <1>1, HeadFacts DEF DeletingSteps, MakingSteps
<1>6. config' = config
  BY <1>2 DEF Proceed, Keeping
<1>7. CloudOK' /\ FaultsOK'
  BY <1>1, <1>6, CloudStays, Known DEF FaultsOK
<1> QED BY <1>1, <1>2, <1>4, <1>5, <1>7, ProceedKeeps

LEMMA AwaitKeeps ==
  ASSUME IInv, AwaitCall \/ ClearStep
  PROVE  IInv'
<1>1. todo # <<>> /\ UNCHANGED faults /\ (Wait \/ (Proceed(made) /\ UNCHANGED cloud))
  <2>1. CASE AwaitCall
    BY <2>1, Zenon DEF AwaitCall, Running
  <2>2. CASE ClearStep
    BY <2>2 DEF ClearStep, Running, Unaltered
  <2> QED BY <2>1, <2>2
<1>2. FaultsOK' /\ pc = "run"
  BY <1>1, Known DEF FaultsOK
<1>3. CASE Wait
  BY <1>2, <1>3, StopKeeps
<1>4. CASE Proceed(made) /\ UNCHANGED cloud
  <2>1. config' = config
    BY <1>4 DEF Proceed, Keeping
  <2>2. CloudOK'
    BY <1>4, <2>1, CloudStays
  <2> QED BY <1>1, <1>2, <1>4, <2>2, MadeKeeps
<1> QED BY <1>1, <1>3, <1>4

-----------------------------------------------------------------------------
(* Around the controller.                                                  *)

LEMMA CloudMoves ==
  ASSUME IInv, UNCHANGED <<config, kube, local>>, CloudOK', FaultsOK'
  PROVE  IInv'
<1>1. UNCHANGED <<object, cache, cacheFresh, pc, work, workFresh, todo, made>>
  BY DEF kube, local
<1>2. /\ Kept' = Kept /\ Foreign' = Foreign /\ ForeignPart' = ForeignPart
      /\ DeletingSteps' = DeletingSteps /\ FindingScripts' = FindingScripts
  BY ConfigKeeps
<1>3. Sound(object)' /\ Sound(cache)' /\ Sound(work)'
  BY <1>1, <1>2 DEF IInv, Sound, KeptApart
<1>4. TypeOK' /\ ForeignStand'
  BY <1>1 DEF IInv, TypeOK, CloudOK, FaultsOK
<1>5. Copies'
  BY <1>1 DEF IInv, Copies, Asked
<1>6. AtPc'
  BY <1>1, <1>2 DEF IInv, AtPc
<1> QED BY <1>3, <1>4, <1>5, <1>6 DEF IInv

LEMMA CloudStepKeeps ==
  ASSUME IInv, NEW i \in Ids, CloudStep(i) \/ FailToStart(i) \/ Expose(i)
  PROVE  IInv'
<1>1. UNCHANGED <<config, kube, local>> /\ (Fault \/ UNCHANGED faults)
  BY DEF CloudStep, FailToStart, Expose
<1>2. FaultsOK'
  BY <1>1, Known, FaultKeeps
<1>3. cloud \in [Ids -> ResourceType] /\ ForeignStand
  BY Known DEF CloudOK
<1>4. CASE CloudStep(i) \/ FailToStart(i)
  <2>1. PICK state \in {"available", "gone", "failed"} :
          cloud' = [cloud EXCEPT ![i] = [cloud[i] EXCEPT !.state = state]]
    BY <1>3, <1>4 DEF CloudStep, FailToStart
  <2>2. cloud[i].state \in {"pending", "deleting"}
    BY <1>4 DEF CloudStep, FailToStart
  <2>3. i \notin Foreign
    BY <1>3, <2>2 DEF ForeignStand
  <2>4. CloudOK'
    BY <1>1, <2>1, <2>2, <2>3, StateKeeps
  <2> QED BY <1>1, <1>2, <2>4, CloudMoves
<1>5. CASE Expose(i)
  <2>1. PICK j \in Fresh :
          cloud' = [cloud EXCEPT ![j] = Resource("available", "balancer", {}, cloud[i].network, None)]
    BY <1>5 DEF Expose
  <2>2. j \in Ids /\ j \notin Foreign
    BY NotForeign
  <2>3. PICK new : new = Resource("available", "balancer", {}, cloud[i].network, None)
    OBVIOUS
  <2>4. new \in ResourceType /\ new.state # "none" /\ new.part # ""
    BY <1>3, <2>3 DEF Resource, ResourceType, Kinds
  <2>5. CloudOK'
    BY <1>1, <2>1, <2>2, <2>3, <2>4, OneChanges
  <2> QED BY <1>1, <1>2, <2>5, CloudMoves
<1> QED BY <1>4, <1>5

LEMMA ObjectKeeps ==
  ASSUME IInv, SyncCache \/ RequestDelete
  PROVE  IInv'
<1>1. /\ config \in Setups /\ CloudOK /\ FaultsOK /\ AtPc /\ Copies
      /\ Sound(object) /\ Sound(cache) /\ Sound(work)
      /\ object \in ObjectType /\ cache \in ObjectType /\ work \in ObjectType
      /\ cacheFresh \in BOOLEAN /\ workFresh \in BOOLEAN
  BY Known DEF IInv, TypeOK
<1>2. UNCHANGED <<config, pc, work, todo, made, cloud, faults>>
  BY DEF SyncCache, RequestDelete, local
<1>3. /\ Kept' = Kept /\ Foreign' = Foreign /\ ForeignPart' = ForeignPart
      /\ DeletingSteps' = DeletingSteps /\ FindingScripts' = FindingScripts
  BY <1>2, ConfigKeeps
<1>4. /\ object' \in ObjectType /\ cache' \in ObjectType
      /\ cacheFresh' \in BOOLEAN /\ workFresh' \in BOOLEAN
      /\ Sound(object)' /\ Sound(cache)' /\ Copies'
  <2>1. CASE SyncCache
    <3>1. cache' = object /\ object' = object /\ cacheFresh' = TRUE /\ workFresh' = workFresh
      BY <2>1 DEF SyncCache, local
    <3>2. Sound(object)' /\ Sound(cache)'
      BY <1>1, <1>3, <3>1 DEF Sound, KeptApart
    <3>3. Copies'
      BY <1>1, <1>2, <3>1 DEF Copies, Asked
    <3> QED BY <1>1, <3>1, <3>2, <3>3
  <2>2. CASE RequestDelete
    <3>1. /\ object' = IF object.finalizer THEN [object EXCEPT !.deleting = TRUE] ELSE Gone
          /\ cacheFresh' = FALSE /\ workFresh' = FALSE /\ cache' = cache
      BY <2>2 DEF RequestDelete
    <3>2. object' \in ObjectType /\ Sound(object)' /\ (object'.deleting \/ ~object'.exists)
      <4>1. CASE object.finalizer
        <5>1. object' = [object EXCEPT !.deleting = TRUE]
          BY <3>1, <4>1
        <5>2. /\ object' \in ObjectType /\ object'.deleting /\ object'.finalizer
              /\ object'.rec = object.rec
          BY <1>1, <4>1, <5>1 DEF ObjectType
        <5> QED BY <1>1, <1>3, <5>2 DEF Sound, KeptApart
      <4>2. CASE ~object.finalizer
        <5>1. object' = Gone
          BY <3>1, <4>2
        <5> QED BY <1>1, <1>3, <5>1, RecordFacts DEF Sound, KeptApart
      <4> QED BY <4>1, <4>2
    <3>3. Sound(cache)'
      BY <1>1, <1>3, <3>1 DEF Sound, KeptApart
    <3>4. Copies'
      BY <3>1, <3>2 DEF Copies, Asked
    <3> QED BY <1>1, <3>1, <3>2, <3>3, <3>4
  <2> QED BY <2>1, <2>2
<1>5. Sound(work)'
  BY <1>1, <1>2, <1>3 DEF Sound, KeptApart
<1>6. TypeOK'
  BY <1>1, <1>2, <1>4 DEF IInv, TypeOK
<1>7. ForeignStand'
  BY <1>1, <1>2, <1>3 DEF CloudOK, ForeignStand
<1>8. AtPc'
  BY <1>1, <1>2, <1>3 DEF AtPc
<1> QED BY <1>4, <1>5, <1>6, <1>7, <1>8 DEF IInv

-----------------------------------------------------------------------------
(* The invariant.                                                          *)

LEMMA InitHolds == Init => IInv
<1> SUFFICES ASSUME Init PROVE IInv
  OBVIOUS
<1>1. /\ config \in Setups /\ object = Created /\ cache = Created /\ cacheFresh = TRUE
      /\ pc = "idle" /\ work = Gone /\ workFresh = FALSE /\ todo = <<>> /\ made = NoRecord
      /\ faults = 0
  BY DEF Init
<1>2. ForeignStand /\ \A i \in Ids : cloud[i].state = "none" <=> cloud[i].part = ""
  BY <1>1, ForeignFacts DEF Init, ForeignStand, Resource, Nothing
<1>3. cloud \in [Ids -> ResourceType]
  <2>1. Nothing \in ResourceType
    BY DEF Nothing, Resource, ResourceType
  <2>2. ASSUME NEW i \in Foreign, NEW network \in {None, 1}, NEW settings \in {{}, {"attachment"}}
        PROVE  Resource("available", ForeignPart[i], settings, network, None) \in ResourceType
    <3>1. ForeignPart[i] \in Kinds
      BY <1>1, ForeignFacts, PartNames DEF Kinds
    <3>2. network \in Ids \cup {None} /\ settings \in SUBSET Attributes
      BY BoundsAssumption, AttributeNames DEF Ids
    <3> QED BY <3>1, <3>2 DEF Resource, ResourceType
  <2>3. cloud = [i \in Ids |->
                   IF i \in Foreign
                   THEN Resource("available", ForeignPart[i],
                                 IF ForeignPart[i] = "igw" THEN {"attachment"} ELSE {},
                                 IF i = 1 THEN None ELSE 1, None)
                   ELSE Nothing]
    BY DEF Init
  <2> QED BY <2>1, <2>2, <2>3
<1>4. faults \in 0..MaxFaults
  BY <1>1, BoundsAssumption
<1>5. /\ TypeOK /\ Sound(object) /\ Sound(cache) /\ Sound(work)
  BY <1>1, <1>2, <1>3, <1>4, RecordFacts, ScriptTypes DEF TypeOK
<1>6. Copies
  BY <1>1, RecordFacts DEF Copies, Asked
<1>7. AtPc
  BY <1>1, RecordFacts, ScriptTypes DEF AtPc
<1> QED BY <1>2, <1>5, <1>6, <1>7 DEF IInv

LEMMA NextKeeps == IInv /\ [Next]_vars => IInv'
<1> SUFFICES ASSUME IInv, [Next]_vars PROVE IInv'
  OBVIOUS
<1>1. CASE Script
  BY <1>1, MakeKeeps, RefusedKeeps, SetKeeps, FindKeeps, DeleteKeeps, AwaitKeeps, DetachKeeps,
     SweepKeeps DEF Script
<1>2. CASE Reconcile /\ ~Script
  BY <1>2, ReadKeeps, AddFinalizerKeeps, BeginPhaseKeeps, EndKeeps, CheckKeeps, WritesKeep
     DEF Reconcile
<1>3. CASE Environment
  <2>1. CASE Crash
    BY <2>1, WritesKeep
  <2>2. CASE SyncCache \/ RequestDelete
    BY <2>2, ObjectKeeps
  <2>3. CASE \E i \in Ids : CloudStep(i) \/ FailToStart(i) \/ Expose(i)
    BY <2>3, CloudStepKeeps
  <2> QED BY <1>3, <2>1, <2>2, <2>3 DEF Environment
<1>4. CASE UNCHANGED vars
  <2>1. UNCHANGED <<config, kube, local, cloud, faults>>
    BY <1>4 DEF vars, kube, local
  <2>2. CloudOK' /\ FaultsOK'
    BY <2>1, CloudStays, Known DEF FaultsOK
  <2> QED BY <2>1, <2>2, CloudMoves
<1> QED BY <1>1, <1>2, <1>3, <1>4 DEF Next

(* In all reachable states the copies of the object agree about whether it *)
(* is to be deleted, the scripts do what their phase is for, and what is   *)
(* the user's stands, recorded only under the names it is looked for.      *)
THEOREM Invariant == Spec => []IInv
<1>1. Init => IInv
  BY InitHolds
<1>2. IInv /\ [Next]_vars => IInv'
  BY NextKeeps
<1> QED BY <1>1, <1>2, PTL DEF Spec

(* Everything is of its type, and a script that has been cut short leaves  *)
(* nothing behind.                                                         *)
THEOREM TypeCorrect == Spec => []TypeOK
<1>1. IInv => TypeOK
  BY DEF IInv
<1> QED BY <1>1, Invariant, PTL

-----------------------------------------------------------------------------
(* What is deleted.                                                        *)

LEMMA ConfigStays ==
  ASSUME [Next]_vars
  PROVE  config' = config
<1>1. CASE Script
  <2>1. CASE MakeRefused \/ SetRefused \/ DeleteRefused \/ CallFails
    BY <2>1 DEF MakeRefused, SetRefused, DeleteRefused, CallFails, Refused, Fails,
                PhaseFails, Wait, Halt, PassOver, Keeping
  <2>2. CASE MakeCall \/ FindCall
    <3>1. \E ids : Proceed(ids)
      BY <2>2 DEF MakeCall, FindCall
    <3> QED BY <3>1 DEF Proceed, Keeping
  <2>3. CASE \/ SetCall \/ DeleteCall \/ AwaitCall \/ DetachCall \/ SweepCall \/ SweepHeldUp
             \/ ClearStep
    <3>1. Proceed(made) \/ Halt
      BY <2>3 DEF SetCall, DeleteCall, AwaitCall, DetachCall, SweepCall, SweepHeldUp, ClearStep, Wait
    <3> QED BY <3>1 DEF Proceed, Halt, Keeping
  <2> QED BY <1>1, <2>1, <2>2, <2>3 DEF Script
<1>2. CASE Reconcile /\ ~Script
  BY <1>2 DEF Reconcile, BeginSync, BeginDeletion, ReadObject, AddFinalizer, BeginPhase,
     EndPhase, EndDeletion, Check, CheckFails, PhaseFails, WriteStatus, RemoveFinalizer,
     WritesBack, WriteFails, Keeping
<1>3. CASE Environment
  BY <1>3 DEF Environment, Crash, SyncCache, RequestDelete, CloudStep, FailToStart, Expose
<1>4. CASE UNCHANGED vars
  BY <1>4 DEF vars
<1> QED BY <1>1, <1>2, <1>3, <1>4 DEF Next

LEMMA LiveStays ==
  ASSUME IInv, [Next]_vars, ~DeleteCall, ~SweepCall, ~SweepHeldUp
  PROVE  Live \subseteq Live'
<1>1. cloud \in [Ids -> ResourceType]
  BY Known DEF CloudOK
<1>2. CASE UNCHANGED cloud
  BY <1>2 DEF Live
<1>3. CASE \E i \in Fresh : \E new : /\ cloud' = [cloud EXCEPT ![i] = new]
  <2>1. PICK i \in Fresh : \E new : cloud' = [cloud EXCEPT ![i] = new]
    BY <1>3
  <2>2. cloud[i].state = "none"
    BY DEF Fresh, Unused
  <2>3. \A j \in Live : cloud'[j] = cloud[j]
    BY <1>1, <2>1, <2>2 DEF Live
  <2> QED BY <2>3 DEF Live
<1>4. CASE SetCall \/ DetachCall
  <2>1. PICK i, more, fewer :
          /\ i = Target /\ more = cloud[i].settings \cup {Head(todo).setting}
          /\ fewer = cloud[i].settings \ {Head(todo).setting}
    OBVIOUS
  <2>2. \/ UNCHANGED cloud
        \/ cloud' = [cloud EXCEPT ![i] = [cloud[i] EXCEPT !.settings = more]]
        \/ cloud' = [cloud EXCEPT ![i] = [cloud[i] EXCEPT !.settings = fewer]]
    BY <1>4, <2>1 DEF SetCall, DetachCall
  <2>3. ASSUME NEW j \in Ids
        PROVE  cloud'[j].state = cloud[j].state
    <3>1. PICK old \in ResourceType : old = cloud[j]
      BY <1>1
    <3>2. cloud'[j] = old \/ cloud'[j] = [old EXCEPT !.settings = more]
            \/ cloud'[j] = [old EXCEPT !.settings = fewer]
      BY <1>1, <2>2, <3>1
    <3> QED BY <3>1, <3>2 DEF ResourceType
  <2> QED BY <2>3 DEF Live
<1>5. ASSUME NEW i \in Ids, CloudStep(i) \/ FailToStart(i)
      PROVE  Live \subseteq Live'
  <2>1. /\ \A j \in Ids \ {i} : cloud'[j] = cloud[j]
        /\ cloud[i].state = "pending" => cloud'[i].state \in {"available", "failed"}
        /\ cloud[i].state \in {"pending", "deleting"}
    BY <1>1, <1>5 DEF CloudStep, FailToStart, ResourceType
  <2> QED BY <2>1 DEF Live
<1>6. CASE Script
  <2>1. CASE MakeCall
    <3>1. UNCHANGED cloud \/ \E i \in Fresh : \E new : cloud' = [cloud EXCEPT ![i] = new]
      BY <2>1 DEF MakeCall
    <3> QED BY <1>2, <1>3, <3>1
  <2>2. CASE MakeRefused \/ SetRefused \/ DeleteRefused \/ CallFails
    BY <1>2, <2>2 DEF MakeRefused, SetRefused, DeleteRefused, CallFails, Refused, Fails,
                      PhaseFails, Wait, Halt, PassOver
  <2>3. CASE FindCall \/ AwaitCall \/ ClearStep
    BY <1>2, <2>3 DEF FindCall, AwaitCall, ClearStep, Unaltered, Wait, Halt
  <2> QED BY <1>4, <1>6, <2>1, <2>2, <2>3 DEF Script
<1>7. CASE Reconcile /\ ~Script
  BY <1>2, <1>7 DEF Reconcile, BeginSync, BeginDeletion, ReadObject, AddFinalizer, BeginPhase,
     EndPhase, EndDeletion, Check, CheckFails, PhaseFails, WriteStatus, RemoveFinalizer,
     WritesBack, WriteFails
<1>8. CASE Environment
  <2>1. CASE Crash \/ SyncCache \/ RequestDelete
    BY <1>2, <2>1 DEF Crash, SyncCache, RequestDelete
  <2>2. ASSUME NEW i \in Ids, Expose(i)
        PROVE  Live \subseteq Live'
    BY <1>3, <2>2 DEF Expose
  <2> QED BY <1>5, <1>8, <2>1, <2>2 DEF Environment
<1>9. CASE UNCHANGED vars
  BY <1>2, <1>9 DEF vars
<1> QED BY <1>6, <1>7, <1>8, <1>9 DEF Next

(* Nothing is deleted before the user has deleted the object, or if the    *)
(* policy is to keep it; and nothing of the user's ever.                   *)
THEOREM DeletedOnlyAsked == Spec => NothingDeletedUnasked
<1> DEFINE deleted == Live \ Live'
           Rightly == /\ deleted \cap Foreign = {}
                      /\ deleted # {} =>
                           config.policy = "Delete" /\ (object.deleting \/ ~object.exists)
<1>1. IInv /\ IInv' /\ [Next]_vars => [Rightly]_vars
  <2> SUFFICES ASSUME IInv, IInv', [Next]_vars PROVE Rightly
    OBVIOUS
  <2>1. config' = config
    BY ConfigStays
  <2>2. deleted \cap Foreign = {}
    <3>1. \A i \in Foreign : i \in Ids /\ cloud'[i].state = "available"
      BY <2>1, Known, ForeignFacts, ConfigKeeps DEF IInv, ForeignStand
    <3> QED BY <3>1 DEF Live
  <2>3. CASE DeleteCall \/ SweepCall \/ SweepHeldUp
    <3>1. todo # <<>> /\ Head(todo).op \in {"delete", "sweep"}
      BY <2>3 DEF DeleteCall, SweepCall, SweepHeldUp, Running
    <3>2. work.deleting /\ config.policy # "Retain"
      BY <3>1, HeadFacts DEF MakingSteps
    <3>3. config.policy \in {"Delete", "Retain"}
      BY Known, SetupAssumption
    <3>4. object.deleting \/ ~object.exists
      BY <3>2 DEF IInv, Copies, Asked
    <3> QED BY <2>2, <3>2, <3>3, <3>4
  <2>4. CASE ~DeleteCall /\ ~SweepCall /\ ~SweepHeldUp
    BY <2>2, <2>4, LiveStays
  <2> QED BY <2>3, <2>4
<1>2. [][Rightly]_vars <=> NothingDeletedUnasked
  BY DEF NothingDeletedUnasked
<1> HIDE DEF deleted, Rightly
<1> QED BY <1>1, <1>2, Invariant, PTL DEF Spec

-----------------------------------------------------------------------------
(* What is so as long as nobody asks for the deletion.                     *)

(* The names of the parts, one by one.                                     *)
LEMMA Named ==
  /\ Each(Public) = {"public1", "public2"} /\ Each(Private) = {"private1", "private2"}
  /\ Each(NAT) = {"nat1", "nat2"} /\ Each(Eip) = {"eip1", "eip2"}
  /\ Each(PrivateRT) = {"privateRT1", "privateRT2"}
  /\ Subnets = {"public1", "public2", "private1", "private2"}
  /\ Tables = {"publicRT", "privateRT1", "privateRT2"}
  /\ Roles = {"clusterRole", "nodeRole"} /\ Groups = {"clusterSG", "nodeSG"}
  /\ Parts = {"clusterRole", "nodeRole", "vpc", "igw", "public1", "public2", "private1", "private2",
              "eip1", "eip2", "nat1", "nat2", "publicRT", "privateRT1", "privateRT2",
              "clusterSG", "nodeSG", "cluster", "pool", "addon"}
<1>1. /\ Each(Public) = {"public1", "public2"} /\ Each(Private) = {"private1", "private2"}
      /\ Each(NAT) = {"nat1", "nat2"} /\ Each(Eip) = {"eip1", "eip2"}
      /\ Each(PrivateRT) = {"privateRT1", "privateRT2"}
  BY DEF Each, Zones, Public, Private, Eip, NAT, PrivateRT
<1>2. /\ Subnets = {"public1", "public2", "private1", "private2"}
      /\ Tables = {"publicRT", "privateRT1", "privateRT2"}
  BY <1>1 DEF Subnets, Tables
<1>3. Roles = {"clusterRole", "nodeRole"} /\ Groups = {"clusterSG", "nodeSG"}
  BY DEF Roles, Groups
<1>4. Parts = {"clusterRole", "nodeRole", "vpc", "igw", "public1", "public2", "private1", "private2",
              "eip1", "eip2", "nat1", "nat2", "publicRT", "privateRT1", "privateRT2",
              "clusterSG", "nodeSG", "cluster", "pool", "addon"}
  BY <1>1, <1>2, <1>3 DEF Parts
<1> QED BY <1>1, <1>2, <1>3, <1>4

(* What belongs to the parts.                                              *)
SettingsKnown ==
  /\ OwnVpc => Settings("vpc") = {"hostnames", "support"}
  /\ ~OwnVpc => Settings("vpc") = {}
  /\ Settings("igw") = {"attachment"}
  /\ \A part \in Each(Public) : /\ OwnSubnets => Settings(part) = {"publicIp"}
                                /\ ~OwnSubnets => Settings(part) = {}
  /\ \A part \in Tables : Settings(part) = {"route", "association"}
  /\ Settings("nodeSG") = {"nodes", "cluster"}
  /\ \A part \in Roles : /\ faults = 0 => Settings(part) = {"policies"}
                         /\ faults # 0 => Settings(part) = {}
  /\ \A part \in Each(Private) \cup Each(Eip) \cup Each(NAT)
                   \cup {"clusterSG", "cluster", "pool", "addon"} : Settings(part) = {}

LEMMA SettingsOf == SettingsKnown
<1> DEFINE a(part) == part = "vpc" /\ OwnVpc
           b(part) == part = "igw"
           c(part) == part \in Each(Public) /\ OwnSubnets
           d(part) == part \in Tables
           e(part) == part = "nodeSG"
           f(part) == part \in Roles /\ faults = 0
<1>1. ASSUME NEW part
      PROVE  /\ a(part) /\ ~b(part) /\ ~c(part) /\ ~d(part) /\ ~e(part) /\ ~f(part)
                  => Settings(part) = {"hostnames", "support"}
             /\ b(part) /\ ~a(part) /\ ~c(part) /\ ~d(part) /\ ~e(part) /\ ~f(part)
                  => Settings(part) = {"attachment"}
             /\ c(part) /\ ~a(part) /\ ~b(part) /\ ~d(part) /\ ~e(part) /\ ~f(part)
                  => Settings(part) = {"publicIp"}
             /\ d(part) /\ ~a(part) /\ ~b(part) /\ ~c(part) /\ ~e(part) /\ ~f(part)
                  => Settings(part) = {"route", "association"}
             /\ e(part) /\ ~a(part) /\ ~b(part) /\ ~c(part) /\ ~d(part) /\ ~f(part)
                  => Settings(part) = {"nodes", "cluster"}
             /\ f(part) /\ ~a(part) /\ ~b(part) /\ ~c(part) /\ ~d(part) /\ ~e(part)
                  => Settings(part) = {"policies"}
             /\ ~a(part) /\ ~b(part) /\ ~c(part) /\ ~d(part) /\ ~e(part) /\ ~f(part)
                  => Settings(part) = {}
  BY Zenon DEF Settings
<1>2. ASSUME NEW part \in Parts
      PROVE  /\ part = "vpc" => ~b(part) /\ ~c(part) /\ ~d(part) /\ ~e(part) /\ ~f(part)
             /\ part = "igw" => ~a(part) /\ ~c(part) /\ ~d(part) /\ ~e(part) /\ ~f(part)
             /\ part \in Each(Public) => ~a(part) /\ ~b(part) /\ ~d(part) /\ ~e(part) /\ ~f(part)
             /\ part \in Tables => ~a(part) /\ ~b(part) /\ ~c(part) /\ ~e(part) /\ ~f(part)
             /\ part = "nodeSG" => ~a(part) /\ ~b(part) /\ ~c(part) /\ ~d(part) /\ ~f(part)
             /\ part \in Roles => ~a(part) /\ ~b(part) /\ ~c(part) /\ ~d(part) /\ ~e(part)
             /\ part \in Each(Private) \cup Each(Eip) \cup Each(NAT)
                           \cup {"clusterSG", "cluster", "pool", "addon"} =>
                  ~a(part) /\ ~b(part) /\ ~c(part) /\ ~d(part) /\ ~e(part) /\ ~f(part)
  BY Named
<1>3. /\ {"vpc", "igw", "nodeSG", "clusterSG", "cluster", "pool", "addon"} \subseteq Parts
      /\ Each(Public) \cup Tables \cup Roles \cup Each(Private) \cup Each(Eip) \cup Each(NAT) \subseteq Parts
  BY Named
<1>4. (OwnVpc => a("vpc")) /\ (~OwnVpc => ~a("vpc")) /\ b("igw") /\ e("nodeSG")
      /\ (\A part \in Each(Public) : OwnSubnets <=> c(part)) /\ (\A part \in Tables : d(part))
      /\ \A part \in Roles : faults = 0 <=> f(part)
  OBVIOUS
<1> HIDE DEF a, b, c, d, e, f
<1> QED BY <1>1, <1>2, <1>3, <1>4, Zenon DEF SettingsKnown

LEMMA SettingsOfNext == SettingsKnown'
BY SettingsOf, PTL

(* Nothing is taken away, and no failure is forgotten.                     *)
Grows ==
  /\ UNCHANGED config /\ (faults' = 0 => faults = 0) /\ (Fresh' # {} => Fresh # {})
  /\ \A i \in Live : /\ i \in Live' /\ cloud'[i].part = cloud[i].part
                     /\ cloud[i].settings \subseteq cloud'[i].settings

LEMMA DemandsKeep ==
  ASSUME Grows
  PROVE  /\ Kept' = Kept /\ Foreign' = Foreign /\ Wanted' = Wanted /\ Needed' = Needed
         /\ (Undisturbed' => Undisturbed) /\ Promised' \subseteq Promised
         /\ \A part \in Parts : Settings(part)' \subseteq Settings(part)
<1>1. config' = config /\ (faults' = 0 => faults = 0) /\ (Fresh' # {} => Fresh # {})
  BY DEF Grows
<1>2. Kept' = Kept /\ Foreign' = Foreign
  BY <1>1, ConfigKeeps
<1>3. Wanted' = Wanted /\ Needed' = Needed
  BY <1>1 DEF Wanted, Needed
<1>4. Undisturbed' => Undisturbed
  BY <1>1 DEF Undisturbed
<1>5. Promised' \subseteq Promised
  BY <1>3, <1>4 DEF Promised
<1>6. (OwnVpc' <=> OwnVpc) /\ (OwnSubnets' <=> OwnSubnets)
  BY <1>1 DEF OwnVpc, OwnSubnets
<1>7. ASSUME NEW part \in Parts
      PROVE  Settings(part)' \subseteq Settings(part)
  <2>1. CASE part = "vpc"
    BY <1>6, <2>1, SettingsOf, SettingsOfNext DEF SettingsKnown
  <2>2. CASE part \in {"igw", "nodeSG"} \cup Tables
    BY <2>2, SettingsOf, SettingsOfNext DEF SettingsKnown
  <2>3. CASE part \in Each(Public)
    BY <1>6, <2>3, SettingsOf, SettingsOfNext DEF SettingsKnown
  <2>4. CASE part \in Roles
    BY <1>1, <2>4, SettingsOf, SettingsOfNext DEF SettingsKnown
  <2>5. CASE part \in Each(Private) \cup Each(Eip) \cup Each(NAT)
                        \cup {"clusterSG", "cluster", "pool", "addon"}
    BY <2>5, SettingsOf, SettingsOfNext DEF SettingsKnown
  <2> QED BY <2>1, <2>2, <2>3, <2>4, <2>5, Named
<1> QED BY <1>2, <1>3, <1>4, <1>5, <1>7

LEMMA HeldStays ==
  ASSUME Grows, NEW ids \in RecordType, Held(ids)
  PROVE  Held(ids)'
BY DemandsKeep DEF Held, Grows, NoPart

LEMMA EquippedStays ==
  ASSUME Grows, NEW rec \in RecordType, NEW pending, Held(rec), Equipped(rec, pending)
  PROVE  Equipped(rec, pending)'
BY DemandsKeep DEF Held, Equipped, Grows, NoPart

LEMMA InOrderStays ==
  ASSUME Grows, NEW rec \in RecordType, NEW coming, InOrder(rec, coming)
  PROVE  InOrder(rec, coming)'
BY DemandsKeep DEF InOrder, Complete, NoPart

LEMMA WholeStays ==
  ASSUME Grows, NEW o \in ObjectType, NEW pending, NEW coming, Whole(o, pending, coming)
  PROVE  Whole(o, pending, coming)'
<1>1. o.rec \in RecordType
  BY DEF ObjectType
<1>2. PICK rec \in RecordType : rec = o.rec
  BY <1>1
<1>3. Held(rec)' /\ Equipped(rec, pending)' /\ InOrder(rec, coming)'
  BY <1>2, HeldStays, EquippedStays, InOrderStays DEF Whole
<1>4. Reached(o)'
  BY DemandsKeep DEF Whole, Reached, NoPart
<1> QED BY <1>2, <1>3, <1>4 DEF Whole


LEMMA OrderlyStays ==
  ASSUME Grows, UNCHANGED <<made, work>>, made \in RecordType, Held(made),
         NEW s \in Seq(MakingSteps), Orderly(s)
  PROVE  Orderly(s)'
<1> SUFFICES ASSUME NEW k \in 1..Len(s)
             PROVE  /\ MakesOnce(s, k)' /\ SetsMade(s, k)' /\ RecordsMade(s, k)'
                    /\ InTurn(s, k)' /\ Insists(s, k)'
  BY DEF Orderly
<1>1. MakesOnce(s, k) /\ SetsMade(s, k) /\ RecordsMade(s, k) /\ InTurn(s, k) /\ Insists(s, k)
  BY DEF Orderly
<1>2. s[k] \in MakingSteps /\ s[k].records \subseteq Parts
  <2>1. s[k] \in MakingSteps
    OBVIOUS
  <2> QED BY <2>1 DEF MakingSteps, Steps
<1>3. \A part : HasMade(s, k, part) => HasMade(s, k, part)'
  BY DEF HasMade, Before
<1>4. MakesOnce(s, k)' /\ SetsMade(s, k)' /\ InTurn(s, k)' /\ Insists(s, k)'
  BY <1>1, <1>3 DEF MakesOnce, SetsMade, InTurn, Insists, Recorded1st
<1>5. \A part \in Parts : \A setting : Equips(s, k, part, setting) => Equips(s, k, part, setting)'
  BY DEF Equips, Held, NoPart, Grows
<1>6. RecordsMade(s, k)'
  BY <1>1, <1>2, <1>3, <1>5, DemandsKeep DEF RecordsMade
<1> QED BY <1>4, <1>6

LEMMA DoingStays ==
  ASSUME IInv, Doing, ~work.deleting, Grows, UNCHANGED <<pc, work, todo, made>>
  PROVE  Doing'
<1>1. /\ work \in ObjectType /\ made \in RecordType
      /\ todo \in Seq(MakingSteps) \cup FindingScripts
  BY Known DEF AtPc
<1>2. Pending' = Pending /\ Coming(todo)' = Coming(todo) /\ FindingScripts' = FindingScripts
  BY ConfigKeeps DEF Pending, Coming, Grows
<1>3. Whole(work, Pending, Coming(todo))'
  <2>1. PICK o \in ObjectType : o = work
    BY <1>1
  <2>2. PICK pending, coming : pending = Pending /\ coming = Coming(todo)
    OBVIOUS
  <2>3. Whole(o, pending, coming)'
    BY <2>1, <2>2, WholeStays DEF Doing
  <2> QED BY <1>2, <2>1, <2>2, <2>3
<1>4. Held(made)'
  <2>1. PICK ids \in RecordType : ids = made
    BY <1>1
  <2>2. Held(ids)'
    BY <2>1, HeldStays DEF Doing
  <2> QED BY <2>1, <2>2
<1>5. IF todo' \in FindingScripts' THEN made' = NoRecord ELSE Orderly(todo)'
  <2>1. CASE todo \in FindingScripts
    BY <1>2, <2>1 DEF Doing, Scripted
  <2>2. CASE todo \notin FindingScripts
    <3>1. PICK s \in Seq(MakingSteps) : s = todo
      BY <1>1, <2>2
    <3>2. Orderly(s)'
      BY <1>1, <2>2, <3>1, OrderlyStays DEF Doing, Scripted
    <3> QED BY <1>2, <2>2, <3>1, <3>2
  <2> QED BY <2>1, <2>2
<1>6. (Undisturbed \/ pc = "run" => Accounted)'
  BY <1>2, DemandsKeep DEF Doing, Scripted, Accounted, NoPart
<1>7. Following'
  BY <1>2, DemandsKeep DEF Doing, Scripted, Following, NoPart
<1> QED BY <1>3, <1>4, <1>5, <1>6, <1>7 DEF Doing, Scripted

(* There is a first one among the vacant ids.                              *)
LEMMA Smallest ==
  ASSUME NEW S, S \subseteq Nat, S # {}
  PROVE  \E n \in S : \A m \in S : n <= m
<1>1. PICK n \in S : \A m \in S : <<m, n>> \notin OpToRel(<, Nat)
  BY NatLessThanWellFounded, WFMin
<1>2. \A m \in S : ~(m < n)
  BY <1>1, Zenon DEF OpToRel
<1> QED BY <1>2

LEMMA VacantFirst ==
  IInv => (Fresh # {} <=> Unused # {}) /\ Fresh \subseteq Unused /\ Unused \subseteq Ids
<1> SUFFICES ASSUME IInv
             PROVE  (Fresh # {} <=> Unused # {}) /\ Fresh \subseteq Unused /\ Unused \subseteq Ids
  OBVIOUS
<1>1. config.quota \in 3..MaxId
  BY Known, SetupAssumption
<1>2. Unused \subseteq Nat /\ Unused \subseteq Ids
  BY <1>1, BoundsAssumption DEF Unused, Ids
<1>3. PICK S : S = Unused
  OBVIOUS
<1>4. S # {} => \E n \in S : \A m \in S : n <= m
  BY <1>2, <1>3, Smallest
<1> QED BY <1>2, <1>3, <1>4 DEF Fresh, Unused

(* One resource is made, or changes for the better.                        *)
LEMMA OneGrows ==
  ASSUME IInv, IInv', UNCHANGED config, faults' = 0 => faults = 0,
         NEW i \in Ids, NEW new, cloud' = [cloud EXCEPT ![i] = new], new.state # "none",
         cloud[i].state # "none" =>
           /\ i \in Live => new.state \in {"pending", "available", "failed"}
           /\ new.part = cloud[i].part /\ cloud[i].settings \subseteq new.settings
  PROVE  /\ Grows /\ \A j \in Ids : cloud'[j] = IF j = i THEN new ELSE cloud[j]
<1>1. cloud \in [Ids -> ResourceType]
  BY Known DEF CloudOK
<1>2. \A j \in Ids : cloud'[j] = IF j = i THEN new ELSE cloud[j]
  BY <1>1
<1>3. (IInv => (Fresh # {} <=> Unused # {}) /\ Fresh \subseteq Unused /\ Unused \subseteq Ids)'
  BY VacantFirst, PTL
<1>4. Unused' \subseteq Unused
  <2>1. config' = config
    OBVIOUS
  <2> QED BY <1>2, <1>3, <2>1, VacantFirst DEF Unused
<1>5. Fresh' # {} => Fresh # {}
  BY <1>3, <1>4, VacantFirst
<1>6. \A j \in Live : /\ j \in Live' /\ cloud'[j].part = cloud[j].part
                      /\ cloud[j].settings \subseteq cloud'[j].settings
  BY <1>2 DEF Live
<1> QED BY <1>2, <1>5, <1>6 DEF Grows

LEMMA NoneGrows ==
  ASSUME UNCHANGED <<config, cloud>>, faults' = 0 => faults = 0
  PROVE  Grows
BY DEF Grows, Live, Fresh, Unused

-----------------------------------------------------------------------------
(* As long as nobody has asked for the deletion.                           *)

LEMMA Unasked ==
  ASSUME IInv, RInv, ~Asked
  PROVE  /\ Sure /\ ~work.deleting /\ ~cache.deleting /\ object.exists /\ ~object.deleting
         /\ todo \in Seq(MakingSteps) \cup FindingScripts
         /\ Described = Live
<1>1. Sure /\ ~work.deleting /\ ~cache.deleting /\ object.exists /\ ~object.deleting
  BY DEF RInv, IInv, Copies, Asked
<1>2. Described = Live
  BY <1>1 DEF Sure, Described
<1> QED BY <1>1, <1>2, Known DEF AtPc

LEMMA ObjectsStay ==
  ASSUME IInv, Sure, Grows, UNCHANGED <<object, cache>>
  PROVE  Whole(object, {}, {})' /\ Whole(cache, {}, {})'
<1>1. PICK o \in ObjectType, c \in ObjectType : o = object /\ c = cache
  BY DEF IInv, TypeOK
<1>2. Whole(o, {}, {})' /\ Whole(c, {}, {})'
  BY <1>1, WholeStays DEF Sure
<1> QED BY <1>1, <1>2

LEMMA CloudStepSure ==
  ASSUME IInv, IInv', RInv, NEW i \in Ids, CloudStep(i) \/ FailToStart(i) \/ Expose(i)
  PROVE  RInv'
<1>1. UNCHANGED <<config, object, cache, cacheFresh, pc, work, workFresh, todo, made>>
  BY DEF CloudStep, FailToStart, Expose, kube, local
<1>2. faults' = 0 => faults = 0 /\ UNCHANGED faults
  BY Known, BoundsAssumption DEF CloudStep, FailToStart, Expose, Fault, FaultsOK
<1>3. cloud \in [Ids -> ResourceType]
  BY Known DEF CloudOK
<1> SUFFICES ASSUME ~Asked
             PROVE  Sure'
  BY <1>1 DEF RInv, Asked
<1>4. Sure /\ ~work.deleting
  BY Unasked
<1>5. /\ Grows
      /\ \A j \in Ids : cloud'[j].state \notin {"deleting", "gone"}
      /\ \A j \in Ids : cloud'[j].part # "balancer" => cloud'[j].part = cloud[j].part /\ (j \in Live' => j \in Live)
  <2>1. CASE CloudStep(i) \/ FailToStart(i)
    <3>1. PICK old \in ResourceType : old = cloud[i]
      BY <1>3
    <3>2. PICK state \in {"available", "failed"} :
            cloud' = [cloud EXCEPT ![i] = [old EXCEPT !.state = state]]
      <4>1. cloud[i].state \notin {"deleting", "gone"}
        BY <1>4 DEF Sure
      <4>2. CASE CloudStep(i)
        <5>1. cloud[i].state = "pending"
          BY <4>1, <4>2 DEF CloudStep
        <5>2. cloud' = [cloud EXCEPT ![i].state = IF cloud[i].state = "pending" THEN "available" ELSE "gone"]
          BY <4>2 DEF CloudStep
        <5>3. cloud' = [cloud EXCEPT ![i] = [cloud[i] EXCEPT !.state = "available"]]
          BY <5>1, <5>2
        <5> QED BY <3>1, <5>3
      <4>3. CASE FailToStart(i)
        <5>1. cloud' = [cloud EXCEPT ![i] = [cloud[i] EXCEPT !.state = "failed"]]
          BY <4>3 DEF FailToStart
        <5> QED BY <3>1, <5>1
      <4> QED BY <2>1, <4>2, <4>3
    <3>3. PICK new : new = [old EXCEPT !.state = state]
      OBVIOUS
    <3>4. new.state = state /\ new.part = old.part /\ new.settings = old.settings
      BY <3>3 DEF ResourceType
    <3>5. Grows /\ \A j \in Ids : cloud'[j] = IF j = i THEN new ELSE cloud[j]
      <4>1. cloud' = [cloud EXCEPT ![i] = new] /\ new.state \in {"available", "failed"}
        BY <3>2, <3>3, <3>4
      <4> QED BY <1>1, <1>2, <3>1, <3>4, <4>1, OneGrows
    <3>6. cloud[i].state = "pending"
      BY <1>4, <2>1 DEF CloudStep, FailToStart, Sure
    <3>7. i \in Live
      BY <3>6 DEF Live
    <3>8. \A j \in Ids : cloud'[j].state \notin {"deleting", "gone"}
      BY <1>4, <3>4, <3>5 DEF Sure
    <3>9. \A j \in Ids : cloud'[j].part = cloud[j].part /\ (j \in Live' => j \in Live)
      BY <3>1, <3>4, <3>5, <3>7 DEF Live
    <3> QED BY <3>5, <3>8, <3>9
  <2>2. CASE Expose(i)
    <3>1. PICK j \in Ids :
            /\ cloud[j].state = "none"
            /\ cloud' = [cloud EXCEPT ![j] = Resource("available", "balancer", {}, cloud[i].network, None)]
      BY <2>2, VacantFirst DEF Expose, Fresh, Unused
    <3>2. j \in Ids /\ cloud[j].state = "none"
      BY <3>1
    <3>3. PICK new : new = Resource("available", "balancer", {}, cloud[i].network, None)
      OBVIOUS
    <3>4. new.state = "available" /\ new.part = "balancer"
      BY <3>3 DEF Resource
    <3>5. j \notin Live
      BY <3>2 DEF Live
    <3>6. Grows /\ \A k \in Ids : cloud'[k] = IF k = j THEN new ELSE cloud[k]
      <4>1. cloud' = [cloud EXCEPT ![j] = new] /\ j \in Ids /\ new.state # "none"
        BY <3>1, <3>2, <3>3, <3>4
      <4>2. config' = config /\ (faults' = 0 => faults = 0)
        BY <1>1, <1>2
      <4>3. cloud[j].state # "none" =>
              /\ j \in Live => new.state \in {"pending", "available", "failed"}
              /\ new.part = cloud[j].part /\ cloud[j].settings \subseteq new.settings
        BY <3>2
      <4> QED BY <4>1, <4>2, <4>3, OneGrows, Zenon
    <3>7. \A k \in Ids : cloud'[k].state \notin {"deleting", "gone"}
      BY <1>4, <3>4, <3>6 DEF Sure
    <3>8. \A k \in Ids : cloud'[k].part # "balancer" => cloud'[k] = cloud[k]
      BY <3>4, <3>6
    <3> QED BY <3>6, <3>7, <3>8 DEF Live
  <2> QED BY <2>1, <2>2
<1>6. Whole(object, {}, {})' /\ Whole(cache, {}, {})' /\ Doing'
  BY <1>1, <1>4, <1>5, ObjectsStay, DoingStays DEF Sure
<1>7. (Undisturbed => UpToDate)'
  <2>1. Foreign' = Foreign /\ (Undisturbed' => Undisturbed)
    BY <1>5, DemandsKeep
  <2> QED BY <1>1, <1>4, <1>5, <2>1 DEF Sure, UpToDate, Carried, InHand, Ours, Live
<1> QED BY <1>1, <1>2, <1>4, <1>5, <1>6, <1>7 DEF Sure

LEMMA RankOf ==
  /\ Rank("") = 0 /\ Rank("Pending") = 0 /\ Rank("Failed") = 0
  /\ Rank("CreatingIAMRoles") = 1 /\ Rank("CreatingVPC") = 2 /\ Rank("WaitingVPC") = 3
  /\ Rank("CreatingIGW") = 4 /\ Rank("CreatingSubnets") = 5 /\ Rank("WaitingSubnets") = 6
  /\ Rank("CreatingNATGateway") = 7 /\ Rank("WaitingNATGateway") = 8
  /\ Rank("CreatingRouteTables") = 9 /\ Rank("CreatingSecGroups") = 10
  /\ Rank("CreatingCluster") = 11 /\ Rank("WaitingCluster") = 12
  /\ Rank("CreatingNodePools") = 13 /\ Rank("WaitingNodePools") = 14
  /\ Rank("InstallingAddons") = 15 /\ Rank("WaitingAddons") = 16 /\ Rank("Ready") = 17
<1>1. DOMAIN Ranks =
        {"CreatingIAMRoles", "CreatingVPC", "WaitingVPC", "CreatingIGW", "CreatingSubnets",
         "WaitingSubnets", "CreatingNATGateway", "WaitingNATGateway", "CreatingRouteTables",
         "CreatingSecGroups", "CreatingCluster", "WaitingCluster", "CreatingNodePools",
         "WaitingNodePools", "InstallingAddons", "WaitingAddons", "Ready"}
  BY DEF Ranks
<1> QED BY <1>1 DEF Rank, Ranks

LEMMA RankPositive == \A phase \in Creating : Rank(phase) \in 1..15
<1>1. PICK r : r = [phase \in Creating |-> Rank(phase)]
  OBVIOUS
<1>2. \A phase \in Creating : r[phase] \in 1..15
  <2>1. /\ r["CreatingIAMRoles"] = 1 /\ r["CreatingVPC"] = 2 /\ r["CreatingIGW"] = 4
        /\ r["CreatingSubnets"] = 5 /\ r["CreatingNATGateway"] = 7 /\ r["CreatingRouteTables"] = 9
        /\ r["CreatingSecGroups"] = 10 /\ r["CreatingCluster"] = 11
        /\ r["CreatingNodePools"] = 13 /\ r["InstallingAddons"] = 15
    BY <1>1, RankOf DEF Creating
  <2> QED BY <2>1 DEF Creating
<1> QED BY <1>1, <1>2

(* Without any record, and before the first phase, all is well.            *)
LEMMA NothingYet ==
  ASSUME NEW o, o.rec = NoRecord, Rank(o.phase) = 0, ~o.ready, NEW pending
  PROVE  Whole(o, pending, {})
<1>1. \A part \in Parts : NoRecord[part] = None
  BY DEF NoRecord
<1>2. {"nat1", "nat2", "publicRT"} \cup Each(PrivateRT) \cup Each(Eip) \subseteq Parts
  BY Named
<1>3. Held(o.rec) /\ Equipped(o.rec, pending)
  BY <1>1 DEF Held, Equipped, NoPart
<1>4. InOrder(o.rec, {})
  <2>1. \A z \in Zones : Eip[z] \in Parts
    BY <1>2 DEF Each
  <2> QED BY <1>1, <1>2, <2>1 DEF InOrder, Complete
<1>5. Reached(o)
  BY RankPositive DEF Reached
<1> QED BY <1>3, <1>4, <1>5 DEF Whole

LEMMA GoneNow ==
  /\ Gone.rec = NoRecord /\ Rank(Gone.phase) = 0 /\ ~Gone.ready /\ ~Gone.exists
  /\ Coming(<<>>) = {} /\ Orderly(<<>>)
<1>1. Gone.rec = NoRecord /\ Rank(Gone.phase) = 0 /\ ~Gone.ready /\ ~Gone.exists
  BY RankOf DEF Gone, Object
<1>2. 1..Len(<<>>) = {}
  OBVIOUS
<1> QED BY <1>1, <1>2 DEF Coming, Orderly

(* Between two Reconciles there is nothing to be done.                     *)
Idling == config \in Setups /\ pc = "idle" /\ work = Gone /\ todo = <<>> /\ made = NoRecord

LEMMA NothingDoing == Idling => Doing
<1> SUFFICES ASSUME Idling PROVE Doing
  OBVIOUS
<1>1. Whole(work, Pending, Coming(todo))
  <2>1. PICK o, pending : o = work /\ pending = Pending
    OBVIOUS
  <2>2. Whole(o, pending, {})
    BY <2>1, GoneNow, NothingYet DEF Idling
  <2> QED BY <2>1, <2>2, GoneNow DEF Idling
<1>2. \A part \in Parts : made[part] = None
  BY DEF Idling, NoRecord
<1>3. Held(made) /\ Accounted /\ Following
  BY <1>2 DEF Held, Accounted, NoPart, Following, Idling
<1>4. todo \notin FindingScripts
  <2>1. PICK s : s = todo
    OBVIOUS
  <2>2. s \in FindingScripts => s # <<>>
    BY FindingTypes DEF Idling
  <2> QED BY <2>1, <2>2 DEF Idling
<1>5. Scripted
  BY <1>3, <1>4, GoneNow DEF Scripted, Idling
<1> QED BY <1>1, <1>3, <1>5 DEF Doing

LEMMA NothingDoingNext == Idling' => Doing'
BY NothingDoing, PTL

(* Reconcile ends, and has written nothing, after a failure.               *)
LEMMA ReturnSure ==
  ASSUME IInv, RInv, Return, UNCHANGED <<config, object, cache, cloud>>, faults' # 0
  PROVE  RInv'
<1> SUFFICES ASSUME ~Asked
             PROVE  Sure'
  BY DEF RInv, Asked, Return
<1>1. Sure /\ config \in Setups
  BY Unasked, Known
<1>2. Grows
  BY NoneGrows
<1>3. Doing'
  BY <1>1, NothingDoingNext DEF Idling, Return
<1>4. ~Undisturbed'
  BY DEF Undisturbed
<1> QED BY <1>1, <1>2, <1>3, <1>4, ObjectsStay DEF Sure

LEMMA FailedNow ==
  ASSUME IInv, Fault
  PROVE  faults' # 0
BY Known, BoundsAssumption DEF FaultsOK, Fault

LEMMA WriteStatusSure ==
  ASSUME IInv, RInv, WriteStatus, workFresh
  PROVE  RInv'
<1>1. /\ pc = "status" /\ object' = work /\ Return /\ UNCHANGED <<config, cache, cloud, faults>>
  BY DEF WriteStatus, WritesBack
<1>2. /\ object.exists /\ (work.deleting <=> object.deleting) /\ work.exists
      /\ config \in Setups /\ todo = <<>> /\ work \in ObjectType
  BY <1>1, Known DEF IInv, Copies, RInv
<1> SUFFICES ASSUME ~Asked'
             PROVE  Sure'
  BY <1>1, <1>2 DEF RInv, Return
<1>3. ~Asked
  BY <1>1, <1>2 DEF Asked
<1>4. Sure /\ ~work.deleting
  BY <1>3, Unasked
<1>5. Grows
  BY <1>1, NoneGrows
<1>6. Whole(work, {}, {})
  BY <1>2, <1>4, GoneNow DEF Sure, Doing, Pending
<1>7. Whole(object, {}, {})'
  <2>1. PICK o \in ObjectType : o = work
    BY <1>2
  <2>2. Whole(o, {}, {})'
    BY <1>5, <1>6, <2>1, WholeStays
  <2> QED BY <1>1, <2>1, <2>2
<1>8. Whole(cache, {}, {})'
  <2>1. PICK c \in ObjectType : c = cache
    BY DEF IInv, TypeOK
  <2>2. Whole(c, {}, {})'
    BY <1>4, <1>5, <2>1, WholeStays DEF Sure
  <2> QED BY <1>1, <2>1, <2>2
<1>9. Doing'
  BY <1>1, <1>2, NothingDoingNext DEF Idling, Return
<1>10. (Undisturbed => UpToDate)'
  <2> SUFFICES ASSUME Undisturbed'
               PROVE  InHand'
    BY <1>1 DEF UpToDate, Carried, Return
  <2>1. Undisturbed /\ Foreign' = Foreign /\ Ours' = Ours
    BY <1>1, <1>5, DemandsKeep DEF Ours, Live
  <2>2. UpToDate /\ Accounted
    BY <1>4, <2>1 DEF Sure, Doing, Scripted
  <2>3. ASSUME NEW i \in Ours, cloud[i].part # "balancer"
        PROVE  i = work.rec[cloud[i].part]
    <3>1. PICK part : part = cloud[i].part
      OBVIOUS
    <3>2. i \in {object.rec[part], work.rec[part], made[part]} /\ i \in Ids /\ i \notin Foreign
      BY <2>2, <2>3, <3>1 DEF UpToDate, InHand, Ours, Live
    <3>3. part \in Parts
      <4>1. cloud[i] \in ResourceType /\ cloud[i].state # "none" /\ cloud[i].part # ""
        BY <3>2, <2>3, Known DEF CloudOK, Ours, Live
      <4> QED BY <2>3, <3>1, <4>1 DEF ResourceType, Kinds
    <3>4. None \notin Ids
      BY BoundsAssumption DEF Ids, None
    <3>5. object.rec[part] \in {None, work.rec[part]}
      BY <1>1, <2>2, <3>3 DEF UpToDate, Carried
    <3>6. i = made[part] => work.rec[part] = made[part]
      BY <1>2, <2>2, <3>2, <3>3, <3>4, GoneNow DEF Accounted, NoPart
    <3> QED BY <3>1, <3>2, <3>4, <3>5, <3>6
  <2> QED BY <1>1, <2>1, <2>3 DEF InHand
<1> QED BY <1>1, <1>4, <1>5, <1>7, <1>8, <1>9, <1>10 DEF Sure, Return

LEMMA ReleaseSure ==
  ASSUME IInv, RInv, RemoveFinalizer, workFresh
  PROVE  RInv'
BY GoneNow DEF RemoveFinalizer, WritesBack, Return, RInv, Asked

LEMMA EndsSure ==
  ASSUME IInv, RInv, WriteStatus \/ RemoveFinalizer \/ WriteFails \/ Crash
  PROVE  RInv'
<1>1. CASE workFresh /\ (WriteStatus \/ RemoveFinalizer)
  BY <1>1, WriteStatusSure, ReleaseSure
<1>2. CASE ~workFresh /\ (WriteStatus \/ RemoveFinalizer)
  <2>1. Return /\ UNCHANGED <<config, object, cache, cloud, faults>> /\ pc # "idle"
    BY <1>2 DEF WriteStatus, RemoveFinalizer, WritesBack
  <2>2. CASE Asked
    BY <2>1, <2>2 DEF RInv, Asked, Return
  <2>3. CASE ~Asked
    <3>1. faults' # 0
      BY <1>2, <2>1, <2>3, Unasked DEF Sure
    <3> QED BY <2>1, <3>1, ReturnSure
  <2> QED BY <2>2, <2>3
<1>3. CASE WriteFails \/ Crash
  <2>1. Fault /\ Return /\ UNCHANGED <<config, object, cache, cloud>>
    BY <1>3 DEF WriteFails, Crash, kube
  <2> QED BY <2>1, FailedNow, ReturnSure
<1> QED BY <1>1, <1>2, <1>3

LEMMA SyncSure ==
  ASSUME IInv, RInv, SyncCache
  PROVE  RInv'
<1>1. cache' = object /\ UNCHANGED <<config, object, pc, work, workFresh, todo, made, cloud, faults>>
  BY DEF SyncCache, local
<1> SUFFICES ASSUME ~Asked
             PROVE  Sure'
  BY <1>1 DEF RInv, Asked
<1>2. Sure /\ ~work.deleting
  BY Unasked
<1>3. Grows
  BY <1>1, NoneGrows
<1>4. Whole(object, {}, {})' /\ Whole(cache, {}, {})'
  <2>1. PICK o \in ObjectType : o = object
    BY DEF IInv, TypeOK
  <2>2. Whole(o, {}, {})'
    BY <1>2, <1>3, <2>1, WholeStays DEF Sure
  <2> QED BY <1>1, <2>1, <2>2
<1>5. Doing'
  BY <1>1, <1>2, <1>3, DoingStays DEF Sure
<1>6. (Undisturbed => UpToDate)'
  BY <1>1, <1>2, <1>3, DemandsKeep DEF Sure, UpToDate, Carried, InHand, Ours, Live
<1> QED BY <1>1, <1>2, <1>4, <1>5, <1>6 DEF Sure

LEMMA RequestSure ==
  ASSUME IInv, RInv, RequestDelete
  PROVE  RInv'
<1>1. object \in ObjectType
  BY DEF IInv, TypeOK
<1>2. CASE object.finalizer
  <2>1. object' = [object EXCEPT !.deleting = TRUE] /\ UNCHANGED <<pc, work>>
    BY <1>2 DEF RequestDelete
  <2>2. object'.deleting /\ object'.exists = object.exists /\ object'.ready = object.ready
    BY <1>1, <2>1 DEF ObjectType
  <2> QED BY <2>1, <2>2 DEF RInv, Asked
<1>3. CASE ~object.finalizer
  <2>1. object' = Gone /\ UNCHANGED <<pc, work>>
    BY <1>3 DEF RequestDelete
  <2> QED BY <2>1, GoneNow DEF RInv, Asked
<1> QED BY <1>2, <1>3

(* A Reconcile begins.                                                     *)
LEMMA ReadSure ==
  ASSUME IInv, RInv, BeginSync \/ BeginDeletion
  PROVE  RInv'
<1>1. /\ ReadObject /\ pc' # "idle"
      /\ cache.deleting \/ (work' = cache /\ pc' \in {"phase", "finalizer"})
  BY DEF BeginSync, BeginDeletion
<1>2. /\ pc = "idle" /\ cache.exists /\ workFresh' = cacheFresh /\ todo' = <<>> /\ made' = NoRecord
      /\ UNCHANGED <<config, object, cache, cacheFresh, cloud>> /\ (Fault \/ UNCHANGED faults)
      /\ ~cacheFresh => Fault
  BY <1>1 DEF ReadObject
<1>3. cache \in ObjectType /\ config \in Setups
  BY DEF IInv, TypeOK
<1>4. work'.exists
  BY <1>2, <1>3 DEF BeginSync, BeginDeletion, ObjectType
<1> SUFFICES ASSUME ~Asked
             PROVE  Sure'
  BY <1>1, <1>2, <1>4 DEF RInv, Asked
<1>5. Sure /\ ~cache.deleting /\ work' = cache /\ pc' \in {"phase", "finalizer"}
  BY <1>1, Unasked
<1>6. (faults' = 0 => faults = 0) /\ (faults' = 0 => cacheFresh)
  BY <1>2, FailedNow
<1>7. Grows
  BY <1>2, <1>6, NoneGrows
<1>8. Whole(object, {}, {})' /\ Whole(cache, {}, {})'
  BY <1>2, <1>5, <1>7, ObjectsStay
<1>9. Doing'
  <2>1. Pending' = {} /\ Coming(todo)' = {} /\ Orderly(todo)'
    <3>1. Coming(<<>>) = {} /\ Orderly(<<>>)'
      BY GoneNow, PTL
    <3> QED BY <1>2, <3>1 DEF Pending, Coming
  <2>2. \A part \in Parts : made'[part] = None
    BY <1>2 DEF NoRecord
  <2>3. Held(made)' /\ Accounted' /\ Following'
    BY <1>5, <2>2 DEF Held, Accounted, NoPart, Following
  <2>4. Whole(work, Pending, Coming(todo))'
    BY <1>2, <1>5, <1>8, <2>1
  <2> QED BY <1>2, <2>1, <2>3, <2>4 DEF Doing, Scripted
<1>10. (Undisturbed => UpToDate)'
  <2> SUFFICES ASSUME Undisturbed'
               PROVE  UpToDate'
    OBVIOUS
  <2>1. Undisturbed /\ Foreign' = Foreign /\ Ours' = Ours
    BY <1>2, <1>7, DemandsKeep DEF Ours, Live
  <2>2. cache = object /\ work.rec = NoRecord /\ made = NoRecord
    BY <1>2, <1>6, GoneNow DEF IInv, Copies, RInv, AtPc, Undisturbed
  <2>3. UpToDate
    BY <1>5, <2>1 DEF Sure
  <2>4. Carried'
    BY <1>2, <1>5, <2>2 DEF Carried
  <2>5. ASSUME NEW i \in Ours, cloud[i].part # "balancer"
        PROVE  i = object.rec[cloud[i].part]
    <3>1. PICK part : part = cloud[i].part
      OBVIOUS
    <3>2. i \in Ids /\ part \in Parts
      BY <2>5, <3>1, Known DEF CloudOK, ResourceType, Kinds, Ours, Live
    <3>3. None \notin Ids
      BY BoundsAssumption DEF Ids, None
    <3> QED BY <2>2, <2>3, <2>5, <3>1, <3>2, <3>3 DEF UpToDate, InHand, NoRecord
  <2>6. InHand'
    BY <1>2, <2>1, <2>5 DEF InHand
  <2> QED BY <2>4, <2>6 DEF UpToDate
<1> QED BY <1>2, <1>5, <1>6, <1>8, <1>9, <1>10 DEF Sure

LEMMA FinalizerSure ==
  ASSUME IInv, RInv, AddFinalizer
  PROVE  RInv'
<1>1. pc = "finalizer" /\ UNCHANGED <<config, cache, cloud, faults>>
  BY DEF AddFinalizer
<1>2. CASE ~workFresh
  <2>1. Return /\ UNCHANGED object
    BY <1>2 DEF AddFinalizer
  <2>2. CASE Asked
    BY <2>1, <2>2, <1>1 DEF RInv, Asked, Return
  <2>3. CASE ~Asked
    <3>1. faults' # 0
      BY <1>1, <1>2, <2>3, Unasked DEF Sure
    <3> QED BY <1>1, <2>1, <3>1, ReturnSure
  <2> QED BY <2>2, <2>3
<1>3. CASE workFresh
  <2>1. /\ object' = [object EXCEPT !.finalizer = TRUE] /\ work' = [work EXCEPT !.finalizer = TRUE]
        /\ pc' = "phase" /\ UNCHANGED <<workFresh, todo, made>>
    BY <1>3 DEF AddFinalizer
  <2>2. object \in ObjectType /\ work \in ObjectType /\ todo = <<>> /\ made = NoRecord
    BY <1>1 DEF IInv, TypeOK, AtPc
  <2>3. /\ object'.exists = object.exists /\ object'.deleting = object.deleting
        /\ object'.ready = object.ready /\ object'.rec = object.rec /\ object'.phase = object.phase
        /\ work'.exists = work.exists /\ work'.ready = work.ready /\ work'.rec = work.rec
        /\ work'.phase = work.phase
    BY <2>1, <2>2 DEF ObjectType
  <2> SUFFICES ASSUME ~Asked
               PROVE  Sure'
    BY <1>1, <2>1, <2>3 DEF RInv, Asked
  <2>4. Sure /\ ~work.deleting
    BY Unasked
  <2>5. Grows
    BY <1>1, NoneGrows
  <2>6. Whole(object, {}, {})' /\ Whole(cache, {}, {})'
    <3>1. PICK o \in ObjectType, c \in ObjectType : o = object /\ c = cache
      BY DEF IInv, TypeOK
    <3>2. Whole(o, {}, {})' /\ Whole(c, {}, {})'
      BY <2>4, <2>5, <3>1, WholeStays DEF Sure
    <3> QED BY <1>1, <2>3, <3>1, <3>2 DEF Whole, Reached
  <2>7. Doing'
    <3>1. PICK o \in ObjectType : o = work
      BY <2>2
    <3>2. PICK pending, coming : pending = Pending /\ coming = Coming(todo)
      OBVIOUS
    <3>3. Whole(o, pending, coming)'
      BY <2>4, <2>5, <3>1, <3>2, WholeStays DEF Sure, Doing
    <3>4. pending = Pending' /\ coming = Coming(todo)'
      BY <2>1, <3>2 DEF Pending, Coming
    <3>5. Whole(work, Pending, Coming(todo))'
      BY <2>3, <3>1, <3>3, <3>4 DEF Whole, Reached
    <3>6. \A part \in Parts : made'[part] = None
      BY <2>1, <2>2 DEF NoRecord
    <3>7. Held(made)' /\ Accounted' /\ Following'
      BY <2>1, <3>6 DEF Held, Accounted, NoPart, Following
    <3>8. Orderly(todo)'
      <4>1. Orderly(<<>>)'
        BY GoneNow, PTL
      <4> QED BY <2>1, <2>2, <4>1
    <3> QED BY <2>1, <2>2, <3>5, <3>7, <3>8 DEF Doing, Scripted
  <2>8. (Undisturbed => UpToDate)'
    BY <1>1, <2>1, <2>3, <2>4, <2>5, DemandsKeep DEF Sure, UpToDate, Carried, InHand, Ours, Live
  <2> QED BY <1>1, <2>1, <2>4, <2>6, <2>7, <2>8 DEF Sure
<1> QED BY <1>2, <1>3

(* What is wanted, and what is promised.                                   *)
LEMMA WantedOf ==
  ASSUME config \in Setups
  PROVE  /\ config.nat \in {"None", "Single", "HighAvailability"} /\ config.zones \in {1, 2}
         /\ "nat1" \in Wanted <=> config.nat # "None"
         /\ "privateRT1" \in Wanted <=> config.nat # "None"
         /\ "nat2" \in Wanted <=> config.nat = "HighAvailability" /\ config.zones = 2
         /\ "privateRT2" \in Wanted <=> config.nat = "HighAvailability" /\ config.zones = 2
         /\ "addon" \in Wanted <=> config.addons
         /\ Wanted \subseteq {"nat1", "nat2", "privateRT1", "privateRT2", "addon"}
<1>1. config.nat \in {"None", "Single", "HighAvailability"} /\ config.zones \in {1, 2}
  BY SetupAssumption DEF Zones
<1>2. NAT[1] = "nat1" /\ NAT[2] = "nat2" /\ PrivateRT[1] = "privateRT1" /\ PrivateRT[2] = "privateRT2"
  BY DEF NAT, PrivateRT
<1>3. PICK zones : zones = IF config.nat = "HighAvailability" THEN 1..config.zones ELSE {1}
  OBVIOUS
<1>4. zones = IF config.nat = "HighAvailability" /\ config.zones = 2 THEN {1, 2} ELSE {1}
  <2>1. 1..1 = {1} /\ 1..2 = {1, 2}
    OBVIOUS
  <2>2. config.zones = 1 \/ config.zones = 2
    BY <1>1
  <2> QED BY <1>3, <2>1, <2>2
<1>5. Wanted = (IF config.nat = "None" THEN {}
                ELSE {NAT[z] : z \in zones} \cup {PrivateRT[z] : z \in zones})
               \cup (IF config.addons THEN {"addon"} ELSE {})
  BY <1>3 DEF Wanted
<1>6. /\ {NAT[z] : z \in zones} = IF config.nat = "HighAvailability" /\ config.zones = 2
                                  THEN {"nat1", "nat2"} ELSE {"nat1"}
      /\ {PrivateRT[z] : z \in zones} = IF config.nat = "HighAvailability" /\ config.zones = 2
                                        THEN {"privateRT1", "privateRT2"} ELSE {"privateRT1"}
  BY <1>2, <1>4
<1> QED BY <1>1, <1>5, <1>6

LEMMA NeededOf ==
  ASSUME config \in Setups
  PROVE  /\ Needed = Roles \cup Groups \cup {"vpc", "igw", "publicRT", "cluster", "pool"}
              \cup (IF config.zones = 2 THEN Subnets ELSE {"public1", "private1"})
              \cup (IF config.nat = "None" THEN {} ELSE {"nat1"})
         /\ ~OwnSubnets => config.zones = 1
<1>1. config.zones \in {1, 2}
  BY WantedOf
<1>2. Public[1] = "public1" /\ Public[2] = "public2" /\ Private[1] = "private1" /\ Private[2] = "private2"
  BY DEF Public, Private
<1>3. PICK zones : zones = 1..config.zones
  OBVIOUS
<1>4. zones = IF config.zones = 2 THEN {1, 2} ELSE {1}
  <2>1. 1..1 = {1} /\ 1..2 = {1, 2}
    OBVIOUS
  <2>2. config.zones = 1 \/ config.zones = 2
    BY <1>1
  <2> QED BY <1>3, <2>1, <2>2
<1>5. {Public[z] : z \in zones} \cup {Private[z] : z \in zones}
        = IF config.zones = 2 THEN Subnets ELSE {"public1", "private1"}
  BY <1>2, <1>4, Named
<1>6. ~OwnSubnets => config.zones = 1
  BY SetupAssumption DEF OwnSubnets
<1> QED BY <1>3, <1>5, <1>6 DEF Needed

LEMMA RankNext ==
  ASSUME config \in Setups, NEW p \in Phases \ {"Ready", "Deleting"}, NEW q \in Creating,
         Rank(q) < Rank(NextPhase(p))
  PROVE  \/ Rank(q) < Rank(p) \/ q = p
         \/ q = "CreatingNATGateway" /\ p = "WaitingSubnets" /\ ~WantsNat
         \/ q = "InstallingAddons" /\ p = "WaitingNodePools" /\ ~config.addons
<1>1. /\ WantsNat => NextPhase("WaitingSubnets") = "CreatingNATGateway"
      /\ ~WantsNat => NextPhase("WaitingSubnets") = "CreatingRouteTables"
      /\ config.addons => NextPhase("WaitingNodePools") = "InstallingAddons"
      /\ ~config.addons => NextPhase("WaitingNodePools") = "Ready"
  BY Zenon DEF NextPhase
<1>2. PICK r, f :
        r = [phase \in Phases |-> Rank(phase)] /\ f = [phase \in Phases |-> NextPhase(phase)]
  OBVIOUS
<1>3. Phases =
        {"", "Failed", "Pending", "CreatingIAMRoles", "CreatingVPC", "WaitingVPC", "CreatingIGW",
         "CreatingSubnets", "WaitingSubnets", "CreatingNATGateway", "WaitingNATGateway",
         "CreatingRouteTables", "CreatingSecGroups", "CreatingCluster", "WaitingCluster",
         "CreatingNodePools", "WaitingNodePools", "InstallingAddons", "WaitingAddons", "Ready",
         "Deleting"}
  BY DEF Phases, Creating, Waiting, AwaitedIn
<1>4. /\ r[""] = 0 /\ r["Pending"] = 0 /\ r["Failed"] = 0
      /\ r["CreatingIAMRoles"] = 1 /\ r["CreatingVPC"] = 2 /\ r["WaitingVPC"] = 3
      /\ r["CreatingIGW"] = 4 /\ r["CreatingSubnets"] = 5 /\ r["WaitingSubnets"] = 6
      /\ r["CreatingNATGateway"] = 7 /\ r["WaitingNATGateway"] = 8
      /\ r["CreatingRouteTables"] = 9 /\ r["CreatingSecGroups"] = 10
      /\ r["CreatingCluster"] = 11 /\ r["WaitingCluster"] = 12
      /\ r["CreatingNodePools"] = 13 /\ r["WaitingNodePools"] = 14
      /\ r["InstallingAddons"] = 15 /\ r["WaitingAddons"] = 16 /\ r["Ready"] = 17
  BY <1>2, <1>3, RankOf
<1>5. /\ f[""] = "Pending" /\ f["Failed"] = "Pending" /\ f["Pending"] = "CreatingIAMRoles"
      /\ f["CreatingIAMRoles"] = "CreatingVPC" /\ f["CreatingVPC"] = "WaitingVPC"
      /\ f["WaitingVPC"] = "CreatingIGW" /\ f["CreatingIGW"] = "CreatingSubnets"
      /\ f["CreatingSubnets"] = "WaitingSubnets"
      /\ WantsNat => f["WaitingSubnets"] = "CreatingNATGateway"
      /\ ~WantsNat => f["WaitingSubnets"] = "CreatingRouteTables"
      /\ f["CreatingNATGateway"] = "WaitingNATGateway"
      /\ f["WaitingNATGateway"] = "CreatingRouteTables"
      /\ f["CreatingRouteTables"] = "CreatingSecGroups" /\ f["CreatingSecGroups"] = "CreatingCluster"
      /\ f["CreatingCluster"] = "WaitingCluster" /\ f["WaitingCluster"] = "CreatingNodePools"
      /\ f["CreatingNodePools"] = "WaitingNodePools"
      /\ config.addons => f["WaitingNodePools"] = "InstallingAddons"
      /\ ~config.addons => f["WaitingNodePools"] = "Ready"
      /\ f["InstallingAddons"] = "WaitingAddons" /\ f["WaitingAddons"] = "Ready"
  BY <1>1, <1>2, <1>3, WhichPhase
<1>6. r[q] < r[f[p]]
  <2>1. q \in Phases /\ NextPhase(p) \in Phases
    BY PhaseFollows DEF Phases
  <2> QED BY <1>2, <2>1
<1>7. PICK n : n = r[q]
  OBVIOUS
<1>8. \/ q = "CreatingIAMRoles" /\ n = 1
      \/ q = "CreatingVPC" /\ n = 2
      \/ q = "CreatingIGW" /\ n = 4
      \/ q = "CreatingSubnets" /\ n = 5
      \/ q = "CreatingNATGateway" /\ n = 7
      \/ q = "CreatingRouteTables" /\ n = 9
      \/ q = "CreatingSecGroups" /\ n = 10
      \/ q = "CreatingCluster" /\ n = 11
      \/ q = "CreatingNodePools" /\ n = 13
      \/ q = "InstallingAddons" /\ n = 15
  <2>1. q \in {"CreatingIAMRoles", "CreatingVPC", "CreatingIGW", "CreatingSubnets", "CreatingNATGateway",
               "CreatingRouteTables", "CreatingSecGroups", "CreatingCluster", "CreatingNodePools",
               "InstallingAddons"}
    BY DEF Creating
  <2> QED BY <1>4, <1>7, <2>1, Zenon
<1>9. PICK m, k : m = r[p] /\ k = r[f[p]]
  OBVIOUS
<1>10. \/ m \in Int /\ k \in {m, m + 1} /\ (n = m => q = p)
       \/ p = "WaitingSubnets" /\ m = 6 /\ k = 9 /\ ~WantsNat
       \/ p = "WaitingNodePools" /\ m = 14 /\ k = 17 /\ ~config.addons
  <2>1. ASSUME p = "WaitingSubnets" PROVE m = 6 /\ (k = 7 \/ (k = 9 /\ ~WantsNat))
    BY <1>4, <1>5, <1>9, <2>1
  <2>2. ASSUME p = "WaitingNodePools" PROVE m = 14 /\ (k = 15 \/ (k = 17 /\ ~config.addons))
    BY <1>4, <1>5, <1>9, <2>2
  <2>3. ASSUME p = "" \/ p = "Failed" \/ p = "Pending"
        PROVE  m \in Int /\ k \in {m, m + 1} /\ (n = m => q = p)
    <3>1. ASSUME p = "" PROVE m = 0 /\ k = 0
      BY <1>4, <1>5, <1>9, <3>1
    <3>2. ASSUME p = "Failed" PROVE m = 0 /\ k = 0
      BY <1>4, <1>5, <1>9, <3>2
    <3>3. ASSUME p = "Pending" PROVE m = 0 /\ k = 1
      BY <1>4, <1>5, <1>9, <3>3
    <3>4. m = 0 /\ (k = 0 \/ k = 1)
      BY <2>3, <3>1, <3>2, <3>3, Zenon
    <3>5. n # 0
      BY <1>8
    <3>6. m \in Int /\ k \in {m, m + 1}
      BY <3>4
    <3> QED BY <3>4, <3>5, <3>6, Zenon
  <2>4. CASE p \in {"CreatingIAMRoles", "CreatingVPC", "WaitingVPC"}
    <3>1. ASSUME p = "CreatingIAMRoles" PROVE m = 1 /\ k = 2 /\ (n = m => q = p)
      <4>1. m = 1 /\ k = 2
        BY <1>4, <1>5, <1>9, <3>1
      <4>2. n = m => q = "CreatingIAMRoles"
        BY <1>8, <4>1
      <4> QED BY <4>1, <4>2, <3>1
    <3>2. ASSUME p = "CreatingVPC" PROVE m = 2 /\ k = 3 /\ (n = m => q = p)
      <4>1. m = 2 /\ k = 3
        BY <1>4, <1>5, <1>9, <3>2
      <4>2. n = m => q = "CreatingVPC"
        BY <1>8, <4>1
      <4> QED BY <4>1, <4>2, <3>2
    <3>3. ASSUME p = "WaitingVPC" PROVE m = 3 /\ k = 4 /\ (n = m => q = p)
      <4>1. m = 3 /\ k = 4
        BY <1>4, <1>5, <1>9, <3>3
      <4>2. n = m => q = "WaitingVPC"
        BY <1>8, <4>1
      <4> QED BY <4>1, <4>2, <3>3
    <3> QED BY <2>4, <3>1, <3>2, <3>3
  <2>5. CASE p \in {"CreatingIGW", "CreatingSubnets", "CreatingNATGateway"}
    <3>1. ASSUME p = "CreatingIGW" PROVE m = 4 /\ k = 5 /\ (n = m => q = p)
      <4>1. m = 4 /\ k = 5
        BY <1>4, <1>5, <1>9, <3>1
      <4>2. n = m => q = "CreatingIGW"
        BY <1>8, <4>1
      <4> QED BY <4>1, <4>2, <3>1
    <3>2. ASSUME p = "CreatingSubnets" PROVE m = 5 /\ k = 6 /\ (n = m => q = p)
      <4>1. m = 5 /\ k = 6
        BY <1>4, <1>5, <1>9, <3>2
      <4>2. n = m => q = "CreatingSubnets"
        BY <1>8, <4>1
      <4> QED BY <4>1, <4>2, <3>2
    <3>3. ASSUME p = "CreatingNATGateway" PROVE m = 7 /\ k = 8 /\ (n = m => q = p)
      <4>1. m = 7 /\ k = 8
        BY <1>4, <1>5, <1>9, <3>3
      <4>2. n = m => q = "CreatingNATGateway"
        BY <1>8, <4>1
      <4> QED BY <4>1, <4>2, <3>3
    <3> QED BY <2>5, <3>1, <3>2, <3>3
  <2>6. CASE p \in {"WaitingNATGateway", "CreatingRouteTables", "CreatingSecGroups"}
    <3>1. ASSUME p = "WaitingNATGateway" PROVE m = 8 /\ k = 9 /\ (n = m => q = p)
      <4>1. m = 8 /\ k = 9
        BY <1>4, <1>5, <1>9, <3>1
      <4>2. n = m => q = "WaitingNATGateway"
        BY <1>8, <4>1
      <4> QED BY <4>1, <4>2, <3>1
    <3>2. ASSUME p = "CreatingRouteTables" PROVE m = 9 /\ k = 10 /\ (n = m => q = p)
      <4>1. m = 9 /\ k = 10
        BY <1>4, <1>5, <1>9, <3>2
      <4>2. n = m => q = "CreatingRouteTables"
        BY <1>8, <4>1
      <4> QED BY <4>1, <4>2, <3>2
    <3>3. ASSUME p = "CreatingSecGroups" PROVE m = 10 /\ k = 11 /\ (n = m => q = p)
      <4>1. m = 10 /\ k = 11
        BY <1>4, <1>5, <1>9, <3>3
      <4>2. n = m => q = "CreatingSecGroups"
        BY <1>8, <4>1
      <4> QED BY <4>1, <4>2, <3>3
    <3> QED BY <2>6, <3>1, <3>2, <3>3
  <2>7. CASE p \in {"CreatingCluster", "WaitingCluster", "CreatingNodePools"}
    <3>1. ASSUME p = "CreatingCluster" PROVE m = 11 /\ k = 12 /\ (n = m => q = p)
      <4>1. m = 11 /\ k = 12
        BY <1>4, <1>5, <1>9, <3>1
      <4>2. n = m => q = "CreatingCluster"
        BY <1>8, <4>1
      <4> QED BY <4>1, <4>2, <3>1
    <3>2. ASSUME p = "WaitingCluster" PROVE m = 12 /\ k = 13 /\ (n = m => q = p)
      <4>1. m = 12 /\ k = 13
        BY <1>4, <1>5, <1>9, <3>2
      <4>2. n = m => q = "WaitingCluster"
        BY <1>8, <4>1
      <4> QED BY <4>1, <4>2, <3>2
    <3>3. ASSUME p = "CreatingNodePools" PROVE m = 13 /\ k = 14 /\ (n = m => q = p)
      <4>1. m = 13 /\ k = 14
        BY <1>4, <1>5, <1>9, <3>3
      <4>2. n = m => q = "CreatingNodePools"
        BY <1>8, <4>1
      <4> QED BY <4>1, <4>2, <3>3
    <3> QED BY <2>7, <3>1, <3>2, <3>3
  <2>8. CASE p \in {"InstallingAddons", "WaitingAddons"}
    <3>1. ASSUME p = "InstallingAddons" PROVE m = 15 /\ k = 16 /\ (n = m => q = p)
      <4>1. m = 15 /\ k = 16
        BY <1>4, <1>5, <1>9, <3>1
      <4>2. n = m => q = "InstallingAddons"
        BY <1>8, <4>1
      <4> QED BY <4>1, <4>2, <3>1
    <3>2. ASSUME p = "WaitingAddons" PROVE m = 16 /\ k = 17 /\ (n = m => q = p)
      <4>1. m = 16 /\ k = 17
        BY <1>4, <1>5, <1>9, <3>2
      <4>2. n = m => q = "WaitingAddons"
        BY <1>8, <4>1
      <4> QED BY <4>1, <4>2, <3>2
    <3> QED BY <2>8, <3>1, <3>2
  <2>9. CASE p = "WaitingSubnets"
    <3>1. k = 7 => k \in {m, m + 1} /\ m \in Int
      BY <2>1, <2>9
    <3>2. n # 6
      BY <1>8
    <3> QED BY <2>1, <2>9, <3>1, <3>2, Zenon
  <2>10. CASE p = "WaitingNodePools"
    <3>1. k = 15 => k \in {m, m + 1} /\ m \in Int
      BY <2>2, <2>10
    <3>2. n # 14
      BY <1>8
    <3> QED BY <2>2, <2>10, <3>1, <3>2, Zenon
  <2>11. \/ p = "WaitingSubnets" \/ p = "WaitingNodePools"
         \/ p = "" \/ p = "Failed" \/ p = "Pending"
         \/ p \in {"CreatingIAMRoles", "CreatingVPC", "WaitingVPC"}
         \/ p \in {"CreatingIGW", "CreatingSubnets", "CreatingNATGateway"}
         \/ p \in {"WaitingNATGateway", "CreatingRouteTables", "CreatingSecGroups"}
         \/ p \in {"CreatingCluster", "WaitingCluster", "CreatingNodePools"}
         \/ p \in {"InstallingAddons", "WaitingAddons"}
    BY <1>3
  <2> QED BY <2>3, <2>4, <2>5, <2>6, <2>7, <2>8, <2>9, <2>10, <2>11, Zenon
<1>11. n < k
  BY <1>6, <1>7, <1>9
<1>12. \/ n < m \/ q = p
       \/ q = "CreatingNATGateway" /\ p = "WaitingSubnets" /\ ~WantsNat
       \/ q = "InstallingAddons" /\ p = "WaitingNodePools" /\ ~config.addons
  <2>1. n \in Int
    BY <1>8
  <2>3. CASE m \in Int /\ k \in {m, m + 1} /\ (n = m => q = p)
    BY <1>11, <2>1, <2>3
  <2>2. n \notin {6, 8, 14, 16}
    BY <1>8
  <2>4. CASE p = "WaitingSubnets" /\ m = 6 /\ k = 9 /\ ~WantsNat
    <3>1. n < 6 \/ n \in {6, 7, 8}
      BY <1>11, <2>1, <2>4
    <3>2. n \in {7, 8} => q = "CreatingNATGateway"
      BY <1>8
    <3> QED BY <2>2, <2>4, <3>1, <3>2
  <2>5. CASE p = "WaitingNodePools" /\ m = 14 /\ k = 17 /\ ~config.addons
    <3>1. n < 14 \/ n \in {14, 15, 16}
      BY <1>11, <2>1, <2>5
    <3>2. n \in {15, 16} => q = "InstallingAddons"
      BY <1>8
    <3> QED BY <2>2, <2>5, <3>1, <3>2
  <2> QED BY <1>10, <2>3, <2>4, <2>5
<1>13. q \in Phases
  BY DEF Phases
<1> QED BY <1>2, <1>7, <1>9, <1>12, <1>13

LEMMA ReachedNext ==
  ASSUME IInv, Reached(work), work.phase \notin {"Ready", "Deleting"},
         work.phase \in Creating => Promised \cap Makes[work.phase] \cap NoPart(work.rec) = {},
         NEW q \in Creating, Rank(q) < Rank(NextPhase(work.phase))
  PROVE  Promised \cap Makes[q] \cap NoPart(work.rec) = {}
<1>1. config \in Setups /\ work.phase \in Phases /\ work.rec \in RecordType
  BY Known
<1>2. PICK p \in Phases \ {"Ready", "Deleting"} : p = work.phase
  BY <1>1
<1>3. Rank(q) < Rank(NextPhase(p))
  BY <1>2
<1>4. \/ Rank(q) < Rank(p) \/ q = p
      \/ q = "CreatingNATGateway" /\ p = "WaitingSubnets" /\ ~WantsNat
      \/ q = "InstallingAddons" /\ p = "WaitingNodePools" /\ ~config.addons
  BY <1>1, <1>3, RankNext
<1>5. CASE Rank(q) < Rank(p) \/ q = p
  BY <1>2, <1>5 DEF Reached
<1>6. CASE q = "CreatingNATGateway" /\ p = "WaitingSubnets" /\ ~WantsNat
  <2>1. Makes["CreatingSubnets"] = Subnets /\ Makes[q] = Each(NAT) /\ "CreatingSubnets" \in Creating
    BY <1>6 DEF Makes, Creating
  <2>2. Promised \cap Subnets \cap NoPart(work.rec) = {}
    <3>1. Rank(p) = 6 /\ Rank("CreatingSubnets") = 5
      BY <1>6, RankOf, Zenon
    <3>2. Rank("CreatingSubnets") < Rank(p)
      BY <3>1
    <3>3. Rank("CreatingSubnets") < Rank(work.phase)
      BY <1>2, <3>2, Zenon
    <3> QED BY <2>1, <3>3 DEF Reached
  <2>3. "private1" \in Needed /\ "private1" \in Subnets \cap Parts
    BY <1>1, NeededOf, WantedOf, Named
  <2>4. work.rec["private1"] # None
    BY <2>2, <2>3 DEF Promised, NoPart
  <2>5. 1 \in Zones /\ Private[1] = "private1"
    BY DEF Zones, Private
  <2>6. config.nat = "None"
    BY <1>6, <2>4, <2>5 DEF WantsNat, IsRecorded
  <2>7. Needed \cap Each(NAT) = {} /\ Wanted \cap Each(NAT) = {}
    BY <1>1, <2>6, NeededOf, WantedOf, Named
  <2> QED BY <2>1, <2>7 DEF Promised
<1>7. CASE q = "InstallingAddons" /\ p = "WaitingNodePools" /\ ~config.addons
  <2>1. Makes[q] = {"addon"}
    BY <1>7 DEF Makes
  <2>2. "addon" \notin Needed /\ "addon" \notin Wanted
    BY <1>1, <1>7, NeededOf, WantedOf, Named
  <2> QED BY <2>1, <2>2 DEF Promised
<1> QED BY <1>4, <1>5, <1>6, <1>7

(* A step that does not go to AWS, and leaves the records as they are.     *)
LEMMA LocalSure ==
  ASSUME IInv, Sure, Keeping, UNCHANGED <<made, cloud>>, faults' = 0 => faults = 0,
         pc # "idle", work'.rec = work.rec, Whole(work, Pending, Coming(todo))', Scripted'
  PROVE  Sure'
<1>1. UNCHANGED <<config, object, cache, cacheFresh, workFresh>>
  BY DEF Keeping, kube
<1>2. Grows
  BY <1>1, NoneGrows
<1>3. Whole(object, {}, {})' /\ Whole(cache, {}, {})'
  BY <1>1, <1>2, ObjectsStay
<1>4. Held(made)'
  <2>1. PICK ids \in RecordType : ids = made
    BY Known
  <2>2. Held(ids)'
    BY <1>2, <2>1, HeldStays DEF Sure, Doing
  <2> QED BY <2>1, <2>2
<1>5. (Undisturbed => UpToDate)'
  BY <1>1, <1>2, DemandsKeep DEF Sure, UpToDate, Carried, InHand, Ours, Live
<1> QED BY <1>1, <1>3, <1>4, <1>5 DEF Sure, Doing

LEMMA EndPhaseSure ==
  ASSUME IInv, RInv, EndPhase
  PROVE  RInv'
<1>1. /\ pc = "run" /\ todo = <<>> /\ ~work.deleting /\ pc' = "status"
      /\ UNCHANGED <<todo, made, cloud, faults>> /\ Keeping
      /\ work' = [work EXCEPT !.phase = NextPhase(work.phase),
                              !.ready = (NextPhase(work.phase) = "Ready")]
  BY DEF EndPhase
<1>2. work \in ObjectType /\ config \in Setups /\ work.phase \notin {"Ready", "Deleting"}
  BY <1>1, Known DEF AtPc, Sound
<1>3. /\ work'.exists = work.exists /\ work'.rec = work.rec /\ work'.phase = NextPhase(work.phase)
      /\ work'.ready => work'.phase = "Ready"
  BY <1>1, <1>2 DEF ObjectType
<1>4. UNCHANGED <<config, object>>
  BY <1>1 DEF Keeping, kube
<1> SUFFICES ASSUME ~Asked
             PROVE  Sure'
  BY <1>1, <1>3, <1>4 DEF RInv, Asked
<1>5. Sure
  BY Unasked
<1>6. Grows
  BY <1>1, <1>4, NoneGrows
<1>7. Coming(todo) = {} /\ Coming(todo)' = {} /\ Pending = {} /\ Pending' = {} /\ Orderly(todo)'
  <2>1. Coming(<<>>) = {} /\ Orderly(<<>>)'
    BY GoneNow, PTL
  <2> QED BY <1>1, <2>1 DEF Coming, Pending
<1>8. Whole(work, {}, {})'
  <2>1. PICK o \in ObjectType : o = work
    BY <1>2
  <2>2. Whole(o, {}, {})
    BY <1>5, <1>7, <2>1 DEF Sure, Doing
  <2>3. Whole(o, {}, {})'
    BY <1>6, <2>2, WholeStays
  <2>4. Reached(work)'
    <3>1. work.phase \in Creating => Promised \cap Makes[work.phase] \cap NoPart(work.rec) = {}
      BY <1>1, <1>5, <1>7 DEF Sure, Doing, Scripted, Following
    <3>2. Reached(work)
      BY <2>1, <2>2 DEF Whole
    <3>3. \A q \in Creating : Rank(q) < Rank(NextPhase(work.phase)) =>
                                Promised \cap Makes[q] \cap NoPart(work.rec) = {}
      BY <1>2, <3>1, <3>2, ReachedNext
    <3> QED BY <1>3, <1>6, <3>3, DemandsKeep DEF Reached, NoPart
  <2> QED BY <1>3, <2>1, <2>3, <2>4 DEF Whole
<1>9. Scripted'
  <2>1. todo' \notin FindingScripts'
    <3>1. PICK s : s = todo'
      OBVIOUS
    <3>2. s \notin FindingScripts
      BY <1>1, <1>2, <3>1, FindingTypes
    <3> QED BY <1>4, <3>1, <3>2, ConfigKeeps
  <2>2. (Undisturbed => Accounted)'
    BY <1>1, <1>3, <1>5, <1>6, <1>7, DemandsKeep DEF Sure, Doing, Scripted, Accounted, NoPart
  <2> QED BY <1>1, <1>7, <2>1, <2>2 DEF Scripted, Following
<1> QED BY <1>1, <1>3, <1>5, <1>7, <1>8, <1>9, LocalSure

(* A phase that fails: something has gone wrong.                           *)
LEMMA StopSure ==
  ASSUME IInv, RInv, PhaseFails, pc \in {"phase", "run"}, faults' = 0 => faults = 0,
         ~Asked => ~Undisturbed' /\ (faults' # 0 \/ Pending = {})
  PROVE  RInv'
<1>1. /\ work' = [work EXCEPT !.phase = "Failed", !.ready = FALSE]
      /\ pc' = "status" /\ todo' = <<>> /\ UNCHANGED <<made, cloud>> /\ Keeping
  BY DEF PhaseFails
<1>2. work \in ObjectType /\ config \in Setups
  BY Known
<1>3. /\ work'.exists = work.exists /\ work'.rec = work.rec /\ work'.phase = "Failed" /\ ~work'.ready
  BY <1>1, <1>2 DEF ObjectType
<1>4. UNCHANGED <<config, object>>
  BY <1>1 DEF Keeping, kube
<1> SUFFICES ASSUME ~Asked
             PROVE  Sure'
  BY <1>1, <1>3, <1>4 DEF RInv, Asked
<1>5. Sure /\ ~Undisturbed' /\ (faults' # 0 \/ Pending = {})
  BY Unasked
<1>6. Grows
  BY <1>1, <1>4, NoneGrows
<1>7. Coming(todo)' = {} /\ Pending' = {} /\ Orderly(todo)'
  <2>1. Coming(<<>>) = {} /\ Orderly(<<>>)'
    BY GoneNow, PTL
  <2> QED BY <1>1, <2>1 DEF Coming, Pending
<1>8. Whole(work, {}, {})'
  <2>1. PICK o \in ObjectType : o = work
    BY <1>2
  <2>2. PICK pending, coming : pending = Pending /\ coming = Coming(todo)
    OBVIOUS
  <2>3. Whole(o, pending, coming)'
    BY <1>5, <1>6, <2>1, <2>2, WholeStays DEF Sure, Doing
  <2>4. Equipped(o.rec, {})'
    <3>1. CASE Pending = {}
      BY <2>2, <2>3, <3>1 DEF Whole
    <3>2. CASE faults' # 0
      <4>1. \A part \in Roles : Settings(part)' = {}
        BY <3>2, SettingsOfNext DEF SettingsKnown
      <4>2. pending \subseteq Roles
        BY <2>2 DEF Pending
      <4> QED BY <2>3, <4>1, <4>2 DEF Whole, Equipped
    <3> QED BY <1>5, <3>1, <3>2
  <2>5. InOrder(o.rec, {})'
    BY <1>5, <2>3 DEF Whole, InOrder, Complete
  <2>6. Reached(work)'
    <3>1. Rank(work'.phase) = 0
      BY <1>3, RankOf, Zenon
    <3> QED BY <3>1, RankPositive DEF Reached
  <2> QED BY <1>3, <2>1, <2>3, <2>4, <2>5, <2>6 DEF Whole
<1>9. Scripted'
  <2>1. todo' \notin FindingScripts'
    <3>1. PICK s : s = todo'
      OBVIOUS
    <3>2. s \notin FindingScripts
      BY <1>1, <1>2, <3>1, FindingTypes
    <3> QED BY <1>4, <3>1, <3>2, ConfigKeeps
  <2> QED BY <1>1, <1>5, <1>7, <2>1 DEF Scripted, Following
<1> QED BY <1>1, <1>3, <1>5, <1>7, <1>8, <1>9, LocalSure

LEMMA CheckSure ==
  ASSUME IInv, RInv, Check \/ CheckFails
  PROVE  RInv'
<1>1. pc = "phase" /\ todo = <<>> /\ work.phase \in Waiting
  BY Known DEF Check, CheckFails
<1>2. CASE PhaseFails /\ Fault
  <2>1. faults' # 0
    BY <1>2, FailedNow
  <2> QED BY <1>1, <1>2, <2>1, StopSure DEF Undisturbed
<1>3. CASE /\ pc' \in {"run", "status"} /\ UNCHANGED <<work, todo, made, cloud>> /\ Keeping
           /\ Fault \/ UNCHANGED faults
  <2>1. faults' = 0 => faults = 0
    BY <1>3, FailedNow
  <2>2. UNCHANGED <<config, object>>
    BY <1>3 DEF Keeping, kube
  <2> SUFFICES ASSUME ~Asked
               PROVE  Sure'
    BY <1>1, <1>3, <2>2 DEF RInv, Asked
  <2>3. Sure
    BY Unasked
  <2>4. Grows
    BY <1>3, <2>1, <2>2, NoneGrows
  <2>5. made = NoRecord
    BY <1>1, Known DEF AtPc
  <2>6. Coming(todo)' = Coming(todo) /\ Pending' = Pending /\ Orderly(todo)'
    <3>1. Orderly(<<>>)'
      BY GoneNow, PTL
    <3> QED BY <1>1, <1>3, <3>1 DEF Coming, Pending
  <2>7. Whole(work, Pending, Coming(todo))'
    <3>1. PICK o \in ObjectType : o = work
      BY Known
    <3>2. PICK pending, coming : pending = Pending /\ coming = Coming(todo)
      OBVIOUS
    <3>3. Whole(o, pending, coming)'
      BY <2>3, <2>4, <3>1, <3>2, WholeStays DEF Sure, Doing
    <3> QED BY <1>3, <2>6, <3>1, <3>2, <3>3
  <2>8. Scripted'
    <3>1. \A part \in Parts : made'[part] = None
      BY <1>3, <2>5 DEF NoRecord
    <3>2. Accounted'
      BY <3>1 DEF Accounted, NoPart
    <3>3. work'.phase \notin Creating
      BY <1>1, <1>3 DEF Waiting, AwaitedIn, Creating
    <3>4. made' = NoRecord
      BY <1>3, <2>5
    <3> QED BY <2>6, <3>2, <3>3, <3>4 DEF Scripted, Following
  <2> QED BY <1>1, <1>3, <2>1, <2>3, <2>7, <2>8, LocalSure
<1> QED BY <1>1, <1>2, <1>3 DEF Check, CheckFails

LEMMA EndDeletionSure ==
  ASSUME IInv, RInv, EndDeletion
  PROVE  RInv'
<1>1. pc' = "release" /\ work.deleting /\ UNCHANGED <<object, work>>
  BY DEF EndDeletion, Keeping, kube
<1>2. Asked /\ pc = "run"
  BY DEF IInv, Copies, EndDeletion
<1> QED BY <1>1, <1>2 DEF RInv, Asked

-----------------------------------------------------------------------------
(* The scripts of the phases, put together from blocks: what makes some of *)
(* the parts, when others have been recorded.                              *)

Follows(s, k, past) ==
  /\ \A z \in Zones : Eip[z] \in s[k].records => NAT[z] \in s[k].records
  /\ "nat2" \in s[k].records => "nat1" \in past \/ Recorded1st(s, k, "nat1")
  /\ s[k].records \cap Each(PrivateRT) # {} => "publicRT" \in past \/ Recorded1st(s, k, "publicRT")

Block(s, parts, past) ==
  /\ s \in Seq(MakingSteps)
  /\ \A k \in 1..Len(s) :
       /\ {s[k].part} \cup s[k].records \subseteq parts
       /\ MakesOnce(s, k) /\ SetsMade(s, k) /\ RecordsMade(s, k) /\ Follows(s, k, past)
       /\ s[k].inUse = "fails" /\ s[k].on = "fails" /\ s[k].part # "addon"

Joins(s, a, b) ==
  /\ s \in Seq(MakingSteps) /\ Len(s) = Len(a) + Len(b)
  /\ Len(a) \in Nat /\ Len(b) \in Nat
  /\ \A k \in Int : 1 <= k /\ k <= Len(a) => s[k] = a[k]
  /\ \A k \in Int : 1 <= k /\ k <= Len(b) => s[Len(a) + k] = b[k]

LEMMA Joined ==
  ASSUME NEW a \in Seq(MakingSteps), NEW b \in Seq(MakingSteps)
  PROVE  Joins(a \o b, a, b)
<1>1. a \o b \in Seq(MakingSteps) /\ Len(a \o b) = Len(a) + Len(b) /\ Len(a) \in Nat /\ Len(b) \in Nat
  OBVIOUS
<1>2. ASSUME NEW k \in Int, 1 <= k, k <= Len(a)
      PROVE  (a \o b)[k] = a[k]
  BY <1>1, <1>2
<1>3. ASSUME NEW k \in Int, 1 <= k, k <= Len(b)
      PROVE  (a \o b)[Len(a) + k] = b[k]
  BY <1>1, <1>3
<1> QED BY <1>1, <1>2, <1>3 DEF Joins

LEMMA ComingJoins ==
  ASSUME NEW s, NEW a, NEW b, Joins(s, a, b)
  PROVE  Coming(s) = Coming(a) \cup Coming(b)
<1>1. PICK n, m : n = Len(a) /\ m = Len(b)
  OBVIOUS
<1>2. /\ n \in Nat /\ m \in Nat /\ Len(s) = n + m
      /\ \A k \in 1..n : s[k] = a[k]
      /\ \A k \in 1..m : s[n + k] = b[k]
  BY <1>1 DEF Joins
<1>3. \A k \in 1..(n + m) : k \in 1..n \/ (k - n \in 1..m /\ n + (k - n) = k)
  BY <1>2
<1>4. (\A k \in 1..n : k \in 1..(n + m)) /\ \A k \in 1..m : n + k \in 1..(n + m)
  BY <1>2
<1>5. Coming(s) = UNION {s[k].records : k \in 1..(n + m)}
      /\ Coming(a) = UNION {a[k].records : k \in 1..n} /\ Coming(b) = UNION {b[k].records : k \in 1..m}
  BY <1>1, <1>2 DEF Coming
<1>6. ASSUME NEW x PROVE x \in Coming(s) <=> x \in Coming(a) \/ x \in Coming(b)
  <2>1. ASSUME NEW k \in 1..(n + m), x \in s[k].records
        PROVE  x \in Coming(a) \/ x \in Coming(b)
    <3>1. CASE k \in 1..n
      BY <1>2, <1>5, <2>1, <3>1
    <3>2. CASE k - n \in 1..m /\ n + (k - n) = k
      <4>1. PICK j \in 1..m : j = k - n /\ n + j = k
        BY <3>2
      <4>2. s[n + j] = b[j]
        BY <1>2
      <4>3. x \in b[j].records
        BY <2>1, <4>1, <4>2
      <4> QED BY <1>5, <4>3
    <3> QED BY <1>3, <3>1, <3>2
  <2>2. ASSUME NEW k \in 1..n, x \in a[k].records
        PROVE  x \in Coming(s)
    BY <1>2, <1>4, <1>5, <2>2
  <2>3. ASSUME NEW k \in 1..m, x \in b[k].records
        PROVE  x \in Coming(s)
    <3>1. PICK i \in 1..(n + m) : s[i] = b[k]
      BY <1>2, <1>4
    <3>2. x \in s[i].records
      BY <2>3, <3>1
    <3> QED BY <1>5, <3>2
  <2>4. /\ x \in Coming(s) => \E k \in 1..(n + m) : x \in s[k].records
        /\ x \in Coming(a) => \E k \in 1..n : x \in a[k].records
        /\ x \in Coming(b) => \E k \in 1..m : x \in b[k].records
    BY <1>5
  <2> QED BY <2>1, <2>2, <2>3, <2>4
<1> QED BY <1>6

(* Blocks about different parts, one after the other, are a block.         *)
LEMMA BlocksJoin ==
  ASSUME NEW a, NEW b, NEW parts, NEW others, NEW past, parts \cap others = {},
         Block(a, parts, past), Block(b, others, past \cup Coming(a))
  PROVE  Block(a \o b, parts \cup others, past) /\ Coming(a \o b) = Coming(a) \cup Coming(b)
<1>1. a \in Seq(MakingSteps) /\ b \in Seq(MakingSteps)
  BY DEF Block
<1>2. PICK s : s = a \o b
  OBVIOUS
<1>3. Joins(s, a, b)
  BY <1>1, <1>2, Joined
<1>4. PICK n, m : n = Len(a) /\ m = Len(b)
  OBVIOUS
<1>5. /\ s \in Seq(MakingSteps) /\ n \in Nat /\ m \in Nat /\ Len(s) = n + m
      /\ \A k \in Int : 1 <= k /\ k <= n => s[k] = a[k]
      /\ \A k \in Int : 1 <= k /\ k <= m => s[n + k] = b[k]
  BY <1>3, <1>4 DEF Joins
<1>6. Coming(s) = Coming(a) \cup Coming(b)
  BY <1>3, ComingJoins
<1>7. ASSUME NEW k \in 1..n
      PROVE  /\ {s[k].part} \cup s[k].records \subseteq parts \cup others
             /\ MakesOnce(s, k) /\ SetsMade(s, k) /\ RecordsMade(s, k) /\ Follows(s, k, past)
             /\ s[k].inUse = "fails" /\ s[k].on = "fails" /\ s[k].part # "addon"
  <2>1. /\ {a[k].part} \cup a[k].records \subseteq parts
        /\ MakesOnce(a, k) /\ SetsMade(a, k) /\ RecordsMade(a, k) /\ Follows(a, k, past)
        /\ a[k].inUse = "fails" /\ a[k].on = "fails" /\ a[k].part # "addon"
    BY <1>4 DEF Block
  <2>2. s[k] = a[k] /\ \A j \in 1..n : s[j] = a[j]
    BY <1>5
  <2>3. /\ \A j \in 1..(k - 1) : j \in 1..n
        /\ \A j \in 1..k : j \in 1..n
        /\ \A j \in k..n : j \in 1..n /\ j \in k..(n + m)
        /\ k < n => k + 1 \in 1..n /\ k < n + m
    BY <1>5
  <2>4. MakesOnce(s, k)
    BY <1>4, <1>5, <2>1, <2>2, <2>3 DEF MakesOnce
  <2>5. SetsMade(s, k)
    BY <2>1, <2>2, <2>3 DEF SetsMade, HasMade, Before
  <2>6. RecordsMade(s, k)
    BY <2>1, <2>2, <2>3 DEF RecordsMade, HasMade, Before, Equips
  <2>7. Follows(s, k, past)
    BY <2>1, <2>2, <2>3 DEF Follows, Recorded1st
  <2> QED BY <2>1, <2>2, <2>4, <2>5, <2>6, <2>7
<1>8. ASSUME NEW i \in 1..m
      PROVE  /\ {s[n + i].part} \cup s[n + i].records \subseteq parts \cup others
             /\ MakesOnce(s, n + i) /\ SetsMade(s, n + i) /\ RecordsMade(s, n + i)
             /\ Follows(s, n + i, past)
             /\ s[n + i].inUse = "fails" /\ s[n + i].on = "fails" /\ s[n + i].part # "addon"
  <2>1. /\ {b[i].part} \cup b[i].records \subseteq others
        /\ MakesOnce(b, i) /\ SetsMade(b, i) /\ RecordsMade(b, i) /\ Follows(b, i, past \cup Coming(a))
        /\ b[i].inUse = "fails" /\ b[i].on = "fails" /\ b[i].part # "addon"
    BY <1>4 DEF Block
  <2>2. PICK k \in 1..(n + m) : k = n + i
    BY <1>5
  <2>3. /\ s[k] = b[i] /\ \A j \in 1..m : s[n + j] = b[j]
        /\ i < m => s[k + 1] = b[i + 1]
    <3>1. s[k] = b[i] /\ \A j \in 1..m : s[n + j] = b[j]
      BY <1>5, <2>2
    <3>2. i < m => i + 1 \in 1..m /\ k + 1 = n + (i + 1)
      BY <1>5, <2>2
    <3> QED BY <3>1, <3>2
  <2>4. \A j \in 1..n : {s[j].part} \cup s[j].records \subseteq parts /\ s[j] = a[j] /\ j \in 1..(k - 1)
    BY <1>4, <1>5, <2>2 DEF Block
  <2>5. \A j \in 1..(k - 1) : j \in 1..n \/ \E h \in 1..(i - 1) : j = n + h /\ s[j] = b[h]
    <3>1. ASSUME NEW j \in 1..(k - 1), j \notin 1..n
          PROVE  \E h \in 1..(i - 1) : j = n + h /\ s[j] = b[h]
      <4>1. PICK h \in 1..(i - 1) : j = n + h
        <5>1. j - n \in 1..(i - 1) /\ j = n + (j - n)
          BY <1>5, <2>2, <3>1
        <5> QED BY <5>1
      <4>2. h \in 1..m
        BY <1>5
      <4>3. s[j] = b[h]
        BY <2>3, <4>1, <4>2
      <4> QED BY <4>1, <4>3
    <3> QED BY <3>1
  <2>6. /\ \A h \in 1..(i - 1) : \E j \in 1..(k - 1) : s[j] = b[h]
        /\ \A h \in 1..i : \E j \in 1..k : s[j] = b[h]
        /\ \A h \in i..m : \E j \in k..(n + m) : s[j] = b[h]
    <3>1. ASSUME NEW h \in 1..m
          PROVE  \E j \in Int : j = n + h /\ s[j] = b[h]
      BY <1>5, <2>3
    <3>2. /\ \A h \in 1..(i - 1) : h \in 1..m /\ n + h \in 1..(k - 1)
          /\ \A h \in 1..i : h \in 1..m /\ n + h \in 1..k
          /\ \A h \in i..m : h \in 1..m /\ n + h \in k..(n + m)
      BY <1>5, <2>2
    <3> QED BY <3>1, <3>2
  <2>7. i < m => k < n + m
    BY <1>5, <2>2
  <2>8. \A part : Before(b, i, part) => Before(s, k, part)
    BY <2>6 DEF Before
  <2>9. \A part, setting : Equips(b, i, part, setting) => Equips(s, k, part, setting)
    BY <2>6 DEF Equips
  <2>10. MakesOnce(s, k)
    <3>1. PICK part : part = b[i].part
      OBVIOUS
    <3>2. CASE b[i].op # "make"
      BY <2>3, <3>2 DEF MakesOnce
    <3>3. CASE b[i].op = "make"
      <4>1. /\ made[part] = None /\ work.rec[part] = None
            /\ \A j \in 1..(i - 1) : b[j].part # part
            /\ \E j \in i..m : part \in b[j].records
            /\ part \in Roles => i < m /\ b[i].records = {part} /\ Attaches(b[i + 1], part)
        BY <1>4, <2>1, <3>1, <3>3 DEF MakesOnce
      <4>2. \A j \in 1..(k - 1) : s[j].part # part
        BY <2>1, <2>4, <2>5, <3>1, <4>1
      <4>3. \E j \in k..Len(s) : part \in s[j].records
        BY <1>5, <2>6, <4>1
      <4>4. part \in Roles => k < Len(s) /\ s[k].records = {part} /\ Attaches(s[k + 1], part)
        BY <1>5, <2>3, <2>7, <4>1
      <4> QED BY <2>3, <3>1, <4>1, <4>2, <4>3, <4>4 DEF MakesOnce
    <3> QED BY <3>2, <3>3
  <2>11. SetsMade(s, k)
    BY <2>1, <2>3, <2>8 DEF SetsMade, HasMade
  <2>12. RecordsMade(s, k)
    BY <2>1, <2>3, <2>4, <2>5, <2>8, <2>9 DEF RecordsMade, HasMade
  <2>13. \A part : /\ part \in Coming(a) => Recorded1st(s, k, part)
                   /\ Recorded1st(b, i, part) => Recorded1st(s, k, part)
    <3>1. ASSUME NEW part, part \in Coming(a)
          PROVE  Recorded1st(s, k, part)
      BY <1>4, <2>4, <3>1 DEF Recorded1st, Coming
    <3>2. ASSUME NEW part, Recorded1st(b, i, part)
          PROVE  Recorded1st(s, k, part)
      BY <2>6, <3>2 DEF Recorded1st
    <3> QED BY <3>1, <3>2
  <2>14. Follows(s, k, past)
    BY <2>1, <2>3, <2>13 DEF Follows
  <2>15. k = n + i
    BY <2>2
  <2> QED BY <2>1, <2>3, <2>10, <2>11, <2>12, <2>14, <2>15
<1>9. \A k \in 1..Len(s) : k \in 1..n \/ \E i \in 1..m : k = n + i
  <2>1. ASSUME NEW k \in 1..(n + m), k \notin 1..n
        PROVE  \E i \in 1..m : k = n + i
    <3>1. k - n \in 1..m /\ k = n + (k - n)
      BY <1>5, <2>1
    <3> QED BY <3>1
  <2> QED BY <1>5, <2>1
<1>10. Block(s, parts \cup others, past)
  <2>1. ASSUME NEW k \in 1..Len(s)
        PROVE  /\ {s[k].part} \cup s[k].records \subseteq parts \cup others
               /\ MakesOnce(s, k) /\ SetsMade(s, k) /\ RecordsMade(s, k) /\ Follows(s, k, past)
               /\ s[k].inUse = "fails" /\ s[k].on = "fails" /\ s[k].part # "addon"
    <3>1. CASE k \in 1..n
      BY <1>7, <3>1
    <3>2. CASE \E i \in 1..m : k = n + i
      <4>1. PICK i \in 1..m : k = n + i
        BY <3>2
      <4> QED BY <1>8, <4>1
    <3> QED BY <1>9, <3>1, <3>2
  <2> QED BY <1>5, <2>1 DEF Block
<1> QED BY <1>2, <1>6, <1>10

(* The blocks.                                                             *)
LEMMA StepFields ==
  ASSUME NEW part \in Parts, NEW x \in Attributes, NEW step
  PROVE  /\ step = Make(part) =>
              /\ step \in MakingSteps /\ step.op = "make" /\ step.records = {}
              /\ step.part = part /\ step.inUse = "fails" /\ step.on = "fails"
         /\ step = MakeAndRecord(part) =>
              /\ step \in MakingSteps /\ step.op = "make" /\ step.records = {part}
              /\ step.part = part /\ step.inUse = "fails" /\ step.on = "fails"
         /\ step = Set(part, x) =>
              /\ step \in MakingSteps /\ step.op = "set" /\ step.setting = x /\ step.records = {}
              /\ step.part = part /\ step.inUse = "fails" /\ step.on = "fails"
         /\ step = SetAndRecord(part, x) =>
              /\ step \in MakingSteps /\ step.op = "set" /\ step.setting = x /\ step.records = {part}
              /\ step.part = part /\ step.inUse = "fails" /\ step.on = "fails"
<1>1. x # ""
  BY DEF Attributes
<1>2. /\ Make(part) \in MakingSteps /\ MakeAndRecord(part) \in MakingSteps
      /\ Set(part, x) \in MakingSteps /\ SetAndRecord(part, x) \in MakingSteps
  BY MakingFacts
<1>3. ASSUME step = Make(part)
      PROVE  /\ step \in MakingSteps /\ step.op = "make" /\ step.records = {}
             /\ step.part = part /\ step.inUse = "fails" /\ step.on = "fails"
  <2>1. step \in MakingSteps
    BY <1>2, <1>3
  <2> QED BY <1>1, <1>3, <2>1 DEF Make, Making, Step
<1>4. ASSUME step = MakeAndRecord(part)
      PROVE  /\ step \in MakingSteps /\ step.op = "make" /\ step.records = {part}
             /\ step.part = part /\ step.inUse = "fails" /\ step.on = "fails"
  <2>1. step \in MakingSteps
    BY <1>2, <1>4
  <2> QED BY <1>1, <1>4, <2>1 DEF MakeAndRecord, Making, Step
<1>5. ASSUME step = Set(part, x)
      PROVE  /\ step \in MakingSteps /\ step.op = "set" /\ step.setting = x /\ step.records = {}
             /\ step.part = part /\ step.inUse = "fails" /\ step.on = "fails"
  <2>1. step \in MakingSteps
    BY <1>2, <1>5
  <2> QED BY <1>1, <1>5, <2>1 DEF Set, Making, Step
<1>6. ASSUME step = SetAndRecord(part, x)
      PROVE  /\ step \in MakingSteps /\ step.op = "set" /\ step.setting = x /\ step.records = {part}
             /\ step.part = part /\ step.inUse = "fails" /\ step.on = "fails"
  <2>1. step \in MakingSteps
    BY <1>2, <1>6
  <2> QED BY <1>1, <1>6, <2>1 DEF SetAndRecord, Making, Step
<1> QED BY <1>3, <1>4, <1>5, <1>6, Zenon

LEMMA EmptyBlock ==
  ASSUME NEW parts, NEW past
  PROVE  Block(<<>>, parts, past) /\ Coming(<<>>) = {}
<1>1. 1..Len(<<>>) = {} /\ <<>> \in Seq(MakingSteps)
  OBVIOUS
<1> QED BY <1>1 DEF Block, Coming

(* What has nothing to it, and is nobody's turn.                           *)
Plain(part) ==
  part \in Parts \ (Each(Eip) \cup Each(NAT) \cup Each(PrivateRT) \cup {"addon"})

Vacant(part) == made[part] = None /\ work.rec[part] = None /\ part \notin Kept

LEMMA OneMade ==
  ASSUME NEW part, Plain(part), Vacant(part), part \notin Roles, Settings(part) = {}, NEW past
  PROVE  Block(<<MakeAndRecord(part)>>, {part}, past) /\ Coming(<<MakeAndRecord(part)>>) = {part}
<1>1. PICK a : a = MakeAndRecord(part)
  OBVIOUS
<1>2. /\ part \in Parts /\ a.op = "make" /\ a.part = part /\ a.records = {part} /\ a \in MakingSteps
      /\ a.inUse = "fails" /\ a.on = "fails" /\ part # "addon"
  <2>1. part \in Parts /\ "policies" \in Attributes /\ part # "addon"
    BY DEF Plain, Attributes
  <2> QED BY <1>1, <2>1, StepFields
<1>3. PICK s \in Seq(MakingSteps) : s = <<a>>
  <2>1. PICK first \in MakingSteps : first = a
    BY <1>2
  <2>2. <<first>> \in Seq(MakingSteps)
    OBVIOUS
  <2> QED BY <2>1, <2>2
<1>4. Len(s) = 1 /\ s[1] = a /\ 1..1 = {1} /\ 1..(1 - 1) = {}
  BY <1>3
<1>5. MakesOnce(s, 1)
  BY <1>2, <1>4 DEF MakesOnce, Vacant
<1>6. SetsMade(s, 1)
  BY <1>2, <1>4 DEF SetsMade
<1>7. RecordsMade(s, 1)
  BY <1>2, <1>4 DEF RecordsMade, Vacant
<1>8. Follows(s, 1, past)
  <2>1. part \notin Each(Eip) /\ part # "nat2" /\ part \notin Each(PrivateRT)
    BY Named DEF Plain
  <2>2. \A z \in Zones : Eip[z] # part
    BY <2>1 DEF Each
  <2> QED BY <1>2, <1>4, <2>1, <2>2 DEF Follows
<1>9. Block(s, {part}, past)
  BY <1>2, <1>4, <1>5, <1>6, <1>7, <1>8 DEF Block
<1>10. Coming(s) = {part}
  BY <1>2, <1>4 DEF Coming
<1> QED BY <1>1, <1>3, <1>9, <1>10

LEMMA RoleMade ==
  ASSUME NEW part \in Roles, Vacant(part), NEW past
  PROVE  /\ Block(<<MakeAndRecord(part), Set(part, "policies")>>, {part}, past)
         /\ Coming(<<MakeAndRecord(part), Set(part, "policies")>>) = {part}
<1>1. PICK a, b : a = MakeAndRecord(part) /\ b = Set(part, "policies")
  OBVIOUS
<1>2. /\ part \in Parts /\ a.op = "make" /\ a.part = part /\ a.records = {part} /\ a \in MakingSteps
      /\ a.inUse = "fails" /\ a.on = "fails" /\ part # "addon"
      /\ b.op = "set" /\ b.part = part /\ b.setting = "policies" /\ b.records = {}
      /\ b \in MakingSteps /\ b.inUse = "fails" /\ b.on = "fails"
  <2>1. part \in Parts /\ "policies" \in Attributes /\ part # "addon"
    BY Named DEF Attributes
  <2> QED BY <1>1, <2>1, StepFields
<1>3. PICK s \in Seq(MakingSteps) : s = <<a, b>>
  <2>1. PICK first \in MakingSteps, second \in MakingSteps : first = a /\ second = b
    BY <1>2
  <2>2. <<first, second>> \in Seq(MakingSteps)
    OBVIOUS
  <2> QED BY <2>1, <2>2
<1>4. Len(s) = 2 /\ s[1] = a /\ s[2] = b /\ 1..2 = {1, 2} /\ 1..(1 - 1) = {} /\ 1..(2 - 1) = {1}
  BY <1>3
<1>5. MakesOnce(s, 1) /\ MakesOnce(s, 2)
  BY <1>2, <1>4 DEF MakesOnce, Vacant, Attaches
<1>6. SetsMade(s, 1) /\ SetsMade(s, 2)
  BY <1>2, <1>4 DEF SetsMade, HasMade, Before
<1>7. RecordsMade(s, 1) /\ RecordsMade(s, 2)
  BY <1>2, <1>4 DEF RecordsMade, Vacant
<1>8. Follows(s, 1, past) /\ Follows(s, 2, past)
  <2>1. part \notin Each(Eip) /\ part # "nat2" /\ part \notin Each(PrivateRT)
    BY Named
  <2>2. \A z \in Zones : Eip[z] # part
    BY <2>1 DEF Each
  <2> QED BY <1>2, <1>4, <2>1, <2>2 DEF Follows
<1>9. Block(s, {part}, past)
  BY <1>2, <1>4, <1>5, <1>6, <1>7, <1>8 DEF Block
<1>10. Coming(s) = {part}
  BY <1>2, <1>4 DEF Coming
<1> QED BY <1>1, <1>3, <1>9, <1>10

LEMMA MadeAndSet ==
  ASSUME NEW part, Plain(part), Vacant(part), part \notin Roles,
         NEW x \in Attributes \ {"policies"}, Settings(part) = {x}, NEW past
  PROVE  /\ Block(<<Make(part), SetAndRecord(part, x)>>, {part}, past)
         /\ Coming(<<Make(part), SetAndRecord(part, x)>>) = {part}
<1>1. PICK a, b : a = Make(part) /\ b = SetAndRecord(part, x)
  OBVIOUS
<1>2. /\ part \in Parts /\ a.op = "make" /\ a.part = part /\ a.records = {} /\ a \in MakingSteps
      /\ a.inUse = "fails" /\ a.on = "fails" /\ part # "addon"
      /\ b.op = "set" /\ b.part = part /\ b.setting = x /\ b.records = {part}
      /\ b \in MakingSteps /\ b.inUse = "fails" /\ b.on = "fails"
  <2>1. part \in Parts /\ x \in Attributes /\ part # "addon"
    BY DEF Plain
  <2> QED BY <1>1, <2>1, StepFields
<1>3. PICK s \in Seq(MakingSteps) : s = <<a, b>>
  <2>1. PICK first \in MakingSteps, second \in MakingSteps : first = a /\ second = b
    BY <1>2
  <2>2. <<first, second>> \in Seq(MakingSteps)
    OBVIOUS
  <2> QED BY <2>1, <2>2
<1>4. /\ Len(s) = 2 /\ s[1] = a /\ s[2] = b /\ 1..2 = {1, 2} /\ 1..(1 - 1) = {} /\ 1..(2 - 1) = {1}
      /\ 2 \in 1..2
  BY <1>3
<1>5. MakesOnce(s, 1) /\ MakesOnce(s, 2)
  BY <1>2, <1>4 DEF MakesOnce, Vacant
<1>6. SetsMade(s, 1) /\ SetsMade(s, 2)
  BY <1>2, <1>4 DEF SetsMade, HasMade, Before, Vacant
<1>7. RecordsMade(s, 1) /\ RecordsMade(s, 2)
  BY <1>2, <1>4 DEF RecordsMade, Vacant, HasMade, Before, Equips
<1>8. Follows(s, 1, past) /\ Follows(s, 2, past)
  <2>1. part \notin Each(Eip) /\ part # "nat2" /\ part \notin Each(PrivateRT)
    BY Named DEF Plain
  <2>2. \A z \in Zones : Eip[z] # part
    BY <2>1 DEF Each
  <2> QED BY <1>2, <1>4, <2>1, <2>2 DEF Follows
<1>9. Block(s, {part}, past)
  BY <1>2, <1>4, <1>5, <1>6, <1>7, <1>8 DEF Block
<1>10. Coming(s) = {part}
  BY <1>2, <1>4 DEF Coming
<1> QED BY <1>1, <1>3, <1>9, <1>10

LEMMA MadeAndSetTwice ==
  ASSUME NEW part \in Parts, Vacant(part), part \notin Roles,
         part \notin Each(Eip) \cup Each(NAT) \cup {"addon"},
         NEW x \in Attributes \ {"policies"}, NEW y \in Attributes \ {"policies"},
         Settings(part) \subseteq {x, y},
         NEW past, part \in Each(PrivateRT) => "publicRT" \in past
  PROVE  /\ Block(<<Make(part), Set(part, x), SetAndRecord(part, y)>>, {part}, past)
         /\ Coming(<<Make(part), Set(part, x), SetAndRecord(part, y)>>) = {part}
<1>1. PICK a, b, c : a = Make(part) /\ b = Set(part, x) /\ c = SetAndRecord(part, y)
  OBVIOUS
<1>2. /\ a.op = "make" /\ a.part = part /\ a.records = {} /\ a \in MakingSteps
      /\ a.inUse = "fails" /\ a.on = "fails" /\ part # "addon"
      /\ b.op = "set" /\ b.part = part /\ b.setting = x /\ b.records = {}
      /\ b \in MakingSteps /\ b.inUse = "fails" /\ b.on = "fails"
      /\ c.op = "set" /\ c.part = part /\ c.setting = y /\ c.records = {part}
      /\ c \in MakingSteps /\ c.inUse = "fails" /\ c.on = "fails"
  <2>1. x \in Attributes /\ y \in Attributes /\ part # "addon"
    OBVIOUS
  <2> QED BY <1>1, <2>1, StepFields
<1>3. PICK s \in Seq(MakingSteps) : s = <<a, b, c>>
  <2>1. PICK first \in MakingSteps, second \in MakingSteps, third \in MakingSteps :
          first = a /\ second = b /\ third = c
    BY <1>2
  <2>2. <<first, second, third>> \in Seq(MakingSteps)
    OBVIOUS
  <2> QED BY <2>1, <2>2
<1>4. /\ Len(s) = 3 /\ s[1] = a /\ s[2] = b /\ s[3] = c /\ 1..3 = {1, 2, 3} /\ 1..(1 - 1) = {}
      /\ 1..(2 - 1) = {1} /\ 1..(3 - 1) = {1, 2} /\ 3 \in 1..3
  BY <1>3
<1>5. MakesOnce(s, 1) /\ MakesOnce(s, 2) /\ MakesOnce(s, 3)
  BY <1>2, <1>4 DEF MakesOnce, Vacant
<1>6. SetsMade(s, 1) /\ SetsMade(s, 2) /\ SetsMade(s, 3)
  BY <1>2, <1>4 DEF SetsMade, HasMade, Before, Vacant
<1>7. RecordsMade(s, 1) /\ RecordsMade(s, 2) /\ RecordsMade(s, 3)
  BY <1>2, <1>4 DEF RecordsMade, Vacant, HasMade, Before, Equips
<1>8. Follows(s, 1, past) /\ Follows(s, 2, past) /\ Follows(s, 3, past)
  <2>1. part \notin Each(Eip) /\ part # "nat2"
    BY Named
  <2>2. \A z \in Zones : Eip[z] # part
    BY <2>1 DEF Each
  <2> QED BY <1>2, <1>4, <2>1, <2>2 DEF Follows
<1>9. Block(s, {part}, past)
  BY <1>2, <1>4, <1>5, <1>6, <1>7, <1>8 DEF Block
<1>10. Coming(s) = {part}
  BY <1>2, <1>4 DEF Coming
<1> QED BY <1>1, <1>3, <1>9, <1>10

(* The address goes with the NAT gateway.                                  *)
LEMMA GatewayAndAddress ==
  ASSUME NEW z \in Zones, Vacant(Eip[z]), Vacant(NAT[z]),
         NEW past, NAT[z] = "nat2" => "nat1" \in past
  PROVE  /\ Block(<<Make(Eip[z]), Making(NAT[z], "", {Eip[z], NAT[z]})>>, {Eip[z], NAT[z]}, past)
         /\ Coming(<<Make(Eip[z]), Making(NAT[z], "", {Eip[z], NAT[z]})>>) = {Eip[z], NAT[z]}
<1>1. PICK a, b, eip, nat : /\ a = Make(Eip[z]) /\ b = Making(NAT[z], "", {Eip[z], NAT[z]})
                            /\ eip = Eip[z] /\ nat = NAT[z]
  OBVIOUS
<1>2. /\ eip \in Parts /\ nat \in Parts /\ eip # nat /\ eip \notin Roles /\ nat \notin Roles
      /\ eip # "addon" /\ nat # "addon" /\ eip # "nat2" /\ {eip, nat} \cap Each(PrivateRT) = {}
      /\ \A y \in Zones : Eip[y] \in {eip, nat} => NAT[y] = nat
  <2>1. (eip = "eip1" /\ nat = "nat1") \/ (eip = "eip2" /\ nat = "nat2")
    <3>1. z = 1 \/ z = 2
      BY DEF Zones
    <3>2. Eip[1] = "eip1" /\ NAT[1] = "nat1" /\ Eip[2] = "eip2" /\ NAT[2] = "nat2"
      BY DEF Eip, NAT
    <3> QED BY <1>1, <3>1, <3>2
  <2>2. \A y \in Zones : Eip[y] \in {eip, nat} => NAT[y] = nat
    BY <2>1 DEF Zones, Eip, NAT
  <2> QED BY <2>1, <2>2, Named
<1>3. /\ a.op = "make" /\ a.part = eip /\ a.records = {} /\ a \in MakingSteps
      /\ a.inUse = "fails" /\ a.on = "fails"
  <2>1. "policies" \in Attributes
    BY DEF Attributes
  <2>2. a = Make(eip)
    BY <1>1, Zenon
  <2> QED BY <1>2, <2>1, <2>2, StepFields
<1>4. b.op = "make" /\ b.part = nat /\ b.records = {eip, nat} /\ b.inUse = "fails" /\ b.on = "fails"
  BY <1>1 DEF Making, Step
<1>5. b \in MakingSteps
  <2>1. PICK records \in SUBSET Parts : records = {eip, nat}
    <3>1. eip \in Parts /\ nat \in Parts
      BY <1>2
    <3>2. {eip, nat} \subseteq Parts
      BY <3>1
    <3> QED BY <3>2
  <2>2. "policies" \in Attributes
    BY DEF Attributes
  <2>3. Making(nat, "", records) \in MakingSteps
    BY <1>2, <2>2, MakingFacts
  <2>4. b = Making(nat, "", records)
    BY <1>1, <2>1, Zenon
  <2> QED BY <2>3, <2>4
<1>6. PICK s \in Seq(MakingSteps) : s = <<a, b>>
  <2>1. PICK first \in MakingSteps, second \in MakingSteps : first = a /\ second = b
    BY <1>3, <1>5
  <2>2. <<first, second>> \in Seq(MakingSteps)
    OBVIOUS
  <2> QED BY <2>1, <2>2
<1>7. /\ Len(s) = 2 /\ s[1] = a /\ s[2] = b /\ 1..2 = {1, 2} /\ 1..(1 - 1) = {} /\ 1..(2 - 1) = {1}
      /\ 2 \in 1..2 /\ 2 \in 2..2
  BY <1>6
<1>8. Settings(eip) = {} /\ Settings(nat) = {}
  <2>1. eip \in Each(Eip) /\ nat \in Each(NAT)
    BY <1>1 DEF Each
  <2> QED BY <2>1, SettingsOf DEF SettingsKnown
<1>9. Vacant(eip) /\ Vacant(nat)
  BY <1>1
<1>10. MakesOnce(s, 1) /\ MakesOnce(s, 2)
  BY <1>2, <1>3, <1>4, <1>7, <1>9 DEF MakesOnce, Vacant
<1>11. SetsMade(s, 1) /\ SetsMade(s, 2)
  BY <1>3, <1>4, <1>7 DEF SetsMade
<1>12. RecordsMade(s, 1) /\ RecordsMade(s, 2)
  <2>1. Before(s, 2, eip)
    BY <1>3, <1>7 DEF Before
  <2>2. eip \in Each(Eip)
    BY <1>1 DEF Each
  <2> QED BY <1>2, <1>3, <1>4, <1>7, <1>8, <1>9, <2>1, <2>2 DEF RecordsMade, HasMade, Vacant
<1>13. Follows(s, 1, past) /\ Follows(s, 2, past)
  <2>1. nat = "nat2" => "nat1" \in past
    BY <1>1
  <2> QED BY <1>2, <1>3, <1>4, <1>7, <2>1 DEF Follows
<1>14. Block(s, {eip, nat}, past)
  BY <1>2, <1>3, <1>4, <1>7, <1>10, <1>11, <1>12, <1>13 DEF Block
<1>15. Coming(s) = {eip, nat}
  BY <1>3, <1>4, <1>7 DEF Coming
<1> QED BY <1>1, <1>6, <1>14, <1>15

LEMMA MaybeBlock ==
  ASSUME NEW condition \in BOOLEAN, NEW s, NEW parts, NEW past,
         condition => Block(s, parts, past)
  PROVE  /\ Block(If(condition, s), parts, past)
         /\ Coming(If(condition, s)) = IF condition THEN Coming(s) ELSE {}
<1>1. CASE condition
  <2>1. If(condition, s) = s
    BY <1>1 DEF If
  <2> QED BY <1>1, <2>1
<1>2. CASE ~condition
  <2>1. If(condition, s) = <<>>
    BY <1>2 DEF If
  <2>2. Block(<<>>, parts, past) /\ Coming(<<>>) = {}
    BY EmptyBlock
  <2> QED BY <1>2, <2>1, <2>2
<1> QED BY <1>1, <1>2

LEMMA MaybeMade ==
  ASSUME NEW part, NEW s, NEW past,
         ~IsRecorded(part) => Block(s, {part}, past) /\ Coming(s) = {part}
  PROVE  /\ Block(If(~IsRecorded(part), s), {part}, past)
         /\ Coming(If(~IsRecorded(part), s)) = IF ~IsRecorded(part) THEN {part} ELSE {}
<1>1. PICK c \in BOOLEAN : c = ~IsRecorded(part)
  OBVIOUS
<1>2. c => Block(s, {part}, past)
  BY <1>1
<1>3. Block(If(c, s), {part}, past) /\ Coming(If(c, s)) = IF c THEN Coming(s) ELSE {}
  BY <1>2, MaybeBlock
<1>4. If(c, s) = If(~IsRecorded(part), s)
  BY <1>1, Zenon
<1> QED BY <1>1, <1>3, <1>4

LEMMA BlockOrderly ==
  ASSUME NEW s, NEW parts, Block(s, parts, {})
  PROVE  Orderly(s)
BY DEF Block, Orderly, Follows, InTurn, Insists

(* A phase begins.                                                         *)
Starts(phase) ==
  /\ IInv /\ Sure /\ ~work.deleting /\ pc = "phase" /\ work.phase = phase /\ phase \in Creating

Begins(script, phase) ==
  /\ script \in FindingScripts \/ Orderly(script)
  /\ Promised \cap Makes[phase] \cap NoPart(work.rec) \subseteq Coming(script)
  /\ InOrder(work.rec, Coming(script))

LEMMA StartFacts ==
  ASSUME NEW phase, Starts(phase)
  PROVE  /\ config \in Setups /\ work.rec \in RecordType /\ made = NoRecord /\ todo = <<>>
         /\ \A part \in Parts : Vacant(part) <=> ~IsRecorded(part) /\ part \notin Kept
         /\ \A part \in Parts : part \in NoPart(work.rec) <=> ~IsRecorded(part)
         /\ Kept \subseteq {"vpc", "public1", "private1"}
         /\ OwnVpc => "vpc" \notin Kept
         /\ OwnSubnets => Kept \subseteq {"vpc"}
         /\ InOrder(work.rec, {}) /\ Reached(work)
<1>1. config \in Setups /\ work.rec \in RecordType /\ made = NoRecord /\ todo = <<>>
  BY Known DEF Starts, AtPc
<1>2. \A part \in Parts : made[part] = None
  BY <1>1 DEF NoRecord
<1>3. /\ \A part \in Parts : Vacant(part) <=> ~IsRecorded(part) /\ part \notin Kept
      /\ \A part \in Parts : part \in NoPart(work.rec) <=> ~IsRecorded(part)
  BY <1>2 DEF Vacant, IsRecorded, NoPart
<1>4. Coming(todo) = {}
  BY <1>1, GoneNow
<1>5. InOrder(work.rec, {}) /\ Reached(work)
  BY <1>4 DEF Starts, Sure, Doing, Whole
<1> QED BY <1>1, <1>3, <1>5, ForeignFacts

(* Most of the scripts have nothing to do with what comes in order.        *)
LEMMA OutOfOrder ==
  ASSUME InOrder(work.rec, {}), NEW coming, coming \cap {"nat1", "publicRT"} = {}
  PROVE  InOrder(work.rec, coming)
BY DEF InOrder, Complete

LEMMA RolesBegin ==
  ASSUME Starts("CreatingIAMRoles")
  PROVE  Begins(reconcileIAMRoles, "CreatingIAMRoles")
<1>1. /\ config \in Setups /\ InOrder(work.rec, {})
      /\ \A part \in Roles : /\ part \in Parts /\ part \notin {"nat1", "publicRT"}
                             /\ ~IsRecorded(part) => Vacant(part)
                             /\ part \in NoPart(work.rec) <=> ~IsRecorded(part)
  BY StartFacts, Named
<1>2. ASSUME NEW part \in Roles
      PROVE  \A past : /\ Block(role(part), {part}, past)
                       /\ Coming(role(part)) = IF ~IsRecorded(part) THEN {part} ELSE {}
  <2> TAKE past
  <2>1. PICK s : s = <<MakeAndRecord(part), Set(part, "policies")>>
    OBVIOUS
  <2>2. ~IsRecorded(part) => Block(s, {part}, past) /\ Coming(s) = {part}
    BY <1>1, <2>1, RoleMade
  <2>3. role(part) = If(~IsRecorded(part), s)
    BY <2>1, Zenon DEF role
  <2> QED BY <2>2, <2>3, MaybeMade
<1>3. PICK a, b : a = role("clusterRole") /\ b = role("nodeRole")
  OBVIOUS
<1>4. /\ \A past : Block(a, {"clusterRole"}, past) /\ Block(b, {"nodeRole"}, past)
      /\ Coming(a) = IF ~IsRecorded("clusterRole") THEN {"clusterRole"} ELSE {}
      /\ Coming(b) = IF ~IsRecorded("nodeRole") THEN {"nodeRole"} ELSE {}
  <2>1. "clusterRole" \in Roles /\ "nodeRole" \in Roles
    BY Named
  <2> QED BY <1>2, <1>3, <2>1
<1>5. /\ Block(a \o b, {"clusterRole"} \cup {"nodeRole"}, {})
      /\ Coming(a \o b) = Coming(a) \cup Coming(b)
  BY <1>4, BlocksJoin
<1>6. PICK s : s = a \o b
  OBVIOUS
<1>7. Orderly(s) /\ Coming(s) = Coming(a) \cup Coming(b)
  BY <1>5, <1>6, BlockOrderly
<1>8. Makes["CreatingIAMRoles"] = Roles
  BY DEF Makes
<1>9. Promised \cap Roles \cap NoPart(work.rec) \subseteq Coming(s)
  BY <1>1, <1>4, <1>7, Named
<1>10. InOrder(work.rec, Coming(s))
  <2>1. PICK coming : coming = Coming(s)
    OBVIOUS
  <2>2. coming \cap {"nat1", "publicRT"} = {}
    BY <1>4, <1>7, <2>1
  <2> QED BY <1>1, <2>1, <2>2, OutOfOrder
<1>11. s = reconcileIAMRoles
  BY <1>3, <1>6 DEF reconcileIAMRoles
<1> QED BY <1>7, <1>8, <1>9, <1>10, <1>11 DEF Begins

(* The phases that make one thing.                                         *)
LEMMA OneBegins ==
  ASSUME NEW phase, Starts(phase), NEW part \in Parts, Makes[phase] = {part},
         part \notin {"nat1", "publicRT"},
         NEW s, ~IsRecorded(part) => Orderly(s) /\ Coming(s) = {part}
  PROVE  Begins(If(~IsRecorded(part), s), phase)
<1>1. InOrder(work.rec, {}) /\ (part \in NoPart(work.rec) <=> ~IsRecorded(part))
  BY StartFacts
<1>2. PICK script : script = If(~IsRecorded(part), s)
  OBVIOUS
<1>3. Orderly(script) /\ Coming(script) = IF ~IsRecorded(part) THEN {part} ELSE {}
  <2>1. CASE IsRecorded(part)
    <3>1. script = <<>>
      BY <1>2, <2>1 DEF If
    <3> QED BY <2>1, <3>1, GoneNow
  <2>2. CASE ~IsRecorded(part)
    <3>1. script = s
      BY <1>2, <2>2 DEF If
    <3> QED BY <2>2, <3>1
  <2> QED BY <2>1, <2>2
<1>4. InOrder(work.rec, Coming(script))
  <2>1. PICK coming : coming = Coming(script)
    OBVIOUS
  <2>2. coming \cap {"nat1", "publicRT"} = {}
    BY <1>3, <2>1
  <2> QED BY <1>1, <2>1, <2>2, OutOfOrder
<1>5. Promised \cap Makes[phase] \cap NoPart(work.rec) \subseteq Coming(script)
  BY <1>1, <1>3
<1> QED BY <1>2, <1>3, <1>4, <1>5 DEF Begins

LEMMA GatewayBegins ==
  ASSUME Starts("CreatingIGW")
  PROVE  Begins(reconcileInternetGateway, "CreatingIGW")
<1>1. PICK s : s = <<Make("igw"), SetAndRecord("igw", "attachment")>>
  OBVIOUS
<1>2. "igw" \in Parts /\ "igw" \notin {"nat1", "publicRT"} /\ "igw" \notin Roles /\ Plain("igw")
  BY Named DEF Plain
<1>3. ~IsRecorded("igw") => Orderly(s) /\ Coming(s) = {"igw"}
  <2> SUFFICES ASSUME ~IsRecorded("igw") PROVE Orderly(s) /\ Coming(s) = {"igw"}
    OBVIOUS
  <2>1. Vacant("igw")
    BY <1>2, StartFacts
  <2>2. PICK part, x : part = "igw" /\ x = "attachment"
    OBVIOUS
  <2>3. Settings(part) = {x} /\ x \in Attributes \ {"policies"}
    BY <2>2, SettingsOf DEF SettingsKnown, Attributes
  <2>4. /\ Block(<<Make(part), SetAndRecord(part, x)>>, {part}, {})
        /\ Coming(<<Make(part), SetAndRecord(part, x)>>) = {part}
    BY <1>2, <2>1, <2>2, <2>3, MadeAndSet
  <2>5. s = <<Make(part), SetAndRecord(part, x)>>
    BY <1>1, <2>2, Zenon
  <2> QED BY <2>2, <2>4, <2>5, BlockOrderly
<1>4. Makes["CreatingIGW"] = {"igw"}
  BY DEF Makes
<1>5. Begins(If(~IsRecorded("igw"), s), "CreatingIGW")
  BY <1>2, <1>3, <1>4, OneBegins
<1> QED BY <1>1, <1>5 DEF reconcileInternetGateway

LEMMA ClusterBegins ==
  ASSUME NEW phase, Starts(phase), NEW part \in {"cluster", "pool"}, Makes[phase] = {part}
  PROVE  Begins(If(~IsRecorded(part), <<MakeAndRecord(part)>>), phase)
<1>1. PICK s : s = <<MakeAndRecord(part)>>
  OBVIOUS
<1>2. part \in Parts /\ part \notin {"nat1", "publicRT"} /\ part \notin Roles /\ Plain(part)
  BY Named DEF Plain
<1>3. ~IsRecorded(part) => Orderly(s) /\ Coming(s) = {part}
  <2> SUFFICES ASSUME ~IsRecorded(part) PROVE Orderly(s) /\ Coming(s) = {part}
    OBVIOUS
  <2>1. Vacant(part)
    BY <1>2, StartFacts
  <2>2. Settings(part) = {}
    BY SettingsOf DEF SettingsKnown
  <2>3. Block(<<MakeAndRecord(part)>>, {part}, {}) /\ Coming(<<MakeAndRecord(part)>>) = {part}
    BY <1>2, <2>1, <2>2, OneMade
  <2> QED BY <1>1, <2>3, BlockOrderly
<1>4. Begins(If(~IsRecorded(part), s), phase)
  BY <1>2, <1>3, OneBegins
<1> QED BY <1>1, <1>4

LEMMA AddonBegins ==
  ASSUME Starts("InstallingAddons")
  PROVE  Begins(reconcileAddons, "InstallingAddons")
<1>1. PICK s, a : s = <<a>> /\ a = TryMake("addon")
  OBVIOUS
<1>2. "addon" \in Parts /\ "addon" \notin {"nat1", "publicRT"} /\ "addon" \notin Roles
      /\ "addon" \notin Each(Eip) \cup Each(PrivateRT)
  BY Named
<1>3. ~IsRecorded("addon") => Orderly(s) /\ Coming(s) = {"addon"}
  <2> SUFFICES ASSUME ~IsRecorded("addon") PROVE Orderly(s) /\ Coming(s) = {"addon"}
    OBVIOUS
  <2>1. Vacant("addon")
    BY <1>2, StartFacts
  <2>2. /\ a.op = "make" /\ a.part = "addon" /\ a.records = {"addon"}
        /\ a.inUse = "fails" /\ a.on = "passes"
    BY <1>1 DEF TryMake, MakeAndRecord, Making, Step
  <2>3. Len(s) = 1 /\ s[1] = a /\ 1..1 = {1} /\ 1..(1 - 1) = {} /\ 1 \in 1..1
    BY <1>1
  <2>4. Settings("addon") = {}
    BY SettingsOf DEF SettingsKnown
  <2>5. MakesOnce(s, 1) /\ SetsMade(s, 1)
    BY <1>2, <2>1, <2>2, <2>3 DEF MakesOnce, SetsMade, Vacant
  <2>6. RecordsMade(s, 1)
    BY <1>2, <2>1, <2>2, <2>3, <2>4 DEF RecordsMade, Vacant
  <2>7. InTurn(s, 1)
    <3>1. \A z \in Zones : Eip[z] # "addon"
      BY <1>2 DEF Each
    <3> QED BY <1>2, <2>2, <2>3, <3>1 DEF InTurn
  <2>8. Insists(s, 1)
    BY <2>2, <2>3 DEF Insists
  <2>9. Orderly(s)
    BY <2>3, <2>5, <2>6, <2>7, <2>8 DEF Orderly
  <2>10. Coming(s) = {"addon"}
    BY <2>2, <2>3 DEF Coming
  <2> QED BY <2>9, <2>10
<1>4. Makes["InstallingAddons"] = {"addon"}
  BY DEF Makes
<1>5. Begins(If(~IsRecorded("addon"), s), "InstallingAddons")
  BY <1>2, <1>3, <1>4, OneBegins
<1> QED BY <1>1, <1>5 DEF reconcileAddons

(* What the user has is looked for.                                        *)
LEMMA FindBegins ==
  ASSUME NEW phase, Starts(phase), NEW parts \in SUBSET Kept,
         Promised \cap Makes[phase] \cap NoPart(work.rec) \subseteq parts
  PROVE  Begins(<<Find(parts)>>, phase)
<1>1. InOrder(work.rec, {}) /\ Kept \subseteq {"vpc", "public1", "private1"}
  BY StartFacts
<1>2. PICK s, a : s = <<a>> /\ a = Find(parts)
  OBVIOUS
<1>3. a.records = parts
  BY <1>2 DEF Find, Step
<1>4. Len(s) = 1 /\ s[1] = a /\ 1..1 = {1}
  BY <1>2
<1>5. Coming(s) = parts
  BY <1>3, <1>4 DEF Coming
<1>6. InOrder(work.rec, parts)
  <2>1. parts \cap {"nat1", "publicRT"} = {}
    BY <1>1
  <2> QED BY <1>1, <2>1, OutOfOrder
<1>7. s \in FindingScripts
  BY <1>2 DEF FindingScripts
<1> QED BY <1>2, <1>5, <1>6, <1>7 DEF Begins

LEMMA VpcBegins ==
  ASSUME Starts("CreatingVPC")
  PROVE  Begins(reconcileVPC, "CreatingVPC")
<1>1. PICK s : s = IF OwnVpc
                   THEN <<Make("vpc"), Set("vpc", "hostnames"), SetAndRecord("vpc", "support")>>
                   ELSE <<Find({"vpc"})>>
  OBVIOUS
<1>2. /\ "vpc" \in Parts /\ "vpc" \notin {"nat1", "publicRT"} /\ "vpc" \notin Roles
      /\ "vpc" \notin Each(Eip) \cup Each(NAT) \cup {"addon"} /\ "vpc" \notin Each(PrivateRT)
  BY Named
<1>3. Makes["CreatingVPC"] = {"vpc"}
  BY DEF Makes
<1>4. ASSUME OwnVpc
      PROVE  Begins(If(~IsRecorded("vpc"), s), "CreatingVPC")
  <2>1. ~IsRecorded("vpc") => Orderly(s) /\ Coming(s) = {"vpc"}
    <3> SUFFICES ASSUME ~IsRecorded("vpc") PROVE Orderly(s) /\ Coming(s) = {"vpc"}
      OBVIOUS
    <3>1. Vacant("vpc")
      BY <1>2, <1>4, StartFacts
    <3>2. PICK part, x, y : part = "vpc" /\ x = "hostnames" /\ y = "support"
      OBVIOUS
    <3>3. Settings(part) \subseteq {x, y} /\ x \in Attributes \ {"policies"} /\ y \in Attributes \ {"policies"}
      BY <1>4, <3>2, SettingsOf DEF SettingsKnown, Attributes
    <3>4. /\ Block(<<Make(part), Set(part, x), SetAndRecord(part, y)>>, {part}, {})
          /\ Coming(<<Make(part), Set(part, x), SetAndRecord(part, y)>>) = {part}
      BY <1>2, <3>1, <3>2, <3>3, MadeAndSetTwice
    <3>5. s = <<Make(part), Set(part, x), SetAndRecord(part, y)>>
      BY <1>1, <1>4, <3>2, Zenon
    <3> QED BY <3>2, <3>4, <3>5, BlockOrderly
  <2> QED BY <1>2, <1>3, <2>1, OneBegins
<1>5. ASSUME ~OwnVpc
      PROVE  Begins(If(~IsRecorded("vpc"), s), "CreatingVPC")
  <2>1. CASE IsRecorded("vpc")
    <3>1. If(~IsRecorded("vpc"), s) = <<>>
      BY <2>1 DEF If
    <3>2. "vpc" \notin NoPart(work.rec) /\ InOrder(work.rec, {})
      BY <1>2, <2>1, StartFacts
    <3> QED BY <1>3, <3>1, <3>2, GoneNow DEF Begins
  <2>2. CASE ~IsRecorded("vpc")
    <3>1. {"vpc"} \subseteq Kept
      BY <1>5, ForeignFacts, StartFacts
    <3>2. PICK parts \in SUBSET Kept : parts = {"vpc"}
      BY <3>1
    <3>3. Begins(<<Find(parts)>>, "CreatingVPC")
      BY <1>3, <3>2, FindBegins
    <3>4. s = <<Find(parts)>> /\ If(~IsRecorded("vpc"), s) = s
      BY <1>1, <1>5, <2>2, <3>2 DEF If
    <3> QED BY <3>3, <3>4
  <2> QED BY <2>1, <2>2
<1>6. reconcileVPC = If(~IsRecorded("vpc"), s)
  BY <1>1, Zenon DEF reconcileVPC
<1> QED BY <1>4, <1>5, <1>6

LEMMA GroupsBegin ==
  ASSUME Starts("CreatingSecGroups")
  PROVE  Begins(reconcileSecurityGroups, "CreatingSecGroups")
<1>1. PICK s, t : /\ s = <<MakeAndRecord("clusterSG")>>
                  /\ t = <<Make("nodeSG"), Set("nodeSG", "nodes"), SetAndRecord("nodeSG", "cluster")>>
  OBVIOUS
<1>2. /\ "clusterSG" \in Parts /\ Plain("clusterSG") /\ "clusterSG" \notin Roles
      /\ "nodeSG" \in Parts /\ "nodeSG" \notin Roles
      /\ "nodeSG" \notin Each(Eip) \cup Each(NAT) \cup {"addon"} /\ "nodeSG" \notin Each(PrivateRT)
  BY Named DEF Plain
<1>3. /\ InOrder(work.rec, {})
      /\ ~IsRecorded("clusterSG") => Vacant("clusterSG")
      /\ ~IsRecorded("nodeSG") => Vacant("nodeSG")
      /\ "clusterSG" \in NoPart(work.rec) <=> ~IsRecorded("clusterSG")
      /\ "nodeSG" \in NoPart(work.rec) <=> ~IsRecorded("nodeSG")
  BY <1>2, StartFacts
<1>4. ~IsRecorded("clusterSG") => Block(s, {"clusterSG"}, {}) /\ Coming(s) = {"clusterSG"}
  <2>1. Settings("clusterSG") = {}
    BY SettingsOf DEF SettingsKnown
  <2>2. PICK part : part = "clusterSG"
    OBVIOUS
  <2>3. Vacant(part) => Block(<<MakeAndRecord(part)>>, {part}, {}) /\ Coming(<<MakeAndRecord(part)>>) = {part}
    BY <1>2, <2>1, <2>2, OneMade
  <2> QED BY <1>1, <1>3, <2>2, <2>3
<1>5. ~IsRecorded("nodeSG") =>
        \A past : Block(t, {"nodeSG"}, past) /\ Coming(t) = {"nodeSG"}
  <2> SUFFICES ASSUME ~IsRecorded("nodeSG"), NEW past
               PROVE  Block(t, {"nodeSG"}, past) /\ Coming(t) = {"nodeSG"}
    OBVIOUS
  <2>1. PICK part, x, y : part = "nodeSG" /\ x = "nodes" /\ y = "cluster"
    OBVIOUS
  <2>2. Settings(part) \subseteq {x, y} /\ x \in Attributes \ {"policies"} /\ y \in Attributes \ {"policies"}
    BY <2>1, SettingsOf DEF SettingsKnown, Attributes
  <2>3. /\ Block(<<Make(part), Set(part, x), SetAndRecord(part, y)>>, {part}, past)
        /\ Coming(<<Make(part), Set(part, x), SetAndRecord(part, y)>>) = {part}
    BY <1>2, <1>3, <2>1, <2>2, MadeAndSetTwice
  <2>4. t = <<Make(part), Set(part, x), SetAndRecord(part, y)>>
    BY <1>1, <2>1, Zenon
  <2> QED BY <2>1, <2>3, <2>4
<1>6. PICK a, b : a = If(~IsRecorded("clusterSG"), s) /\ b = If(~IsRecorded("nodeSG"), t)
  OBVIOUS
<1>7. /\ Block(a, {"clusterSG"}, {}) /\ \A past : Block(b, {"nodeSG"}, past)
      /\ Coming(a) = IF ~IsRecorded("clusterSG") THEN {"clusterSG"} ELSE {}
      /\ Coming(b) = IF ~IsRecorded("nodeSG") THEN {"nodeSG"} ELSE {}
  BY <1>4, <1>5, <1>6, MaybeMade
<1>8. /\ Block(a \o b, {"clusterSG"} \cup {"nodeSG"}, {})
      /\ Coming(a \o b) = Coming(a) \cup Coming(b)
  BY <1>7, BlocksJoin
<1>9. PICK script : script = a \o b
  OBVIOUS
<1>10. Orderly(script) /\ Coming(script) = Coming(a) \cup Coming(b)
  BY <1>8, <1>9, BlockOrderly
<1>11. Makes["CreatingSecGroups"] = Groups
  BY DEF Makes
<1>12. Promised \cap Groups \cap NoPart(work.rec) \subseteq Coming(script)
  BY <1>3, <1>7, <1>10, Named
<1>13. InOrder(work.rec, Coming(script))
  <2>1. PICK coming : coming = Coming(script)
    OBVIOUS
  <2>2. coming \cap {"nat1", "publicRT"} = {}
    BY <1>7, <1>10, <2>1
  <2> QED BY <1>3, <2>1, <2>2, OutOfOrder
<1>14. script = reconcileSecurityGroups
  BY <1>1, <1>6, <1>9, Zenon DEF reconcileSecurityGroups
<1> QED BY <1>10, <1>11, <1>12, <1>13, <1>14 DEF Begins

LEMMA SubnetsBegin ==
  ASSUME Starts("CreatingSubnets")
  PROVE  Begins(reconcileSubnets, "CreatingSubnets")
<1>1. /\ config \in Setups /\ InOrder(work.rec, {})
      /\ OwnSubnets => Kept \subseteq {"vpc"}
      /\ \A part \in Subnets : /\ part \in Parts /\ Plain(part) /\ part \notin Roles
                               /\ part \notin {"vpc", "nat1", "publicRT"}
                               /\ part \notin Kept /\ ~IsRecorded(part) => Vacant(part)
                               /\ part \in NoPart(work.rec) <=> ~IsRecorded(part)
  <2>1. \A part \in Subnets : /\ part \in Parts /\ Plain(part) /\ part \notin Roles
                              /\ part \notin {"vpc", "nat1", "publicRT"}
    BY Named DEF Plain
  <2>2. /\ config \in Setups /\ InOrder(work.rec, {})
        /\ OwnSubnets => Kept \subseteq {"vpc"}
    BY StartFacts
  <2>3. \A part \in Parts : /\ part \notin Kept /\ ~IsRecorded(part) => Vacant(part)
                            /\ part \in NoPart(work.rec) <=> ~IsRecorded(part)
    BY StartFacts
  <2> QED BY <2>1, <2>2, <2>3
<1>2. Makes["CreatingSubnets"] = Subnets
  BY DEF Makes
<1>3. Wanted \cap Subnets = {}
  <2>1. Wanted \subseteq {"nat1", "nat2", "privateRT1", "privateRT2", "addon"}
    BY <1>1, WantedOf
  <2>2. Subnets \cap {"nat1", "nat2", "privateRT1", "privateRT2", "addon"} = {}
    BY Named
  <2> QED BY <2>1, <2>2
<1>13. Needed \cap Subnets \subseteq IF config.zones = 2 THEN Subnets ELSE {"public1", "private1"}
  <2>1. (Roles \cup Groups \cup {"vpc", "igw", "publicRT", "cluster", "pool", "nat1"}) \cap Subnets = {}
    BY Named
  <2>2. Needed \subseteq (Roles \cup Groups \cup {"vpc", "igw", "publicRT", "cluster", "pool", "nat1"})
                      \cup (IF config.zones = 2 THEN Subnets ELSE {"public1", "private1"})
    BY <1>1, NeededOf
  <2> QED BY <2>1, <2>2
<1>4. ASSUME ~OwnSubnets
      PROVE  Begins(reconcileSubnets, "CreatingSubnets")
  <2>1. PICK parts : parts = {"public1", "private1"}
    OBVIOUS
  <2>2. parts \subseteq Kept
    BY <1>4, <2>1 DEF Kept
  <2>3. Promised \cap Subnets \subseteq parts
    <3>1. config.zones = 1
      BY <1>1, <1>4, NeededOf
    <3>2. Needed \cap Subnets \subseteq {"public1", "private1"}
      BY <1>13, <3>1
    <3> QED BY <1>3, <2>1, <3>2 DEF Promised
  <2>4. Begins(<<Find(parts)>>, "CreatingSubnets")
    BY <1>2, <2>2, <2>3, FindBegins
  <2>5. reconcileSubnets = <<Find(parts)>>
    BY <1>4, <2>1, Zenon DEF reconcileSubnets
  <2> QED BY <2>4, <2>5
<1>5. ASSUME OwnSubnets
      PROVE  Begins(reconcileSubnets, "CreatingSubnets")
  <2>1. Public[1] = "public1" /\ Public[2] = "public2" /\ Private[1] = "private1" /\ Private[2] = "private2"
    BY DEF Public, Private
  <2>2. Kept \cap Subnets = {}
    BY <1>1, <1>5
  <2>3. ASSUME NEW part \in Each(Public), NEW past
        PROVE  LET s == If(~IsRecorded(part), <<Make(part), SetAndRecord(part, "publicIp")>>)
               IN Block(s, {part}, past) /\ Coming(s) = IF ~IsRecorded(part) THEN {part} ELSE {}
    <3>1. PICK x : x = "publicIp"
      OBVIOUS
    <3>2. Settings(part) = {x} /\ x \in Attributes \ {"policies"} /\ part \in Subnets
      BY <1>5, <3>1, SettingsOf DEF SettingsKnown, Attributes, Subnets
    <3>3. ~IsRecorded(part) =>
            /\ Block(<<Make(part), SetAndRecord(part, x)>>, {part}, past)
            /\ Coming(<<Make(part), SetAndRecord(part, x)>>) = {part}
      BY <1>1, <2>2, <3>2, MadeAndSet
    <3>4. PICK s : s = <<Make(part), SetAndRecord(part, x)>>
      OBVIOUS
    <3>5. /\ Block(If(~IsRecorded(part), s), {part}, past)
          /\ Coming(If(~IsRecorded(part), s)) = IF ~IsRecorded(part) THEN {part} ELSE {}
      BY <3>3, <3>4, MaybeMade
    <3> QED BY <3>1, <3>4, <3>5
  <2>4. ASSUME NEW part \in Each(Private), NEW past
        PROVE  LET s == If(~IsRecorded(part), <<MakeAndRecord(part)>>)
               IN Block(s, {part}, past) /\ Coming(s) = IF ~IsRecorded(part) THEN {part} ELSE {}
    <3>1. Settings(part) = {} /\ part \in Subnets
      BY SettingsOf DEF SettingsKnown, Subnets
    <3>2. ~IsRecorded(part) =>
            Block(<<MakeAndRecord(part)>>, {part}, past) /\ Coming(<<MakeAndRecord(part)>>) = {part}
      BY <1>1, <2>2, <3>1, OneMade
    <3>3. PICK s : s = <<MakeAndRecord(part)>>
      OBVIOUS
    <3>4. /\ Block(If(~IsRecorded(part), s), {part}, past)
          /\ Coming(If(~IsRecorded(part), s)) = IF ~IsRecorded(part) THEN {part} ELSE {}
      BY <3>2, <3>3, MaybeMade
    <3> QED BY <3>3, <3>4
  <2>5. PICK p1, p2, q1, q2 :
          /\ p1 = If(~IsRecorded("public1"), <<Make("public1"), SetAndRecord("public1", "publicIp")>>)
          /\ p2 = If(~IsRecorded("public2"), <<Make("public2"), SetAndRecord("public2", "publicIp")>>)
          /\ q1 = If(~IsRecorded("private1"), <<MakeAndRecord("private1")>>)
          /\ q2 = If(~IsRecorded("private2"), <<MakeAndRecord("private2")>>)
    OBVIOUS
  <2>6. /\ \A past : /\ Block(p1, {"public1"}, past) /\ Block(p2, {"public2"}, past)
                     /\ Block(q1, {"private1"}, past) /\ Block(q2, {"private2"}, past)
        /\ Coming(p1) = IF ~IsRecorded("public1") THEN {"public1"} ELSE {}
        /\ Coming(p2) = IF ~IsRecorded("public2") THEN {"public2"} ELSE {}
        /\ Coming(q1) = IF ~IsRecorded("private1") THEN {"private1"} ELSE {}
        /\ Coming(q2) = IF ~IsRecorded("private2") THEN {"private2"} ELSE {}
    <3>1. /\ "public1" \in Each(Public) /\ "public2" \in Each(Public)
          /\ "private1" \in Each(Private) /\ "private2" \in Each(Private)
      BY Named
    <3> QED BY <2>3, <2>4, <2>5, <3>1
  <2>7. PICK c \in BOOLEAN : c = (config.zones = 2)
    OBVIOUS
  <2>8. PICK r2, v2 : r2 = If(c, p2) /\ v2 = If(c, q2)
    OBVIOUS
  <2>9. /\ \A past : Block(r2, {"public2"}, past) /\ Block(v2, {"private2"}, past)
        /\ Coming(r2) = IF c THEN Coming(p2) ELSE {}
        /\ Coming(v2) = IF c THEN Coming(q2) ELSE {}
    BY <2>6, <2>8, MaybeBlock
  <2>10. PICK g, h : g = p1 \o r2 /\ h = q1 \o v2
    OBVIOUS
  <2>11. /\ \A past : Block(g, {"public1"} \cup {"public2"}, past)
         /\ Coming(g) = Coming(p1) \cup Coming(r2)
    <3> SUFFICES ASSUME NEW past
                 PROVE  /\ Block(g, {"public1"} \cup {"public2"}, past)
                        /\ Coming(g) = Coming(p1) \cup Coming(r2)
      OBVIOUS
    <3>1. Block(p1, {"public1"}, past) /\ Block(r2, {"public2"}, past \cup Coming(p1))
      BY <2>6, <2>9
    <3>2. {"public1"} \cap {"public2"} = {}
      OBVIOUS
    <3> QED BY <2>10, <3>1, <3>2, BlocksJoin
  <2>12. /\ \A past : Block(h, {"private1"} \cup {"private2"}, past)
         /\ Coming(h) = Coming(q1) \cup Coming(v2)
    <3> SUFFICES ASSUME NEW past
                 PROVE  /\ Block(h, {"private1"} \cup {"private2"}, past)
                        /\ Coming(h) = Coming(q1) \cup Coming(v2)
      OBVIOUS
    <3>1. Block(q1, {"private1"}, past) /\ Block(v2, {"private2"}, past \cup Coming(q1))
      BY <2>6, <2>9
    <3>2. {"private1"} \cap {"private2"} = {}
      OBVIOUS
    <3> QED BY <2>10, <3>1, <3>2, BlocksJoin
  <2>13. PICK ps, qs : ps = {"public1"} \cup {"public2"} /\ qs = {"private1"} \cup {"private2"}
    OBVIOUS
  <2>14. ps \cap qs = {}
    BY <2>13
  <2>15. Block(g \o h, ps \cup qs, {}) /\ Coming(g \o h) = Coming(g) \cup Coming(h)
    BY <2>11, <2>12, <2>13, <2>14, BlocksJoin
  <2>16. PICK s : s = g \o h
    OBVIOUS
  <2>17. Orderly(s) /\ Coming(s) = Coming(p1) \cup Coming(r2) \cup Coming(q1) \cup Coming(v2)
    BY <2>11, <2>12, <2>15, <2>16, BlockOrderly
  <2>18. Promised \cap Subnets \cap NoPart(work.rec) \subseteq Coming(s)
    <3>1. Promised \cap Subnets \subseteq IF config.zones = 2 THEN Subnets ELSE {"public1", "private1"}
      BY <1>3, <1>13 DEF Promised
    <3>2. \A part \in Subnets : part \in {"public1", "public2", "private1", "private2"}
      BY Named
    <3>3. ASSUME NEW part \in Subnets, ~IsRecorded(part), part \in Promised
          PROVE  part \in Coming(s)
      <4>1. part \in {"public2", "private2"} => c
        BY <2>7, <3>1, <3>3
      <4>2. part = "public1" => part \in Coming(p1)
        BY <2>6, <3>3
      <4>3. part = "public2" => part \in Coming(r2)
        BY <2>6, <2>9, <3>3, <4>1
      <4>4. part = "private1" => part \in Coming(q1)
        BY <2>6, <3>3
      <4>5. part = "private2" => part \in Coming(v2)
        BY <2>6, <2>9, <3>3, <4>1
      <4> QED BY <2>17, <3>2, <3>3, <4>2, <4>3, <4>4, <4>5
    <3> QED BY <1>1, <3>3
  <2>19. InOrder(work.rec, Coming(s))
    <3>1. PICK coming : coming = Coming(s)
      OBVIOUS
    <3>2. coming \cap {"nat1", "publicRT"} = {}
      BY <2>6, <2>9, <2>17, <3>1
    <3>3. InOrder(work.rec, coming)
      BY <1>1, <3>2, OutOfOrder
    <3> QED BY <3>1, <3>3, Zenon
  <2>20. s = reconcileSubnets
    <3>1. If(config.zones = 2, p2) = r2 /\ If(config.zones = 2, q2) = v2
      BY <2>7, <2>8, Zenon
    <3> QED BY <1>5, <2>1, <2>5, <2>10, <2>16, <3>1, Zenon DEF reconcileSubnets, InZones
  <2> QED BY <1>2, <2>17, <2>18, <2>19, <2>20 DEF Begins
<1> QED BY <1>4, <1>5

(* After the subnets have been made, they are recorded.                    *)
LEMMA SubnetsThere ==
  ASSUME NEW phase, Starts(phase), Rank(phase) > 5
  PROVE  /\ IsRecorded("private1")
         /\ config.zones = 2 => IsRecorded("public2") /\ IsRecorded("private2")
<1>1. /\ config \in Setups /\ Reached(work)
      /\ \A part \in Parts : part \in NoPart(work.rec) <=> ~IsRecorded(part)
  BY StartFacts
<1>2. work.phase = phase
  BY DEF Starts
<1>3. PICK q : q = "CreatingSubnets"
  OBVIOUS
<1>4. q \in Creating /\ Rank(q) = 5 /\ Makes[q] = Subnets
  BY <1>3, RankOf DEF Creating, Makes
<1>5. PICK n : n = Rank(phase)
  OBVIOUS
<1>6. Rank(work.phase) = n
  BY <1>2, <1>5, Zenon
<1>7. Rank(q) < Rank(work.phase)
  BY <1>4, <1>5, <1>6
<1>8. Promised \cap Makes[q] \cap NoPart(work.rec) = {}
  BY <1>1, <1>4, <1>7 DEF Reached
<1>9. Needed \cap Subnets \cap NoPart(work.rec) = {}
  BY <1>4, <1>8 DEF Promised
<1>10. /\ "private1" \in Needed
       /\ config.zones = 2 => "public2" \in Needed /\ "private2" \in Needed
  <2>1. Needed = Roles \cup Groups \cup {"vpc", "igw", "publicRT", "cluster", "pool"}
              \cup (IF config.zones = 2 THEN Subnets ELSE {"public1", "private1"})
              \cup (IF config.nat = "None" THEN {} ELSE {"nat1"})
    BY <1>1, NeededOf
  <2>2. "private1" \in Subnets /\ "public2" \in Subnets /\ "private2" \in Subnets
    BY Named
  <2> QED BY <2>1, <2>2
<1>11. /\ "private1" \in Subnets \cap Parts /\ "public2" \in Subnets \cap Parts
       /\ "private2" \in Subnets \cap Parts
  BY Named
<1> QED BY <1>1, <1>9, <1>10, <1>11

(* Once there is a NAT gateway, there are all that are wanted.             *)
LEMMA NatBegins ==
  ASSUME Starts("CreatingNATGateway")
  PROVE  Begins(reconcileNATGateways, "CreatingNATGateway")
<1>1. /\ config \in Setups /\ InOrder(work.rec, {})
      /\ Kept \subseteq {"vpc", "public1", "private1"}
      /\ \A part \in Parts : /\ Vacant(part) <=> ~IsRecorded(part) /\ part \notin Kept
                             /\ part \in NoPart(work.rec) <=> ~IsRecorded(part)
  BY StartFacts
<1>2. Makes["CreatingNATGateway"] = Each(NAT) /\ Each(NAT) = {"nat1", "nat2"}
  BY Named DEF Makes
<1>3. /\ NAT[1] = "nat1" /\ NAT[2] = "nat2" /\ Eip[1] = "eip1" /\ Eip[2] = "eip2"
      /\ 1 \in Zones /\ 2 \in Zones /\ \A z \in Zones : z = 1 \/ z = 2
  BY DEF NAT, Eip, Zones
<1>4. {"nat1", "nat2", "eip1", "eip2", "publicRT"} \subseteq Parts
  BY Named
<1>5. /\ IsRecorded("nat2") => IsRecorded("nat1")
      /\ IsRecorded("eip1") => IsRecorded("nat1")
      /\ IsRecorded("eip2") => IsRecorded("nat2")
      /\ Undisturbed /\ IsRecorded("nat1") => Wanted \cap {"nat1", "nat2"} \cap NoPart(work.rec) = {}
  BY <1>1, <1>2, <1>3 DEF InOrder, Complete, IsRecorded
<1>6. Needed \cap {"nat1", "nat2"} \subseteq {"nat1"}
  <2>1. (Roles \cup Groups \cup {"vpc", "igw", "publicRT", "cluster", "pool"} \cup Subnets
          \cup {"public1", "private1"}) \cap {"nat2"} = {}
    BY Named
  <2>2. Needed \subseteq Roles \cup Groups \cup {"vpc", "igw", "publicRT", "cluster", "pool"} \cup Subnets
          \cup {"public1", "private1"} \cup {"nat1"}
    BY <1>1, NeededOf
  <2> QED BY <2>1, <2>2
<1>7. CASE \E z \in Zones : IsRecorded(NAT[z])
  <2>1. IsRecorded("nat1")
    BY <1>3, <1>5, <1>7
  <2>2. reconcileNATGateways = <<>>
    BY <1>7, Zenon DEF reconcileNATGateways, If
  <2>3. "nat1" \notin NoPart(work.rec)
    BY <1>1, <1>4, <2>1
  <2>4. Promised \cap Each(NAT) \cap NoPart(work.rec) = {}
    BY <1>2, <1>5, <1>6, <2>1, <2>3 DEF Promised
  <2>5. PICK s : s = <<>>
    OBVIOUS
  <2>6. Orderly(s) /\ Coming(s) = {}
    BY <2>5, GoneNow
  <2>7. Begins(s, "CreatingNATGateway")
    BY <1>1, <1>2, <2>4, <2>6 DEF Begins
  <2> QED BY <2>2, <2>5, <2>7
<1>8. CASE \A z \in Zones : ~IsRecorded(NAT[z])
  <2>1. ~IsRecorded("nat1") /\ ~IsRecorded("nat2") /\ ~IsRecorded("eip1") /\ ~IsRecorded("eip2")
    BY <1>3, <1>5, <1>8
  <2>2. Vacant("nat1") /\ Vacant("nat2") /\ Vacant("eip1") /\ Vacant("eip2")
    BY <1>1, <1>4, <2>1
  <2>3. PICK n1, n2 : /\ n1 = <<Make(Eip[1]), Making(NAT[1], "", {Eip[1], NAT[1]})>>
                      /\ n2 = <<Make(Eip[2]), Making(NAT[2], "", {Eip[2], NAT[2]})>>
    OBVIOUS
  <2>4. PICK c \in BOOLEAN : c = (config.nat = "HighAvailability" /\ IsRecorded("public2"))
    OBVIOUS
  <2>5. PICK m : m = If(c, n2)
    OBVIOUS
  <2>6. PICK ps, qs : ps = {"eip1", "nat1"} /\ qs = {"eip2", "nat2"}
    OBVIOUS
  <2>7. Block(n1, ps, {}) /\ Coming(n1) = ps
    <3>1. PICK z, past : z = 1 /\ past = {}
      OBVIOUS
    <3>2. z \in Zones /\ Vacant(Eip[z]) /\ Vacant(NAT[z]) /\ NAT[z] # "nat2"
      BY <1>3, <2>2, <3>1
    <3>3. /\ Block(<<Make(Eip[z]), Making(NAT[z], "", {Eip[z], NAT[z]})>>, {Eip[z], NAT[z]}, past)
          /\ Coming(<<Make(Eip[z]), Making(NAT[z], "", {Eip[z], NAT[z]})>>) = {Eip[z], NAT[z]}
      BY <3>2, GatewayAndAddress
    <3>4. n1 = <<Make(Eip[z]), Making(NAT[z], "", {Eip[z], NAT[z]})>>
      BY <2>3, <3>1, Zenon
    <3>5. {Eip[z], NAT[z]} = ps
      BY <1>3, <2>6, <3>1
    <3> QED BY <3>1, <3>3, <3>4, <3>5
  <2>8. Block(n2, qs, Coming(n1)) /\ Coming(n2) = qs
    <3>1. PICK z : z = 2
      OBVIOUS
    <3>2. PICK past : past = Coming(n1)
      OBVIOUS
    <3>3. z \in Zones /\ Vacant(Eip[z]) /\ Vacant(NAT[z]) /\ "nat1" \in past
      BY <1>3, <2>2, <2>6, <2>7, <3>1, <3>2
    <3>4. /\ Block(<<Make(Eip[z]), Making(NAT[z], "", {Eip[z], NAT[z]})>>, {Eip[z], NAT[z]}, past)
          /\ Coming(<<Make(Eip[z]), Making(NAT[z], "", {Eip[z], NAT[z]})>>) = {Eip[z], NAT[z]}
      BY <3>3, GatewayAndAddress
    <3>5. n2 = <<Make(Eip[z]), Making(NAT[z], "", {Eip[z], NAT[z]})>>
      BY <2>3, <3>1, Zenon
    <3>6. {Eip[z], NAT[z]} = qs
      BY <1>3, <2>6, <3>1
    <3> QED BY <3>2, <3>4, <3>5, <3>6
  <2>9. PICK past : past = Coming(n1)
    OBVIOUS
  <2>10. Block(m, qs, past) /\ Coming(m) = IF c THEN qs ELSE {}
    <3>1. Block(n2, qs, past)
      BY <2>8, <2>9
    <3>2. /\ Block(If(c, n2), qs, past)
          /\ Coming(If(c, n2)) = IF c THEN Coming(n2) ELSE {}
      BY <3>1, MaybeBlock
    <3> QED BY <2>5, <2>8, <3>2
  <2>11. Block(n1 \o m, ps \cup qs, {}) /\ Coming(n1 \o m) = Coming(n1) \cup Coming(m)
    <3>1. ps \cap qs = {}
      BY <2>6
    <3>2. PICK none : none = {}
      OBVIOUS
    <3>3. Block(n1, ps, none) /\ Block(m, qs, none \cup Coming(n1))
      BY <2>7, <2>9, <2>10, <3>2
    <3>4. Block(n1 \o m, ps \cup qs, none) /\ Coming(n1 \o m) = Coming(n1) \cup Coming(m)
      BY <3>1, <3>3, BlocksJoin
    <3> QED BY <3>2, <3>4
  <2>12. PICK s : s = n1 \o m
    OBVIOUS
  <2>13. Orderly(s) /\ Coming(s) = ps \cup (IF c THEN qs ELSE {})
    BY <2>7, <2>10, <2>11, <2>12, BlockOrderly
  <2>14. "nat2" \in Wanted => c
    <3>1. "nat2" \in Wanted => config.nat = "HighAvailability" /\ config.zones = 2
      BY <1>1, WantedOf
    <3>2. PICK phase : phase = "CreatingNATGateway"
      OBVIOUS
    <3>5. PICK n : n = Rank("CreatingNATGateway")
      OBVIOUS
    <3>6. n = 7
      BY <3>5, RankOf
    <3>7. Starts(phase) /\ n = Rank(phase)
      BY <3>2, <3>5, Zenon
    <3>3. Starts(phase) /\ Rank(phase) > 5
      BY <3>6, <3>7
    <3>4. config.zones = 2 => IsRecorded("public2")
      BY <3>3, SubnetsThere
    <3> QED BY <2>4, <3>1, <3>4
  <2>15. Promised \cap Each(NAT) \cap NoPart(work.rec) \subseteq Coming(s)
    BY <1>2, <1>6, <2>6, <2>13, <2>14 DEF Promised
  <2>16. InOrder(work.rec, Coming(s))
    <3>1. PICK coming : coming = Coming(s)
      OBVIOUS
    <3>2. "publicRT" \notin coming
      BY <2>6, <2>13, <3>1
    <3>3. "nat2" \in Wanted => "nat2" \in coming
      BY <2>6, <2>13, <2>14, <3>1
    <3>4. "nat1" \in coming
      BY <2>6, <2>13, <3>1
    <3>5. Complete(work.rec, coming, "nat1", Each(NAT))
      BY <1>2, <3>3, <3>4 DEF Complete
    <3>6. Complete(work.rec, coming, "publicRT", Tables)
      BY <1>1, <3>2 DEF Complete, InOrder
    <3>7. InOrder(work.rec, coming)
      BY <1>1, <3>5, <3>6 DEF InOrder
    <3> QED BY <3>1, <3>7, Zenon
  <2>17. s = reconcileNATGateways
    <3>1. If(config.nat = "HighAvailability" /\ IsRecorded("public2"), n2) = m
      BY <2>4, <2>5, Zenon
    <3> QED BY <1>8, <2>3, <2>12, <3>1, Zenon DEF reconcileNATGateways, If
  <2> QED BY <1>2, <2>13, <2>15, <2>16, <2>17 DEF Begins
<1> QED BY <1>7, <1>8

(* Once there is a route table, there are all that are wanted.             *)
LEMMA TablesBegin ==
  ASSUME Starts("CreatingRouteTables")
  PROVE  Begins(reconcileRouteTables, "CreatingRouteTables")
<1>1. /\ config \in Setups /\ InOrder(work.rec, {}) /\ Reached(work)
      /\ Kept \subseteq {"vpc", "public1", "private1"}
      /\ \A part \in Parts : /\ Vacant(part) <=> ~IsRecorded(part) /\ part \notin Kept
                             /\ part \in NoPart(work.rec) <=> ~IsRecorded(part)
  BY StartFacts
<1>2. Makes["CreatingRouteTables"] = Tables /\ Tables = {"publicRT", "privateRT1", "privateRT2"}
  BY Named DEF Makes
<1>3. /\ NAT[1] = "nat1" /\ NAT[2] = "nat2" /\ Private[1] = "private1" /\ Private[2] = "private2"
      /\ PrivateRT[1] = "privateRT1" /\ PrivateRT[2] = "privateRT2"
      /\ Each(PrivateRT) = {"privateRT1", "privateRT2"} /\ Each(NAT) = {"nat1", "nat2"}
  BY Named DEF NAT, Private, PrivateRT
<1>4. /\ {"nat1", "nat2", "publicRT", "privateRT1", "privateRT2", "private1", "private2"} \subseteq Parts
      /\ {"publicRT", "privateRT1", "privateRT2"} \cap
           (Roles \cup Each(Eip) \cup Each(NAT) \cup {"addon"}) = {}
  BY Named
<1>5. /\ IsRecorded("privateRT1") \/ IsRecorded("privateRT2") => IsRecorded("publicRT")
      /\ Undisturbed /\ IsRecorded("publicRT") => Wanted \cap Tables \cap NoPart(work.rec) = {}
  BY <1>1, <1>3 DEF InOrder, Complete, IsRecorded
<1>6. Needed \cap Tables \subseteq {"publicRT"}
  <2>1. (Roles \cup Groups \cup {"vpc", "igw", "cluster", "pool", "nat1"} \cup Subnets
          \cup {"public1", "private1"}) \cap Tables = {}
    BY Named
  <2>2. Needed \subseteq Roles \cup Groups \cup {"vpc", "igw", "cluster", "pool", "nat1"} \cup Subnets
          \cup {"public1", "private1"} \cup {"publicRT"}
    BY <1>1, NeededOf
  <2> QED BY <2>1, <2>2
<1>7. CASE \E part \in Tables : IsRecorded(part)
  <2>1. IsRecorded("publicRT")
    BY <1>2, <1>5, <1>7
  <2>2. reconcileRouteTables = <<>>
    BY <1>7, Zenon DEF reconcileRouteTables, If
  <2>3. "publicRT" \notin NoPart(work.rec)
    BY <1>1, <1>4, <2>1
  <2>4. Promised \cap Tables \cap NoPart(work.rec) = {}
    BY <1>5, <1>6, <2>1, <2>3 DEF Promised
  <2>5. PICK s : s = <<>>
    OBVIOUS
  <2>6. Orderly(s) /\ Coming(s) = {}
    BY <2>5, GoneNow
  <2>7. Begins(s, "CreatingRouteTables")
    BY <1>1, <1>2, <2>4, <2>6 DEF Begins
  <2> QED BY <2>2, <2>5, <2>7
<1>8. CASE \A part \in Tables : ~IsRecorded(part)
  <2>1. Vacant("publicRT") /\ Vacant("privateRT1") /\ Vacant("privateRT2")
    BY <1>1, <1>2, <1>4, <1>8
  <2>2. ASSUME NEW part \in Tables, NEW past, part # "publicRT" => "publicRT" \in past
        PROVE  /\ Block(<<Make(part), Set(part, "route"), SetAndRecord(part, "association")>>, {part}, past)
               /\ Coming(<<Make(part), Set(part, "route"), SetAndRecord(part, "association")>>) = {part}
    <3>1. PICK x, y : x = "route" /\ y = "association"
      OBVIOUS
    <3>2. /\ x \in Attributes \ {"policies"} /\ y \in Attributes \ {"policies"}
          /\ Settings(part) \subseteq {x, y}
      BY <1>2, <3>1, SettingsOf DEF SettingsKnown, Attributes
    <3>3. /\ part \in Parts /\ Vacant(part) /\ part \notin Roles
          /\ part \notin Each(Eip) \cup Each(NAT) \cup {"addon"}
      BY <1>2, <1>4, <2>1
    <3>4. part \in Each(PrivateRT) => "publicRT" \in past
      BY <1>3, <2>2
    <3>5. /\ Block(<<Make(part), Set(part, x), SetAndRecord(part, y)>>, {part}, past)
          /\ Coming(<<Make(part), Set(part, x), SetAndRecord(part, y)>>) = {part}
      BY <3>2, <3>3, <3>4, MadeAndSetTwice
    <3> QED BY <3>1, <3>5, Zenon
  <2>3. PICK t, t1, t2 :
          /\ t  = <<Make("publicRT"), Set("publicRT", "route"), SetAndRecord("publicRT", "association")>>
          /\ t1 = <<Make("privateRT1"), Set("privateRT1", "route"), SetAndRecord("privateRT1", "association")>>
          /\ t2 = <<Make("privateRT2"), Set("privateRT2", "route"), SetAndRecord("privateRT2", "association")>>
    OBVIOUS
  <2>4. PICK none : none = {}
    OBVIOUS
  <2>5. Block(t, {"publicRT"}, none) /\ Coming(t) = {"publicRT"}
    <3>1. PICK part : part = "publicRT"
      OBVIOUS
    <3>2. part \in Tables
      BY <1>2, <3>1
    <3>3. /\ Block(<<Make(part), Set(part, "route"), SetAndRecord(part, "association")>>, {part}, none)
          /\ Coming(<<Make(part), Set(part, "route"), SetAndRecord(part, "association")>>) = {part}
      BY <2>2, <3>1, <3>2
    <3> QED BY <2>3, <3>1, <3>3, Zenon
  <2>6. ASSUME NEW past, "publicRT" \in past
        PROVE  /\ Block(t1, {"privateRT1"}, past) /\ Coming(t1) = {"privateRT1"}
               /\ Block(t2, {"privateRT2"}, past) /\ Coming(t2) = {"privateRT2"}
    <3>1. PICK p1, p2 : p1 = "privateRT1" /\ p2 = "privateRT2"
      OBVIOUS
    <3>2. p1 \in Tables /\ p2 \in Tables
      BY <1>2, <3>1
    <3>3. /\ Block(<<Make(p1), Set(p1, "route"), SetAndRecord(p1, "association")>>, {p1}, past)
          /\ Coming(<<Make(p1), Set(p1, "route"), SetAndRecord(p1, "association")>>) = {p1}
      BY <2>2, <2>6, <3>2
    <3>4. /\ Block(<<Make(p2), Set(p2, "route"), SetAndRecord(p2, "association")>>, {p2}, past)
          /\ Coming(<<Make(p2), Set(p2, "route"), SetAndRecord(p2, "association")>>) = {p2}
      BY <2>2, <2>6, <3>2
    <3>5. Block(t1, {"privateRT1"}, past) /\ Coming(t1) = {"privateRT1"}
      BY <2>3, <3>1, <3>3, Zenon
    <3>6. Block(t2, {"privateRT2"}, past) /\ Coming(t2) = {"privateRT2"}
      BY <2>3, <3>1, <3>4, Zenon
    <3> QED BY <3>5, <3>6
  <2>7. PICK c1 \in BOOLEAN, c2 \in BOOLEAN :
          /\ c1 = (IsRecorded(NAT[1]) /\ IsRecorded(Private[1]))
          /\ c2 = (IsRecorded(NAT[2]) /\ IsRecorded(Private[2]))
    OBVIOUS
  <2>8. PICK v1, v2 : v1 = If(c1, t1) /\ v2 = If(c2, t2)
    OBVIOUS
  <2>9. ASSUME NEW past, "publicRT" \in past
        PROVE  /\ Block(v1, {"privateRT1"}, past) /\ Coming(v1) = IF c1 THEN {"privateRT1"} ELSE {}
               /\ Block(v2, {"privateRT2"}, past) /\ Coming(v2) = IF c2 THEN {"privateRT2"} ELSE {}
    <3>1. /\ Block(t1, {"privateRT1"}, past) /\ Coming(t1) = {"privateRT1"}
          /\ Block(t2, {"privateRT2"}, past) /\ Coming(t2) = {"privateRT2"}
      BY <2>6, <2>9
    <3>2. /\ Block(If(c1, t1), {"privateRT1"}, past)
          /\ Coming(If(c1, t1)) = IF c1 THEN Coming(t1) ELSE {}
      BY <3>1, MaybeBlock
    <3>3. /\ Block(If(c2, t2), {"privateRT2"}, past)
          /\ Coming(If(c2, t2)) = IF c2 THEN Coming(t2) ELSE {}
      BY <3>1, MaybeBlock
    <3> QED BY <2>8, <3>1, <3>2, <3>3
  <2>10. PICK g : g = t \o v1
    OBVIOUS
  <2>11. PICK two, three : two = {"publicRT"} \cup {"privateRT1"} /\ three = {"privateRT2"}
    OBVIOUS
  <2>12. Block(g, two, none) /\ Coming(g) = Coming(t) \cup Coming(v1)
    <3>1. {"publicRT"} \cap {"privateRT1"} = {}
      OBVIOUS
    <3>2. "publicRT" \in none \cup Coming(t)
      BY <2>5
    <3>3. Block(v1, {"privateRT1"}, none \cup Coming(t))
      BY <2>9, <3>2
    <3> QED BY <2>5, <2>10, <2>11, <3>1, <3>3, BlocksJoin
  <2>13. Block(g \o v2, two \cup three, none) /\ Coming(g \o v2) = Coming(g) \cup Coming(v2)
    <3>1. two \cap three = {}
      BY <2>11
    <3>2. "publicRT" \in none \cup Coming(g)
      BY <2>5, <2>12
    <3>3. Block(v2, three, none \cup Coming(g))
      BY <2>9, <2>11, <3>2
    <3> QED BY <2>12, <3>1, <3>3, BlocksJoin
  <2>14. PICK s : s = g \o v2
    OBVIOUS
  <2>15. /\ Coming(v1) = IF c1 THEN {"privateRT1"} ELSE {}
         /\ Coming(v2) = IF c2 THEN {"privateRT2"} ELSE {}
    <3>1. PICK past : past = {"publicRT"}
      OBVIOUS
    <3>2. "publicRT" \in past
      BY <3>1
    <3> QED BY <2>9, <3>2
  <2>16. Orderly(s) /\ Coming(s) = {"publicRT"} \cup (IF c1 THEN {"privateRT1"} ELSE {})
                                     \cup (IF c2 THEN {"privateRT2"} ELSE {})
    BY <2>4, <2>5, <2>12, <2>13, <2>14, <2>15, BlockOrderly
  <2>17. Undisturbed => /\ "privateRT1" \in Wanted => c1
                        /\ "privateRT2" \in Wanted => c2
    <3> SUFFICES ASSUME Undisturbed
                 PROVE  /\ "privateRT1" \in Wanted => c1
                        /\ "privateRT2" \in Wanted => c2
      OBVIOUS
    <3>1. /\ "privateRT1" \in Wanted => "nat1" \in Wanted
          /\ "privateRT2" \in Wanted => "nat2" \in Wanted /\ config.zones = 2
      BY <1>1, WantedOf
    <3>2. PICK phase, q, n : /\ phase = "CreatingRouteTables" /\ q = "CreatingNATGateway"
                             /\ n = Rank("CreatingRouteTables")
      OBVIOUS
    <3>3. n = 9 /\ q \in Creating /\ Rank(q) = 7 /\ Makes[q] = Each(NAT)
      BY <3>2, RankOf DEF Creating, Makes
    <3>4. Starts(phase) /\ n = Rank(phase)
      BY <3>2, Zenon
    <3>5. work.phase = phase
      BY <3>4 DEF Starts
    <3>6. n = Rank(work.phase)
      BY <3>4, <3>5, Zenon
    <3>7. Promised \cap Each(NAT) \cap NoPart(work.rec) = {}
      BY <1>1, <3>3, <3>6 DEF Reached
    <3>8. Rank(phase) > 5
      BY <3>3, <3>4
    <3>9. IsRecorded("private1") /\ (config.zones = 2 => IsRecorded("private2"))
      BY <3>4, <3>8, SubnetsThere
    <3>10. "nat1" \in Wanted => IsRecorded("nat1")
      BY <1>1, <1>3, <1>4, <3>7 DEF Promised
    <3>11. "nat2" \in Wanted => IsRecorded("nat2")
      BY <1>1, <1>3, <1>4, <3>7 DEF Promised
    <3>12. /\ IsRecorded("nat1") /\ IsRecorded("private1") => c1
           /\ IsRecorded("nat2") /\ IsRecorded("private2") => c2
      BY <1>3, <2>7
    <3> QED BY <3>1, <3>9, <3>10, <3>11, <3>12
  <2>18. Undisturbed => Wanted \cap Tables \subseteq Coming(s)
    <3>1. "publicRT" \in Coming(s)
      BY <2>16
    <3>2. c1 => "privateRT1" \in Coming(s)
      BY <2>16
    <3>3. c2 => "privateRT2" \in Coming(s)
      BY <2>16
    <3> QED BY <1>2, <2>17, <3>1, <3>2, <3>3
  <2>19. Promised \cap Tables \cap NoPart(work.rec) \subseteq Coming(s)
    <3>1. Needed \cap Tables \subseteq Coming(s)
      BY <1>6, <2>16
    <3> QED BY <2>18, <3>1 DEF Promised
  <2>20. InOrder(work.rec, Coming(s))
    <3>1. PICK coming : coming = Coming(s)
      OBVIOUS
    <3>2. "nat1" \notin coming
      BY <2>16, <3>1
    <3>3. Undisturbed => Wanted \cap Tables \subseteq coming
      BY <2>18, <3>1
    <3>4. Complete(work.rec, coming, "publicRT", Tables)
      BY <3>3 DEF Complete
    <3>5. Complete(work.rec, coming, "nat1", Each(NAT))
      BY <1>1, <3>2 DEF Complete, InOrder
    <3>6. InOrder(work.rec, coming)
      BY <1>1, <3>4, <3>5 DEF InOrder
    <3> QED BY <3>1, <3>6, Zenon
  <2>21. s = reconcileRouteTables
    <3>1. /\ v1 = If(IsRecorded(NAT[1]) /\ IsRecorded(Private[1]), t1)
          /\ v2 = If(IsRecorded(NAT[2]) /\ IsRecorded(Private[2]), t2)
      BY <2>7, <2>8, Zenon
    <3> QED BY <1>3, <1>8, <2>3, <2>10, <2>14, <3>1, Zenon DEF reconcileRouteTables, If
  <2> QED BY <1>2, <2>16, <2>19, <2>20, <2>21 DEF Begins
<1> QED BY <1>7, <1>8

LEMMA PhaseBegins ==
  ASSUME NEW phase, Starts(phase)
  PROVE  Begins(ScriptOf(phase), phase)
<1>1. phase \in Creating
  BY DEF Starts
<1>2. ASSUME phase = "CreatingIAMRoles" PROVE Begins(ScriptOf(phase), phase)
  BY <1>2, RolesBegin, WhichScript, Zenon
<1>3. ASSUME phase = "CreatingVPC" PROVE Begins(ScriptOf(phase), phase)
  BY <1>3, VpcBegins, WhichScript, Zenon
<1>4. ASSUME phase = "CreatingIGW" PROVE Begins(ScriptOf(phase), phase)
  BY <1>4, GatewayBegins, WhichScript, Zenon
<1>5. ASSUME phase = "CreatingSubnets" PROVE Begins(ScriptOf(phase), phase)
  BY <1>5, SubnetsBegin, WhichScript, Zenon
<1>6. ASSUME phase = "CreatingNATGateway" PROVE Begins(ScriptOf(phase), phase)
  BY <1>6, NatBegins, WhichScript, Zenon
<1>7. ASSUME phase = "CreatingRouteTables" PROVE Begins(ScriptOf(phase), phase)
  BY <1>7, TablesBegin, WhichScript, Zenon
<1>8. ASSUME phase = "CreatingSecGroups" PROVE Begins(ScriptOf(phase), phase)
  BY <1>8, GroupsBegin, WhichScript, Zenon
<1>9. ASSUME phase = "CreatingCluster" PROVE Begins(ScriptOf(phase), phase)
  <2>1. PICK part \in {"cluster", "pool"} : part = "cluster"
    OBVIOUS
  <2>2. Makes[phase] = {part}
    BY <1>9, <2>1 DEF Makes
  <2>3. Begins(If(~IsRecorded(part), <<MakeAndRecord(part)>>), phase)
    BY <2>2, ClusterBegins
  <2> QED BY <1>9, <2>1, <2>3, WhichScript, Zenon DEF reconcileCluster
<1>10. ASSUME phase = "CreatingNodePools" PROVE Begins(ScriptOf(phase), phase)
  <2>1. PICK part \in {"cluster", "pool"} : part = "pool"
    OBVIOUS
  <2>2. Makes[phase] = {part}
    BY <1>10, <2>1 DEF Makes
  <2>3. Begins(If(~IsRecorded(part), <<MakeAndRecord(part)>>), phase)
    BY <2>2, ClusterBegins
  <2> QED BY <1>10, <2>1, <2>3, WhichScript, Zenon DEF reconcileNodePools
<1>11. ASSUME phase = "InstallingAddons" PROVE Begins(ScriptOf(phase), phase)
  BY <1>11, AddonBegins, WhichScript, Zenon
<1> QED
  BY <1>1, <1>2, <1>3, <1>4, <1>5, <1>6, <1>7, <1>8, <1>9, <1>10, <1>11, Zenon DEF Creating

LEMMA BeginPhaseSure ==
  ASSUME IInv, IInv', RInv, BeginPhase
  PROVE  RInv'
<1>1. /\ pc = "phase" /\ work.phase \notin Waiting /\ pc' = "run" /\ todo = <<>>
      /\ UNCHANGED <<work, made, cloud, faults>> /\ Keeping
      /\ work.phase \in Phases /\ work \in ObjectType /\ made = NoRecord /\ made \in RecordType
  BY Known DEF BeginPhase, AtPc
<1>2. UNCHANGED <<config, object>>
  BY <1>1 DEF Keeping, kube
<1> SUFFICES ASSUME ~Asked
             PROVE  Sure'
  BY <1>1, <1>2 DEF RInv, Asked
<1>3. Sure /\ ~work.deleting
  BY Unasked
<1>4. work.phase # "Deleting"
  BY <1>3, Known DEF Sound
<1>5. Grows
  BY <1>1, <1>2, NoneGrows
<1>6. Whole(work, {}, {}) /\ Held(made)
  <2>1. Coming(todo) = {} /\ Pending = {}
    BY <1>1, GoneNow DEF Pending
  <2> QED BY <1>3, <2>1 DEF Sure, Doing
<1>7. PICK s : s = todo'
  OBVIOUS
<1>8. /\ s \in FindingScripts \/ Orderly(s)
      /\ work.phase \in Creating => Promised \cap Makes[work.phase] \cap NoPart(work.rec) \subseteq Coming(s)
      /\ InOrder(work.rec, Coming(s))
  <2>1. CASE work.phase \in Creating
    <3>1. PICK phase : phase = work.phase
      OBVIOUS
    <3>2. Starts(phase)
      BY <1>1, <1>3, <2>1, <3>1 DEF Starts
    <3>3. Begins(ScriptOf(phase), phase)
      BY <3>2, PhaseBegins
    <3>4. s = ScriptOf(work.phase)
      BY <1>4, <1>7, <2>1, Zenon DEF BeginPhase
    <3>5. Begins(s, work.phase)
      BY <3>1, <3>3, <3>4, Zenon
    <3> QED BY <3>5 DEF Begins
  <2>2. CASE work.phase \notin Creating
    <3>1. s = <<>>
      BY <1>4, <1>7, <2>2, Zenon DEF BeginPhase
    <3>2. Coming(s) = {} /\ Orderly(s)
      BY <3>1, GoneNow
    <3>3. InOrder(work.rec, {})
      BY <1>6 DEF Whole
    <3> QED BY <2>2, <3>2, <3>3
  <2> QED BY <2>1, <2>2
<1>9. PICK coming : coming = Coming(s)
  OBVIOUS
<1>10. coming = Coming(todo)'
  BY <1>7, <1>9 DEF Coming
<1>11. Whole(work, Pending, Coming(todo))'
  <2>1. PICK o \in ObjectType : o = work
    BY <1>1
  <2>2. PICK pending : pending = Pending'
    OBVIOUS
  <2>3. Whole(o, pending, coming)
    BY <1>6, <1>8, <1>9, <2>1 DEF Whole, Equipped
  <2>4. Whole(o, pending, coming)'
    BY <1>5, <2>3, WholeStays
  <2> QED BY <1>1, <1>10, <2>1, <2>2, <2>4
<1>12. Scripted'
  <2>1. FindingScripts' = FindingScripts
    BY <1>5, DemandsKeep DEF FindingScripts
  <2>2. s \notin FindingScripts => Orderly(todo)'
    <3> SUFFICES ASSUME s \notin FindingScripts
                 PROVE  Orderly(todo)'
      OBVIOUS
    <3>1. todo' \in Seq(MakingSteps) \cup FindingScripts
      <4>1. (~work.deleting => todo \in Seq(MakingSteps) \cup FindingScripts)'
        BY DEF IInv, AtPc
      <4>2. MakingSteps' = MakingSteps
        BY DEF MakingSteps
      <4> QED BY <1>1, <1>3, <2>1, <4>1
    <3>2. PICK t \in Seq(MakingSteps) : t = s
      BY <1>7, <3>1
    <3>3. Orderly(t)'
      BY <1>1, <1>5, <1>6, <1>8, <3>2, OrderlyStays
    <3> QED BY <1>7, <3>2, <3>3
  <2>3. Accounted'
    <3>1. \A part \in Parts : made'[part] = None
      BY <1>1 DEF NoRecord
    <3> QED BY <3>1 DEF Accounted, NoPart
  <2>4. Following'
    BY <1>1, <1>5, <1>8, <1>9, <1>10, DemandsKeep DEF Following, NoPart
  <2> QED BY <1>1, <1>7, <2>1, <2>2, <2>3, <2>4 DEF Scripted
<1>13. pc # "idle" /\ UNCHANGED <<made, cloud>> /\ work'.rec = work.rec /\ (faults' = 0 => faults = 0)
  BY <1>1
<1> QED BY <1>1, <1>3, <1>11, <1>12, <1>13, LocalSure

-----------------------------------------------------------------------------
(* The steps of the scripts, one by one.                                   *)
Target1(step) == IF work.rec[step.part] # None THEN work.rec[step.part] ELSE made[step.part]

HeadOK(s, h) ==
  /\ h \in MakingSteps /\ h.part \in Parts /\ h.records \subseteq Parts /\ h.op \in {"make", "set"}
  /\ h.op = "make" => /\ made[h.part] = None /\ work.rec[h.part] = None
                      /\ h.part \in Coming(s) /\ h.part \notin Kept
                      /\ h.part \in Roles => h.records = {h.part}
  /\ h.op = "set" => /\ made[h.part] # None
                     /\ IF h.setting = "policies" THEN h.part \in Roles /\ h.records = {}
                        ELSE h.part \notin Roles /\ work.rec[h.part] \in {None, made[h.part]}
  /\ \A part \in h.records :
       /\ work.rec[part] = None /\ part \notin Kept
       /\ part = h.part \/ part \in Each(Eip)
       /\ made[part] # None \/ (h.op = "make" /\ h.part = part)
       /\ part \notin Roles => \A setting \in Settings(part) :
            \/ made[part] # None /\ setting \in cloud[made[part]].settings
            \/ h.op = "set" /\ h.part = part /\ h.setting = setting
  /\ \A z \in Zones : Eip[z] \in h.records => NAT[z] \in h.records
  /\ "nat2" \in h.records => work.rec["nat1"] # None
  /\ h.records \cap Each(PrivateRT) # {} => work.rec["publicRT"] # None
  /\ h.inUse = "fails"
  /\ IF h.part = "addon" THEN Len(s) = 1 /\ h.op = "make" /\ h.records = {"addon"} /\ h.on = "passes"
     ELSE h.on = "fails"

LEMMA HeadKnown ==
  ASSUME NEW s \in Seq(MakingSteps), s # <<>>, Orderly(s), NEW h, h = s[1]
  PROVE  HeadOK(s, h)
<1>1. Len(s) \in Nat /\ Len(s) >= 1 /\ 1 \in 1..Len(s) /\ s[1] \in MakingSteps
  OBVIOUS
<1>2. /\ h \in MakingSteps /\ h.part \in Parts /\ h.records \subseteq Parts /\ h.op \in {"make", "set"}
  BY <1>1 DEF MakingSteps, Steps
<1>3. /\ MakesOnce(s, 1) /\ SetsMade(s, 1) /\ RecordsMade(s, 1) /\ InTurn(s, 1) /\ Insists(s, 1)
      /\ \A k \in 1..Len(s) : RecordsMade(s, k)
  BY <1>1 DEF Orderly
<1>4. \A j \in 1..(1 - 1) : FALSE
  OBVIOUS
<1>5. \A j \in 1..1 : j = 1
  OBVIOUS
<1>6. \A part : ~Before(s, 1, part)
  BY <1>4 DEF Before
<1>7. \A part : ~(\E j \in 1..(1 - 1) : part \in s[j].records)
  BY <1>4
<1>8. h.op = "make" => /\ made[h.part] = None /\ work.rec[h.part] = None
                       /\ h.part \in Coming(s) /\ h.part \notin Kept
                       /\ h.part \in Roles => h.records = {h.part}
  <2> SUFFICES ASSUME h.op = "make"
               PROVE  /\ made[h.part] = None /\ work.rec[h.part] = None
                      /\ h.part \in Coming(s) /\ h.part \notin Kept
                      /\ h.part \in Roles => h.records = {h.part}
    OBVIOUS
  <2>1. /\ made[h.part] = None /\ work.rec[h.part] = None
        /\ \E j \in 1..Len(s) : h.part \in s[j].records
        /\ h.part \in Roles => h.records = {h.part}
    BY <1>3 DEF MakesOnce
  <2>2. PICK j \in 1..Len(s) : h.part \in s[j].records
    BY <2>1
  <2>3. h.part \notin Kept
    BY <1>3, <2>2 DEF RecordsMade
  <2> QED BY <2>1, <2>2, <2>3 DEF Coming
<1>9. h.op = "set" => /\ made[h.part] # None
                      /\ IF h.setting = "policies" THEN h.part \in Roles /\ h.records = {}
                         ELSE h.part \notin Roles /\ work.rec[h.part] \in {None, made[h.part]}
  BY <1>3, <1>6 DEF SetsMade, HasMade
<1>10. ASSUME NEW part \in h.records
       PROVE  /\ work.rec[part] = None /\ part \notin Kept
              /\ part = h.part \/ part \in Each(Eip)
              /\ made[part] # None \/ (h.op = "make" /\ h.part = part)
              /\ part \notin Roles => \A setting \in Settings(part) : Equips(s, 1, part, setting)
  BY <1>3, <1>6 DEF RecordsMade, HasMade
<1>11. ASSUME NEW part, NEW setting, Equips(s, 1, part, setting)
       PROVE  \/ made[part] # None /\ setting \in cloud[made[part]].settings
              \/ h.op = "set" /\ h.part = part /\ h.setting = setting
  BY <1>5, <1>11 DEF Equips
<1>12. /\ \A z \in Zones : Eip[z] \in h.records => NAT[z] \in h.records
       /\ "nat2" \in h.records => work.rec["nat1"] # None
       /\ h.records \cap Each(PrivateRT) # {} => work.rec["publicRT"] # None
  BY <1>3, <1>7 DEF InTurn, Recorded1st
<1>13. /\ h.inUse = "fails"
       /\ IF h.part = "addon" THEN Len(s) = 1 /\ h.op = "make" /\ h.records = {"addon"} /\ h.on = "passes"
          ELSE h.on = "fails"
  BY <1>3 DEF Insists
<1>14. ASSUME NEW part \in h.records, part \notin Roles, NEW setting \in Settings(part)
       PROVE  \/ made[part] # None /\ setting \in cloud[made[part]].settings
              \/ h.op = "set" /\ h.part = part /\ h.setting = setting
  BY <1>10, <1>11, <1>14
<1> QED BY <1>2, <1>8, <1>9, <1>10, <1>12, <1>13, <1>14 DEF HeadOK

(* What a step does: it makes a part, or sets it up, and what it has to    *)
(* record is recorded.                                                     *)
Does(h) ==
  /\ \A part \in Parts : work'.rec[part] = IF part \in h.records THEN made'[part] ELSE work.rec[part]
  /\ \A part \in Parts \ {h.part} : made'[part] = made[part]
  /\ h.op = "make" => made'[h.part] # None
  /\ h.op = "set" => made'[h.part] = made[h.part] /\ h.setting \in cloud'[Target1(h)].settings

Rest(r, s) ==
  /\ r \in Seq(MakingSteps) /\ Len(r) \in Nat /\ Len(s) = Len(r) + 1
  /\ \A k \in Int : 1 <= k /\ k <= Len(r) => r[k] = s[k + 1]

LEMMA RestIs ==
  ASSUME NEW s \in Seq(MakingSteps), s # <<>>
  PROVE  Rest(Tail(s), s)
<1>1. Tail(s) \in Seq(MakingSteps) /\ Len(Tail(s)) \in Nat /\ Len(s) = Len(Tail(s)) + 1
  OBVIOUS
<1>2. ASSUME NEW k \in Int, 1 <= k, k <= Len(Tail(s)) PROVE Tail(s)[k] = s[k + 1]
  BY <1>1, <1>2
<1> QED BY <1>1, <1>2 DEF Rest

LEMMA ComingRest ==
  ASSUME NEW s, NEW r, Rest(r, s)
  PROVE  Coming(s) = s[1].records \cup Coming(r)
<1>1. PICK n : n = Len(r)
  OBVIOUS
<1>2. n \in Nat /\ Len(s) = n + 1 /\ \A k \in Int : 1 <= k /\ k <= n => r[k] = s[k + 1]
  BY <1>1 DEF Rest
<1>3. /\ \A i \in 1..(n + 1) : i = 1 \/ \E k \in 1..n : r[k] = s[i]
      /\ \A k \in 1..n : \E i \in 1..(n + 1) : s[i] = r[k]
      /\ 1 \in 1..(n + 1)
  <2>1. ASSUME NEW i \in 1..(n + 1), i # 1 PROVE \E k \in 1..n : r[k] = s[i]
    <3>1. PICK k \in 1..n : i = k + 1
      BY <1>2, <2>1
    <3> QED BY <1>2, <3>1
  <2>2. ASSUME NEW k \in 1..n PROVE \E i \in 1..(n + 1) : s[i] = r[k]
    BY <1>2
  <2> QED BY <1>2, <2>1, <2>2
<1>4. Coming(s) = UNION {s[i].records : i \in 1..(n + 1)} /\ Coming(r) = UNION {r[k].records : k \in 1..n}
  BY <1>1, <1>2 DEF Coming
<1>5. ASSUME NEW x PROVE x \in Coming(s) <=> x \in s[1].records \/ x \in Coming(r)
  <2>1. /\ x \in Coming(s) <=> \E i \in 1..(n + 1) : x \in s[i].records
        /\ x \in Coming(r) <=> \E k \in 1..n : x \in r[k].records
    BY <1>4
  <2> QED BY <1>3, <2>1
<1> QED BY <1>5

LEMMA TailOrderly ==
  ASSUME Grows, made \in RecordType, Held(made),
         NEW s \in Seq(MakingSteps), NEW h, h = s[1], HeadOK(s, h), Orderly(s), Does(h),
         NEW r, Rest(r, s)
  PROVE  Orderly(r)'
<1>1. PICK n : n = Len(r)
  OBVIOUS
<1>2. /\ n \in Nat /\ Len(s) = n + 1 /\ \A k \in Int : 1 <= k /\ k <= n => r[k] = s[k + 1]
      /\ r \in Seq(MakingSteps)
  BY <1>1 DEF Rest
<1> SUFFICES ASSUME NEW k \in 1..n
             PROVE  /\ MakesOnce(r, k)' /\ SetsMade(r, k)' /\ RecordsMade(r, k)'
                    /\ InTurn(r, k)' /\ Insists(r, k)'
  BY <1>1 DEF Orderly
<1>3. PICK m \in 1..(n + 1) : m = k + 1
  BY <1>2
<1>4. /\ \A i \in 1..(m - 1) : i = 1 \/ \E j \in 1..(k - 1) : r[j] = s[i]
      /\ \A i \in 1..m : i = 1 \/ \E j \in 1..k : r[j] = s[i]
      /\ \A j \in 1..(k - 1) : \E i \in 1..(m - 1) : s[i] = r[j]
      /\ \A i \in m..(n + 1) : \E j \in k..n : r[j] = s[i]
      /\ 1 \in 1..(m - 1)
  <2>1. ASSUME NEW i \in 1..(n + 1), i # 1 PROVE \E j \in 1..n : j = i - 1 /\ r[j] = s[i]
    <3>1. PICK j \in 1..n : i = j + 1
      BY <1>2, <2>1
    <3> QED BY <1>2, <3>1
  <2>2. ASSUME NEW i \in 1..m, i # 1 PROVE \E j \in 1..k : j = i - 1 /\ r[j] = s[i]
    BY <1>2, <1>3, <2>1, <2>2
  <2>3. ASSUME NEW i \in 1..(m - 1), i # 1 PROVE \E j \in 1..(k - 1) : r[j] = s[i]
    BY <1>2, <1>3, <2>1, <2>3
  <2>4. ASSUME NEW j \in 1..(k - 1) PROVE \E i \in 1..(m - 1) : s[i] = r[j]
    BY <1>2, <1>3
  <2>5. ASSUME NEW i \in m..(n + 1) PROVE \E j \in k..n : r[j] = s[i]
    BY <1>2, <1>3, <2>1, <2>5
  <2>6. 1 \in 1..(m - 1)
    BY <1>3
  <2> QED BY <2>2, <2>3, <2>4, <2>5, <2>6
<1>5. r[k] = s[m] /\ (m < n + 1 => k < n /\ r[k + 1] = s[m + 1])
  BY <1>2, <1>3
<1>6. MakesOnce(s, m) /\ SetsMade(s, m) /\ RecordsMade(s, m) /\ InTurn(s, m) /\ Insists(s, m)
  BY <1>2 DEF Orderly
<1>7. r[k] \in MakingSteps /\ r[k].records \subseteq Parts /\ r[k].part \in Parts
  <2>1. r[k] \in MakingSteps
    BY <1>1, <1>2
  <2> QED BY <2>1 DEF MakingSteps, Steps
<1>8. UNCHANGED config /\ Kept' = Kept /\ \A part \in Parts : Settings(part)' \subseteq Settings(part)
  BY DemandsKeep DEF Grows
<1>9. /\ h.part \in Parts /\ h.records \subseteq Parts
      /\ h.op \in {"make", "set"}
      /\ \A part \in h.records : made'[part] # None
      /\ \A part \in Parts : made[part] # None => made'[part] # None /\ made'[part] = made[part]
      /\ h.op = "make" => made[h.part] = None /\ made'[h.part] # None
      /\ \A part \in Parts : work'.rec[part] = IF part \in h.records THEN made'[part] ELSE work.rec[part]
      /\ \A part \in Parts : part # h.part => made'[part] = made[part]
  <2>1. /\ h.part \in Parts /\ h.records \subseteq Parts /\ h.op \in {"make", "set"}
        /\ h.op = "make" => made[h.part] = None /\ made'[h.part] # None
        /\ h.op = "set" => made'[h.part] = made[h.part]
    BY DEF HeadOK, Does
  <2>2. /\ \A part \in Parts : work'.rec[part] = IF part \in h.records THEN made'[part] ELSE work.rec[part]
        /\ \A part \in Parts : part # h.part => made'[part] = made[part]
    BY DEF Does
  <2>3. \A part \in Parts : made[part] # None => made'[part] # None /\ made'[part] = made[part]
    BY <2>1, <2>2
  <2>4. \A part \in h.records : made[part] # None \/ (h.op = "make" /\ h.part = part)
    BY DEF HeadOK
  <2> QED BY <2>1, <2>2, <2>3, <2>4
<1>10. \A part \in Parts : HasMade(s, m, part) => HasMade(r, k, part)'
  <2> SUFFICES ASSUME NEW part \in Parts, HasMade(s, m, part), made'[part] = None
               PROVE  Before(r, k, part)
    BY DEF HasMade, Before
  <2>1. Before(s, m, part)
    BY <1>9 DEF HasMade
  <2>2. PICK i \in 1..(m - 1) : s[i].op = "make" /\ s[i].part = part
    BY <2>1 DEF Before
  <2>3. i # 1
    BY <1>9, <2>2
  <2>4. PICK j \in 1..(k - 1) : r[j] = s[i]
    BY <1>4, <2>3
  <2> QED BY <2>2, <2>4 DEF Before
<1>11. MakesOnce(r, k)'
  <2> SUFFICES ASSUME r[k].op = "make"
               PROVE  /\ made'[r[k].part] = None /\ work'.rec[r[k].part] = None
                      /\ \A j \in 1..(k - 1) : r[j].part # r[k].part
                      /\ \E j \in k..n : r[k].part \in r[j].records
                      /\ r[k].part \in Roles => /\ k < n /\ r[k].records = {r[k].part}
                                                /\ Attaches(r[k + 1], r[k].part)
    BY <1>1 DEF MakesOnce, Attaches
  <2>1. PICK part \in Parts : part = r[k].part
    BY <1>7
  <2>2. /\ made[part] = None /\ work.rec[part] = None
        /\ \A i \in 1..(m - 1) : s[i].part # part
        /\ \E i \in m..(n + 1) : part \in s[i].records
        /\ part \in Roles => m < n + 1 /\ s[m].records = {part} /\ Attaches(s[m + 1], part)
    BY <1>2, <1>5, <1>6, <2>1 DEF MakesOnce
  <2>3. part # h.part
    BY <1>4, <2>2
  <2>4. made'[part] = None
    BY <1>9, <2>2, <2>3
  <2>5. work'.rec[part] = None
    BY <1>9, <2>2, <2>4
  <2>6. \A j \in 1..(k - 1) : r[j].part # part
    BY <1>4, <2>2
  <2>7. \E j \in k..n : part \in r[j].records
    BY <1>4, <2>2
  <2> QED BY <1>5, <2>1, <2>2, <2>4, <2>5, <2>6, <2>7
<1>12. SetsMade(r, k)'
  <2> SUFFICES ASSUME r[k].op = "set"
               PROVE  /\ HasMade(r, k, r[k].part)'
                      /\ IF r[k].setting = "policies" THEN r[k].part \in Roles /\ r[k].records = {}
                         ELSE r[k].part \notin Roles /\ work'.rec[r[k].part] \in {None, made'[r[k].part]}
    BY DEF SetsMade
  <2>1. PICK part \in Parts : part = r[k].part
    BY <1>7
  <2>2. /\ HasMade(s, m, part)
        /\ IF r[k].setting = "policies" THEN part \in Roles /\ r[k].records = {}
           ELSE part \notin Roles /\ work.rec[part] \in {None, made[part]}
    BY <1>5, <1>6, <2>1 DEF SetsMade
  <2>3. work.rec[part] \in {None, made[part]} => work'.rec[part] \in {None, made'[part]}
    BY <1>9
  <2>4. HasMade(r, k, r[k].part)'
    BY <1>10, <2>1, <2>2
  <2> QED BY <2>1, <2>2, <2>3, <2>4
<1>13. \A part \in Parts \ Roles : \A setting : Equips(s, m, part, setting) => Equips(r, k, part, setting)'
  <2> SUFFICES ASSUME NEW part \in Parts \ Roles, NEW setting, Equips(s, m, part, setting)
               PROVE  Equips(r, k, part, setting)'
    OBVIOUS
  <2>1. CASE made[part] # None /\ setting \in cloud[made[part]].settings
    <3>1. made[part] \in Live
      BY <2>1 DEF Held, NoPart
    <3>2. setting \in cloud'[made[part]].settings
      BY <2>1, <3>1 DEF Grows
    <3>3. made'[part] # None /\ made'[part] = made[part]
      BY <1>9, <2>1
    <3> QED BY <3>2, <3>3 DEF Equips
  <2>2. CASE \E i \in 1..m : s[i].op = "set" /\ s[i].part = part /\ s[i].setting = setting
    <3>1. PICK i \in 1..m : s[i].op = "set" /\ s[i].part = part /\ s[i].setting = setting
      BY <2>2
    <3>2. CASE i # 1
      BY <1>4, <3>1, <3>2 DEF Equips
    <3>3. CASE i = 1
      <4>1. h.op = "set" /\ h.part = part /\ h.setting = setting
        BY <3>1, <3>3
      <4>2. made[part] # None /\ work.rec[part] \in {None, made[part]}
        BY <4>1 DEF HeadOK
      <4>3. Target1(h) = made[part]
        BY <4>1, <4>2 DEF Target1
      <4>4. setting \in cloud'[Target1(h)].settings
        BY <4>1 DEF Does
      <4>5. made'[part] # None /\ made'[part] = made[part]
        BY <1>9, <4>2
      <4>6. setting \in cloud'[made'[part]].settings
        BY <4>3, <4>4, <4>5
      <4> QED BY <4>5, <4>6 DEF Equips
    <3> QED BY <3>2, <3>3
  <2> QED BY <2>1, <2>2 DEF Equips
<1>14. RecordsMade(r, k)'
  <2> SUFFICES ASSUME NEW part \in r[k].records
               PROVE  /\ work'.rec[part] = None /\ part \notin Kept'
                      /\ part = r[k].part \/ part \in Each(Eip)
                      /\ HasMade(r, k, part)' \/ (r[k].op = "make" /\ r[k].part = part)
                      /\ \A j \in 1..(k - 1) : part \notin r[j].records
                      /\ part \notin Roles => \A setting \in Settings(part)' : Equips(r, k, part, setting)'
    BY DEF RecordsMade
  <2>1. part \in Parts
    BY <1>7
  <2>2. /\ work.rec[part] = None /\ part \notin Kept
        /\ part = r[k].part \/ part \in Each(Eip)
        /\ HasMade(s, m, part) \/ (r[k].op = "make" /\ r[k].part = part)
        /\ \A i \in 1..(m - 1) : part \notin s[i].records
        /\ part \notin Roles => \A setting \in Settings(part) : Equips(s, m, part, setting)
    BY <1>5, <1>6 DEF RecordsMade
  <2>3. part \notin h.records
    BY <1>4, <2>2
  <2>4. work'.rec[part] = None
    BY <1>9, <2>1, <2>2, <2>3
  <2>5. \A j \in 1..(k - 1) : part \notin r[j].records
    BY <1>4, <2>2
  <2>6. HasMade(r, k, part)' \/ (r[k].op = "make" /\ r[k].part = part)
    BY <1>10, <2>1, <2>2
  <2>7. part \notin Roles => \A setting \in Settings(part)' : Equips(r, k, part, setting)'
    BY <1>8, <1>13, <2>1, <2>2
  <2> QED BY <1>8, <2>2, <2>4, <2>5, <2>6, <2>7
<1>15. \A part \in Parts : Recorded1st(s, m, part) => Recorded1st(r, k, part)'
  <2> SUFFICES ASSUME NEW part \in Parts, Recorded1st(s, m, part), work'.rec[part] = None
               PROVE  \E j \in 1..(k - 1) : part \in r[j].records
    BY DEF Recorded1st
  <2>1. part \notin h.records /\ work.rec[part] = None
    BY <1>9
  <2>2. PICK i \in 1..(m - 1) : part \in s[i].records
    BY <2>1 DEF Recorded1st
  <2> QED BY <1>4, <2>1, <2>2
<1>16. InTurn(r, k)'
  <2>1. {"nat1", "publicRT"} \subseteq Parts
    BY Named
  <2> QED BY <1>5, <1>6, <1>15, <2>1 DEF InTurn
<1>17. Insists(r, k)'
  <2>1. s[m].part # "addon"
    BY <1>2, <1>3, <1>6 DEF Insists
  <2> QED BY <1>5, <1>6, <2>1 DEF Insists
<1> QED BY <1>11, <1>12, <1>14, <1>16, <1>17

(* A step that succeeds.                                                   *)
Succeeds(h) ==
  /\ todo \in Seq(MakingSteps) /\ todo # <<>> /\ h = todo[1] /\ HeadOK(todo, h) /\ Orderly(todo)
  /\ pc = "run" /\ pc' = "run" /\ ~work.deleting /\ todo' = Tail(todo) /\ Keeping
  /\ work'.phase = work.phase /\ work'.ready = work.ready
  /\ Grows /\ Does(h) /\ Held(made)'
  /\ \A i \in Ids : cloud'[i].state \notin {"deleting", "gone"}
  /\ \A i \in Ours' : i \in Ours \/ i = made'[cloud'[i].part]

LEMMA NoteFacts ==
  ASSUME IInv, IInv', Sure, NEW h, Succeeds(h)
  PROVE  /\ h.part \in Parts /\ h.records \subseteq Parts /\ h.op \in {"make", "set"}
         /\ work.rec \in RecordType /\ work'.rec \in RecordType
         /\ made \in RecordType /\ made' \in RecordType
         /\ \A part \in Parts : work'.rec[part] = IF part \in h.records THEN made'[part] ELSE work.rec[part]
         /\ \A part \in h.records : work.rec[part] = None /\ made'[part] # None
         /\ \A part \in Parts : work.rec[part] # None => work'.rec[part] = work.rec[part]
         /\ \A part \in Parts : made[part] # None => made'[part] = made[part]
         /\ \A part \in Parts : made[part] = None /\ made'[part] # None =>
                                  h.op = "make" /\ part = h.part /\ part \in Coming(todo)
         /\ NoPart(work.rec)' = NoPart(work.rec) \ h.records
         /\ Coming(todo) = h.records \cup Coming(todo)'
<1>1. /\ HeadOK(todo, h) /\ Does(h)
  BY DEF Succeeds
<1>2. /\ h.part \in Parts /\ h.records \subseteq Parts /\ h.op \in {"make", "set"}
  BY <1>1 DEF HeadOK
<1>3. /\ work.rec \in RecordType /\ work'.rec \in RecordType
      /\ made \in RecordType /\ made' \in RecordType
  <2>1. work'.rec \in RecordType /\ made' \in RecordType
    BY DEF IInv, TypeOK, ObjectType
  <2> QED BY <2>1, Known
<1>4. /\ \A part \in Parts : work'.rec[part] = IF part \in h.records THEN made'[part] ELSE work.rec[part]
      /\ \A part \in Parts : part # h.part => made'[part] = made[part]
      /\ h.op = "make" => made'[h.part] # None
      /\ h.op = "set" => made'[h.part] = made[h.part]
  BY <1>1 DEF Does
<1>5. /\ h.op = "make" => made[h.part] = None /\ h.part \in Coming(todo)
      /\ \A part \in h.records : /\ work.rec[part] = None
                                 /\ made[part] # None \/ (h.op = "make" /\ h.part = part)
  BY <1>1 DEF HeadOK
<1>6. \A part \in Parts : made[part] # None => made'[part] = made[part]
  BY <1>2, <1>4, <1>5
<1>7. \A part \in h.records : made'[part] # None
  BY <1>2, <1>4, <1>5, <1>6
<1>8. \A part \in Parts : made[part] = None /\ made'[part] # None =>
                            h.op = "make" /\ part = h.part /\ part \in Coming(todo)
  BY <1>2, <1>4, <1>5
<1>9. \A part \in Parts : work.rec[part] # None => work'.rec[part] = work.rec[part]
  BY <1>4, <1>5
<1>10. NoPart(work.rec)' = NoPart(work.rec) \ h.records
  BY <1>2, <1>4, <1>5, <1>7 DEF NoPart
<1>11. Coming(todo) = h.records \cup Coming(todo)'
  <2>1. PICK s \in Seq(MakingSteps) : s = todo
    BY DEF Succeeds
  <2>2. PICK r : r = Tail(s)
    OBVIOUS
  <2>3. Rest(r, s) /\ h = s[1] /\ r = todo'
    BY <2>1, <2>2, RestIs DEF Succeeds
  <2>4. Coming(s) = s[1].records \cup Coming(r)
    BY <2>3, ComingRest
  <2>5. Coming(todo)' = Coming(r) /\ Coming(todo) = Coming(s)
    BY <2>1, <2>3 DEF Coming
  <2> QED BY <2>3, <2>4, <2>5
<1> QED BY <1>2, <1>3, <1>4, <1>5, <1>6, <1>7, <1>8, <1>9, <1>10, <1>11

LEMMA StepEquips ==
  ASSUME IInv, IInv', Sure, NEW h, Succeeds(h)
  PROVE  Held(work.rec)' /\ Equipped(work.rec, Pending)'
<1>1. /\ HeadOK(todo, h) /\ Does(h) /\ Grows /\ Held(made)' /\ h = todo[1] /\ todo # <<>>
      /\ Held(work.rec) /\ Equipped(work.rec, Pending) /\ Held(made)
  BY DEF Succeeds, Sure, Doing, Whole
<1>2. Held(work.rec)'
  <2>1. PICK ids \in RecordType : ids = work.rec
    BY NoteFacts
  <2>2. Held(ids)'
    BY <1>1, <2>1, HeldStays
  <2> SUFFICES ASSUME NEW part \in Parts, work'.rec[part] # None
               PROVE  /\ work'.rec[part] \in Live' /\ cloud'[work'.rec[part]].part = part
                      /\ part \in Kept' => work'.rec[part] \in Foreign'
    BY DEF Held, NoPart
  <2>3. CASE part \in h.records
    <3>1. work'.rec[part] = made'[part]
      BY <2>3, NoteFacts
    <3> QED BY <1>1, <3>1 DEF Held, NoPart
  <2>4. CASE part \notin h.records
    <3>1. work'.rec[part] = ids[part]
      BY <2>1, <2>4, NoteFacts
    <3> QED BY <2>2, <3>1 DEF Held, NoPart
  <2> QED BY <2>3, <2>4
<1>3. ASSUME NEW part \in Parts, work'.rec[part] # None, part \notin Pending'
      PROVE  Settings(part)' \subseteq cloud'[work'.rec[part]].settings
  <2>1. Settings(part)' \subseteq Settings(part)
    BY <1>1, DemandsKeep
  <2>2. CASE part \notin h.records /\ part \notin Pending
    <3>1. work'.rec[part] = work.rec[part] /\ work.rec[part] # None
      BY <1>3, <2>2, NoteFacts
    <3>2. Settings(part) \subseteq cloud[work.rec[part]].settings /\ work.rec[part] \in Live
      BY <1>1, <2>2, <3>1 DEF Equipped, Held, NoPart
    <3>3. cloud[work.rec[part]].settings \subseteq cloud'[work.rec[part]].settings
      BY <1>1, <3>2 DEF Grows
    <3> QED BY <2>1, <3>1, <3>2, <3>3
  <2>3. CASE part \notin h.records /\ part \in Pending
    <3>1. work'.rec[part] = work.rec[part] /\ work.rec[part] # None
      BY <1>3, <2>3, NoteFacts
    <3>2. part \in Roles /\ h.op = "set" /\ h.part = part /\ h.setting = "policies"
      BY <1>1, <2>3 DEF Pending, Attaches
    <3>3. "policies" \in cloud'[work.rec[part]].settings
      BY <1>1, <3>1, <3>2 DEF Does, Target1
    <3>4. Settings(part)' \subseteq {"policies"}
      BY <3>2, SettingsOfNext DEF SettingsKnown
    <3> QED BY <3>1, <3>3, <3>4
  <2>4. CASE part \in h.records /\ part \notin Roles
    <3>1. work'.rec[part] = made'[part]
      BY <2>4, NoteFacts
    <3> SUFFICES ASSUME NEW setting \in Settings(part)
                 PROVE  setting \in cloud'[made'[part]].settings
      BY <2>1, <3>1
    <3>2. \/ made[part] # None /\ setting \in cloud[made[part]].settings
          \/ h.op = "set" /\ h.part = part /\ h.setting = setting
      BY <1>1, <2>4 DEF HeadOK
    <3>3. CASE made[part] # None /\ setting \in cloud[made[part]].settings
      <4>1. made[part] \in Live /\ made'[part] = made[part]
        BY <1>1, <3>3, NoteFacts DEF Held, NoPart
      <4> QED BY <1>1, <3>3, <4>1 DEF Grows
    <3>4. CASE h.op = "set" /\ h.part = part /\ h.setting = setting
      <4>1. made[part] # None /\ work.rec[part] \in {None, made[part]}
        BY <1>1, <2>4, <3>4 DEF HeadOK
      <4>2. made'[part] = made[part] /\ Target1(h) = made[part]
        BY <3>4, <4>1, NoteFacts DEF Target1
      <4>3. setting \in cloud'[Target1(h)].settings
        BY <1>1, <3>4 DEF Does
      <4> QED BY <4>2, <4>3
    <3> QED BY <3>2, <3>3, <3>4
  <2>5. CASE part \in h.records /\ part \in Roles
    <3>1. part = h.part
      <4>1. part \notin Each(Eip)
        BY <2>5, Named
      <4> QED BY <1>1, <2>5, <4>1 DEF HeadOK
    <3>2. h.op = "make"
      BY <1>1, <2>5, <3>1 DEF HeadOK
    <3>3. part \in Pending'
      <4>1. PICK s \in Seq(MakingSteps) : s = todo
        BY DEF Succeeds
      <4>2. PICK r : r = Tail(s)
        OBVIOUS
      <4>3. Rest(r, s) /\ h = s[1] /\ r = todo' /\ Orderly(s)
        BY <1>1, <4>1, <4>2, RestIs DEF Succeeds
      <4>4. Len(s) \in Nat /\ 1 \in 1..Len(s)
        BY <1>1, <4>1
      <4>5. MakesOnce(s, 1)
        BY <4>3, <4>4 DEF Orderly
      <4>6. 1 < Len(s) /\ Attaches(s[1 + 1], part)
        BY <2>5, <3>1, <3>2, <4>3, <4>5 DEF MakesOnce
      <4>7. Len(r) >= 1 /\ r[1] = s[1 + 1] /\ r \in Seq(MakingSteps)
        BY <4>3, <4>6 DEF Rest
      <4>8. r # <<>> /\ Attaches(r[1], part)
        BY <4>6, <4>7
      <4> QED BY <2>5, <4>3, <4>8 DEF Pending, Attaches
    <3> QED BY <1>3, <3>3
  <2> QED BY <2>2, <2>3, <2>4, <2>5
<1> QED BY <1>2, <1>3 DEF Equipped, NoPart

LEMMA StepInOrder ==
  ASSUME IInv, IInv', Sure, NEW h, Succeeds(h)
  PROVE  InOrder(work.rec, Coming(todo))' /\ Reached(work)'
<1>1. /\ HeadOK(todo, h) /\ Grows /\ InOrder(work.rec, Coming(todo)) /\ Reached(work)
      /\ work'.phase = work.phase
  BY DEF Succeeds, Sure, Doing, Whole
<1>2. /\ Wanted' = Wanted /\ (Undisturbed' => Undisturbed) /\ Promised' \subseteq Promised
  BY <1>1, DemandsKeep
<1>3. /\ \A part \in Parts : work'.rec[part] # None <=> work.rec[part] # None \/ part \in h.records
      /\ NoPart(work.rec)' = NoPart(work.rec) \ h.records
      /\ Coming(todo) = h.records \cup Coming(todo)'
  BY NoteFacts
<1>4. PICK past, coming : past = Coming(todo) /\ coming = Coming(todo)'
  OBVIOUS
<1>5. /\ {"nat1", "nat2", "publicRT"} \subseteq Parts
      /\ Each(PrivateRT) \subseteq Parts
      /\ \A z \in Zones : Eip[z] \in Parts /\ NAT[z] \in Parts
  BY Named DEF Zones, Eip, NAT
<1>6. /\ \A z \in Zones : work'.rec[Eip[z]] # None => work'.rec[NAT[z]] # None
      /\ work'.rec["nat2"] # None => work'.rec["nat1"] # None
      /\ (\E part \in Each(PrivateRT) : work'.rec[part] # None) => work'.rec["publicRT"] # None
  <2>1. /\ \A z \in Zones : Eip[z] \in h.records => NAT[z] \in h.records
        /\ "nat2" \in h.records => work.rec["nat1"] # None
        /\ h.records \cap Each(PrivateRT) # {} => work.rec["publicRT"] # None
    BY <1>1 DEF HeadOK
  <2>2. /\ \A z \in Zones : work.rec[Eip[z]] # None => work.rec[NAT[z]] # None
        /\ work.rec["nat2"] # None => work.rec["nat1"] # None
        /\ (\E part \in Each(PrivateRT) : work.rec[part] # None) => work.rec["publicRT"] # None
    BY <1>1 DEF InOrder
  <2>3. ASSUME NEW z \in Zones, work'.rec[Eip[z]] # None PROVE work'.rec[NAT[z]] # None
    BY <1>3, <1>5, <2>1, <2>2, <2>3
  <2>4. ASSUME work'.rec["nat2"] # None PROVE work'.rec["nat1"] # None
    BY <1>3, <1>5, <2>1, <2>2, <2>4
  <2>5. ASSUME NEW part \in Each(PrivateRT), work'.rec[part] # None PROVE work'.rec["publicRT"] # None
    BY <1>3, <1>5, <2>1, <2>2, <2>5
  <2> QED BY <2>3, <2>4, <2>5
<1>7. ASSUME NEW first \in Parts, NEW parts, Complete(work.rec, past, first, parts)
      PROVE  Complete(work.rec, coming, first, parts)'
  <2> SUFFICES ASSUME Undisturbed', work'.rec[first] # None \/ first \in coming
               PROVE  Wanted' \cap parts \cap NoPart(work.rec)' \subseteq coming
    BY DEF Complete
  <2>1. Undisturbed /\ (work.rec[first] # None \/ first \in past)
    BY <1>2, <1>3, <1>4
  <2>2. Wanted \cap parts \cap NoPart(work.rec) \subseteq past
    BY <1>7, <2>1 DEF Complete
  <2> QED BY <1>2, <1>3, <1>4, <2>2
<1>8. /\ Complete(work.rec, past, "nat1", Each(NAT)) /\ Complete(work.rec, past, "publicRT", Tables)
  BY <1>1, <1>4 DEF InOrder
<1>9. Complete(work.rec, coming, "nat1", Each(NAT))'
  <2>1. PICK first \in Parts : first = "nat1"
    BY <1>5
  <2>2. PICK parts : parts = Each(NAT)
    OBVIOUS
  <2>3. Complete(work.rec, coming, first, parts)'
    BY <1>7, <1>8, <2>1, <2>2
  <2> QED BY <2>1, <2>2, <2>3
<1>10. Complete(work.rec, coming, "publicRT", Tables)'
  <2>1. PICK first \in Parts : first = "publicRT"
    BY <1>5
  <2>2. PICK parts : parts = Tables
    OBVIOUS
  <2>3. Complete(work.rec, coming, first, parts)'
    BY <1>7, <1>8, <2>1, <2>2
  <2> QED BY <2>1, <2>2, <2>3
<1>11. InOrder(work.rec, Coming(todo))'
  <2>1. InOrder(work.rec, coming)'
    BY <1>6, <1>9, <1>10 DEF InOrder
  <2> QED BY <1>4, <2>1
<1>12. Reached(work)'
  <2>1. Rank(work.phase)' = Rank(work.phase)
    BY <1>1, Zenon
  <2> QED BY <1>1, <1>2, <1>3, <2>1 DEF Reached
<1> QED BY <1>11, <1>12

LEMMA StepAccounted ==
  ASSUME IInv, IInv', Sure, NEW h, Succeeds(h)
  PROVE  Scripted'
<1>1. /\ Grows /\ Held(made) /\ pc = "run" /\ pc' = "run" /\ work'.phase = work.phase
      /\ todo \in Seq(MakingSteps) /\ Scripted
  BY DEF Succeeds, Sure, Doing
<1>2. PICK s \in Seq(MakingSteps) : s = todo
  BY <1>1
<1>3. PICK r \in Seq(MakingSteps) : r = todo'
  <2>1. Tail(s) \in Seq(MakingSteps)
    BY <1>2 DEF Succeeds
  <2> QED BY <1>2, <2>1 DEF Succeeds
<1>4. r \notin FindingScripts'
  <2>1. ASSUME r \in FindingScripts' PROVE FALSE
    <3>1. r \in FindingScripts /\ config \in Setups
      BY <1>1, <2>1, DemandsKeep, Known DEF FindingScripts
    <3>2. Head(r).op = "find" /\ r # <<>>
      <4>1. r # <<>>
        BY <3>1 DEF FindingScripts
      <4> QED BY <3>1, <4>1, FindingTypes
    <3>3. Head(r) \in MakingSteps
      BY <3>2
    <3> QED BY <3>2, <3>3 DEF MakingSteps
  <2> QED BY <2>1
<1>5. Orderly(todo)'
  <2>1. Rest(r, s) /\ h = s[1] /\ HeadOK(s, h) /\ Orderly(s) /\ Does(h) /\ made \in RecordType
    BY <1>2, <1>3, RestIs, NoteFacts DEF Succeeds
  <2>2. Orderly(r)'
    BY <1>1, <2>1, TailOrderly
  <2> QED BY <1>3, <2>2
<1>6. Accounted /\ Following
  BY <1>1 DEF Scripted
<1>7. Foreign' = Foreign /\ Promised' \subseteq Promised
  BY <1>1, DemandsKeep
<1>8. Accounted'
  <2> SUFFICES ASSUME NEW part \in Parts, made'[part] # None
               PROVE  \/ made'[part] \in Foreign \/ work'.rec[part] = made'[part]
                      \/ part \in Coming(todo)'
    BY <1>7 DEF Accounted, NoPart
  <2>1. CASE part \in h.records
    BY <2>1, NoteFacts
  <2>2. CASE part \notin h.records /\ made[part] # None
    <3>1. made'[part] = made[part] /\ work'.rec[part] = work.rec[part]
      BY <2>2, NoteFacts
    <3>2. made[part] \in Foreign \/ work.rec[part] = made[part] \/ part \in Coming(todo)
      BY <1>6, <2>2 DEF Accounted, NoPart
    <3>3. part \in Coming(todo) => part \in Coming(todo)'
      BY <2>2, NoteFacts
    <3> QED BY <3>1, <3>2, <3>3
  <2>3. CASE part \notin h.records /\ made[part] = None
    <3>1. part \in Coming(todo)
      BY <2>3, NoteFacts
    <3> QED BY <2>3, <3>1, NoteFacts
  <2> QED BY <2>1, <2>2, <2>3
<1>9. Following'
  <2> SUFFICES ASSUME work.phase \in Creating
               PROVE  Promised' \cap Makes[work.phase] \cap NoPart(work.rec)' \subseteq Coming(todo)'
    BY <1>1 DEF Following
  <2>1. Promised \cap Makes[work.phase] \cap NoPart(work.rec) \subseteq Coming(todo)
    BY <1>1, <1>6 DEF Following
  <2>2. /\ NoPart(work.rec)' = NoPart(work.rec) \ h.records
        /\ Coming(todo) = h.records \cup Coming(todo)'
    BY NoteFacts
  <2> QED BY <1>7, <2>1, <2>2
<1>10. todo' \notin FindingScripts'
  BY <1>3, <1>4
<1> QED BY <1>5, <1>8, <1>9, <1>10 DEF Scripted

LEMMA StepSure ==
  ASSUME IInv, IInv', Sure, NEW h, Succeeds(h)
  PROVE  Sure'
<1>1. UNCHANGED <<config, object, cache, cacheFresh, workFresh>> /\ Grows /\ Held(made)'
  BY DEF Succeeds, Keeping, kube
<1>2. Whole(object, {}, {})' /\ Whole(cache, {}, {})'
  BY <1>1, ObjectsStay
<1>3. Whole(work, Pending, Coming(todo))'
  <2>1. (work.ready => work.phase = "Ready")'
    BY DEF Succeeds, Sure, Doing, Whole
  <2> QED BY <2>1, StepEquips, StepInOrder DEF Whole
<1>4. Doing'
  BY <1>1, <1>3, StepAccounted DEF Doing
<1>5. (\A i \in Ids : cloud[i].state \notin {"deleting", "gone"})'
  BY DEF Succeeds
<1>6. (faults = 0 /\ pc # "idle" => workFresh)'
  BY <1>1 DEF Sure, Succeeds, Grows
<1>7. (Undisturbed => UpToDate)'
  <2> SUFFICES ASSUME Undisturbed'
               PROVE  UpToDate'
    OBVIOUS
  <2>1. Carried /\ InHand /\ Foreign' = Foreign /\ pc # "idle"
    BY <1>1, DemandsKeep DEF Sure, UpToDate, Succeeds
  <2>2. Carried'
    <3> SUFFICES ASSUME NEW part \in Parts, object.rec[part] # None
                 PROVE  object.rec[part] = work'.rec[part]
      BY <1>1 DEF Carried
    <3>1. object.rec[part] = work.rec[part]
      BY <2>1 DEF Carried
    <3> QED BY <3>1, NoteFacts
  <2>3. InHand'
    <3> SUFFICES ASSUME NEW i \in Ours', cloud'[i].part # "balancer"
                 PROVE  i \in {object.rec[cloud'[i].part], work'.rec[cloud'[i].part], made'[cloud'[i].part]}
      BY <1>1 DEF InHand
    <3>1. CASE i = made'[cloud'[i].part]
      BY <3>1
    <3>2. CASE i \in Ours
      <4>1. i \in Live /\ cloud'[i].part = cloud[i].part /\ i \in Ids /\ i # None
        BY <1>1, <3>2 DEF Ours, Live, Grows, Ids, None
      <4>2. PICK part : part = cloud[i].part
        OBVIOUS
      <4>3. i \in {object.rec[part], work.rec[part], made[part]}
        BY <2>1, <3>2, <4>1, <4>2 DEF InHand
      <4>4. part \in Parts
        <5>1. part \in Kinds \cup {""}
          BY <4>1, <4>2, Known DEF CloudOK, ResourceType
        <5>2. part # "" /\ part # "balancer"
          BY <4>1, <4>2, Known DEF CloudOK, Live
        <5> QED BY <5>1, <5>2 DEF Kinds
      <4>5. work.rec[part] = i => work'.rec[part] = i
        BY <4>1, <4>4, NoteFacts
      <4>6. made[part] = i => made'[part] = i
        BY <4>1, <4>4, NoteFacts
      <4> QED BY <4>1, <4>2, <4>3, <4>5, <4>6
    <3> QED BY <3>1, <3>2 DEF Succeeds
  <2> QED BY <2>2, <2>3 DEF UpToDate
<1> QED BY <1>1, <1>2, <1>4, <1>5, <1>6, <1>7 DEF Sure

(* The object lives on, whatever a step does.                              *)
LEMMA StepEnds ==
  ASSUME Script
  PROVE  /\ pc = "run" /\ todo # <<>>
         /\ (\E ids : Proceed(ids)) \/ PhaseFails \/ Halt \/ PassOver
<1>1. ASSUME MakeCall PROVE \E ids : Proceed(ids)
  BY <1>1, Zenon DEF MakeCall
<1>2. ASSUME SetCall \/ FindCall \/ DeleteCall \/ DetachCall \/ SweepCall \/ ClearStep
      PROVE  \E ids : Proceed(ids)
  BY <1>2, Zenon DEF SetCall, FindCall, DeleteCall, DetachCall, SweepCall, ClearStep
<1>3. ASSUME AwaitCall \/ SweepHeldUp PROVE (\E ids : Proceed(ids)) \/ Halt
  BY <1>3, Zenon DEF AwaitCall, SweepHeldUp, Wait
<1>4. ASSUME NEW how, Fails(how) PROVE PhaseFails \/ Halt \/ PassOver
  BY <1>4 DEF Fails, Wait
<1>5. ASSUME MakeRefused \/ CallFails PROVE Fails(Head(todo).on)
  BY <1>5, Zenon DEF MakeRefused, CallFails
<1>6. ASSUME SetRefused \/ DeleteRefused PROVE Fails(Head(todo).inUse)
  BY <1>6, Zenon DEF SetRefused, DeleteRefused, Refused
<1>7. pc = "run" /\ todo # <<>>
  BY Zenon DEF Script, MakeCall, MakeRefused, SetCall, SetRefused, FindCall, DeleteCall, DeleteRefused,
     AwaitCall, DetachCall, SweepCall, SweepHeldUp, ClearStep, CallFails, Running
<1>8. ASSUME MakeRefused \/ CallFails \/ SetRefused \/ DeleteRefused
      PROVE  PhaseFails \/ Halt \/ PassOver
  <2>1. PICK on, inUse : on = Head(todo).on /\ inUse = Head(todo).inUse
    OBVIOUS
  <2>2. Fails(on) \/ Fails(inUse)
    BY <1>5, <1>6, <1>8, <2>1, Zenon
  <2> QED BY <1>4, <2>2
<1> QED BY <1>1, <1>2, <1>3, <1>7, <1>8, Zenon DEF Script

LEMMA ScriptLives ==
  ASSUME IInv, RInv, Script, ~Asked => Sure'
  PROVE  RInv'
<1>1. pc = "run" /\ todo # <<>> /\ work.exists /\ work \in ObjectType
  BY StepEnds, Known DEF RInv
<1>2. (\E ids : Proceed(ids)) \/ PhaseFails \/ Halt \/ PassOver
  BY StepEnds
<1>3. ASSUME NEW ids, Note(ids) PROVE work'.exists
  BY <1>1, <1>3 DEF Note, ObjectType
<1>4. ASSUME PhaseFails \/ Halt
      PROVE  work'.exists /\ pc' = "status" /\ Keeping
  BY <1>1, <1>4 DEF PhaseFails, Halt, ObjectType
<1>5. ASSUME PassOver
      PROVE  work'.exists /\ pc' = "run" /\ Keeping
  <2>1. PICK ids : ids = made
    OBVIOUS
  <2>2. pc' = "run" /\ Keeping /\ (Note(ids) \/ UNCHANGED work)
    BY <1>1, <1>5, <2>1 DEF PassOver
  <2> QED BY <1>1, <1>3, <2>2
<1>6. ASSUME NEW ids, Proceed(ids)
      PROVE  work'.exists /\ pc' = "run" /\ Keeping
  BY <1>1, <1>3, <1>6 DEF Proceed
<1>7. work'.exists /\ pc' # "idle" /\ Keeping
  BY <1>2, <1>4, <1>5, <1>6
<1>8. UNCHANGED object
  BY <1>7 DEF Keeping, kube
<1> QED BY <1>7, <1>8 DEF RInv, Asked

(* Before a step that is not the search for what the user has.             *)
LEMMA MakingHead ==
  ASSUME IInv, Sure, ~work.deleting, todo # <<>>, Head(todo).op # "find", NEW h, h = Head(todo)
  PROVE  /\ todo \in Seq(MakingSteps) /\ h = todo[1] /\ HeadOK(todo, h) /\ Orderly(todo)
         /\ h \in MakingSteps /\ pc = "run"
<1>1. config \in Setups /\ AtPc /\ pc = "run"
  BY Known
<1>2. todo \in Seq(MakingSteps) \cup FindingScripts
  BY <1>1 DEF AtPc
<1>3. todo \notin FindingScripts
  <2>1. PICK script : script = todo
    OBVIOUS
  <2>2. script \in FindingScripts => Head(script).op = "find"
    BY <1>1, FindingTypes
  <2> QED BY <2>1, <2>2
<1>4. PICK s \in Seq(MakingSteps) : s = todo
  BY <1>2, <1>3
<1>5. s # <<>> /\ h = s[1] /\ Orderly(s)
  BY <1>3, <1>4 DEF Sure, Doing, Scripted
<1>6. HeadOK(s, h)
  BY <1>5, HeadKnown
<1> QED BY <1>1, <1>4, <1>5, <1>6 DEF HeadOK

LEMMA ProceedDoes ==
  ASSUME IInv, ~work.deleting, pc = "run", NEW ids, Proceed(ids)
  PROVE  /\ made' = ids /\ todo' = Tail(todo) /\ pc' = "run" /\ Keeping
         /\ work'.phase = work.phase /\ work'.ready = work.ready
         /\ \A part \in Parts : work'.rec[part] = IF part \in Head(todo).records THEN made'[part]
                                                  ELSE work.rec[part]
BY Known DEF Proceed, Note, ObjectType

LEMMA RecordHead ==
  ASSUME IInv, Sure, NEW h, HeadOK(todo, h), h.op = "make"
  PROVE  h.part \in Parts \ Kept /\ made[h.part] = None /\ work.rec[h.part] = None
BY DEF HeadOK

LEMMA MakeSure ==
  ASSUME IInv, IInv', RInv, MakeCall
  PROVE  RInv'
<1> SUFFICES ASSUME ~Asked
             PROVE  Sure'
  BY ScriptLives DEF Script
<1>1. Sure /\ ~work.deleting /\ Described = Live
  BY Unasked
<1>2. PICK h : h = Head(todo)
  OBVIOUS
<1>3. todo # <<>> /\ h.op = "make" /\ pc = "run" /\ UNCHANGED faults /\ Part = h.part
  BY <1>2 DEF MakeCall, Running, Part
<1>4. todo \in Seq(MakingSteps) /\ h = todo[1] /\ HeadOK(todo, h) /\ Orderly(todo)
  BY <1>1, <1>2, <1>3, MakingHead
<1>5. h.part \in Parts \ Kept /\ made[h.part] = None /\ work.rec[h.part] = None
  BY <1>1, <1>3, <1>4, RecordHead
<1>6. made \in RecordType /\ None \notin Ids /\ cloud \in [Ids -> ResourceType]
  BY <1>3, Known, TargetTypes DEF CloudOK
<1>7. ASSUME NEW i \in Ids, Proceed([made EXCEPT ![Part] = i]), Grows,
             i \in Live', cloud'[i].part = h.part,
             \A j \in Ids : cloud'[j].state \notin {"deleting", "gone"},
             \A j \in Ours' : j \in Ours \/ j = i
      PROVE  Sure'
  <2>1. PICK ids : ids = [made EXCEPT ![h.part] = i]
    OBVIOUS
  <2>2. /\ ids \in RecordType /\ ids[h.part] = i /\ i # None
        /\ \A part \in Parts \ {h.part} : ids[part] = made[part]
    BY <1>5, <1>6, <2>1 DEF RecordType
  <2>3. Proceed(ids)
    BY <1>3, <1>7, <2>1
  <2>4. /\ made' = ids /\ todo' = Tail(todo) /\ pc' = "run" /\ Keeping
        /\ work'.phase = work.phase /\ work'.ready = work.ready
        /\ \A part \in Parts : work'.rec[part] = IF part \in h.records THEN made'[part]
                                                 ELSE work.rec[part]
    BY <1>1, <1>2, <1>3, <2>3, ProceedDoes
  <2>5. Does(h)
    BY <1>3, <2>2, <2>4 DEF Does
  <2>6. Held(made)'
    <3>1. PICK old \in RecordType : old = made
      BY <1>6
    <3>2. Held(old)'
      BY <1>1, <1>7, <3>1, HeldStays DEF Sure, Doing
    <3>3. Kept' = Kept
      BY <1>7, DemandsKeep
    <3> SUFFICES ASSUME NEW part \in Parts, ids[part] # None
                 PROVE  /\ ids[part] \in Live' /\ cloud'[ids[part]].part = part
                        /\ part \in Kept' => ids[part] \in Foreign'
      BY <2>4 DEF Held, NoPart
    <3>4. CASE part = h.part
      BY <1>5, <1>7, <2>2, <3>3, <3>4
    <3>5. CASE part # h.part
      BY <2>2, <3>1, <3>2, <3>5 DEF Held, NoPart
    <3> QED BY <3>4, <3>5
  <2>7. \A j \in Ours' : j \in Ours \/ j = made'[cloud'[j].part]
    BY <1>7, <2>2, <2>4
  <2>8. Succeeds(h)
    BY <1>1, <1>3, <1>4, <1>7, <2>4, <2>5, <2>6, <2>7 DEF Succeeds
  <2> QED BY <1>1, <2>8, StepSure
<1> DEFINE address == IF Part = "nat1" THEN made["eip1"]
                      ELSE IF Part = "nat2" THEN made["eip2"] ELSE None
           new == Resource(IF Part \in Slow THEN "pending" ELSE "available", Part, {},
                           IF Part = "vpc" THEN None ELSE Network, address)
<1>8. \/ \E i \in Fresh : cloud' = [cloud EXCEPT ![i] = new] /\ Proceed([made EXCEPT ![Part] = i])
      \/ /\ Part \in HasName /\ UNCHANGED cloud
         /\ \E i \in Twins(Part, Network) : Proceed([made EXCEPT ![Part] = i])
  BY Zenon DEF MakeCall
<1>9. new.state \in {"pending", "available"} /\ new.part = h.part
  BY <1>3 DEF Resource
<1> HIDE DEF new, address
<1>10. CASE \E i \in Fresh : cloud' = [cloud EXCEPT ![i] = new] /\ Proceed([made EXCEPT ![Part] = i])
  <2>1. PICK i \in Fresh : cloud' = [cloud EXCEPT ![i] = new] /\ Proceed([made EXCEPT ![Part] = i])
    BY <1>10
  <2>2. i \in Ids /\ cloud[i].state = "none"
    BY VacantFirst DEF Unused
  <2>3. UNCHANGED config
    BY <2>1 DEF Proceed, Keeping
  <2>4. PICK n : n = new
    OBVIOUS
  <2>5. n.state \in {"pending", "available"} /\ n.part = h.part /\ cloud' = [cloud EXCEPT ![i] = n]
    BY <1>9, <2>1, <2>4
  <2>6. n.state # "none" /\ (faults' = 0 => faults = 0)
    BY <1>3, <2>5
  <2>7. Grows /\ \A j \in Ids : cloud'[j] = IF j = i THEN n ELSE cloud[j]
    BY <2>2, <2>3, <2>5, <2>6, OneGrows
  <2>8. i \in Live' /\ cloud'[i].part = h.part
    BY <2>2, <2>5, <2>7 DEF Live
  <2>9. \A j \in Ids : cloud'[j].state \notin {"deleting", "gone"}
    BY <1>1, <2>5, <2>7 DEF Sure
  <2>10. \A j \in Ours' : j \in Ours \/ j = i
    <3>1. Foreign' = Foreign
      BY <2>7, DemandsKeep
    <3> QED BY <2>7, <3>1 DEF Ours, Live
  <2> QED BY <1>7, <2>1, <2>2, <2>7, <2>8, <2>9, <2>10
<1>11. CASE /\ Part \in HasName /\ UNCHANGED cloud
            /\ \E i \in Twins(Part, Network) : Proceed([made EXCEPT ![Part] = i])
  <2>1. PICK i \in Twins(Part, Network) : Proceed([made EXCEPT ![Part] = i])
    BY <1>11
  <2>2. i \in Live /\ cloud[i].part = h.part
    BY <1>1, <1>3, <1>11 DEF Twins, Of
  <2>3. UNCHANGED <<config, cloud>> /\ (faults' = 0 => faults = 0)
    BY <1>3, <1>11, <2>1 DEF Proceed, Keeping
  <2>4. Grows
    BY <2>3, NoneGrows
  <2>5. i \in Live' /\ cloud'[i].part = h.part
    BY <2>2, <2>3 DEF Live
  <2>6. \A j \in Ids : cloud'[j].state \notin {"deleting", "gone"}
    BY <1>1, <2>3 DEF Sure
  <2>7. \A j \in Ours' : j \in Ours
    <3>1. Foreign' = Foreign
      BY <2>4, DemandsKeep
    <3> QED BY <2>3, <3>1 DEF Ours, Live
  <2>8. i \in Ids
    BY <2>2 DEF Live
  <2> QED BY <1>7, <2>1, <2>4, <2>5, <2>6, <2>7, <2>8
<1> QED BY <1>8, <1>10, <1>11

(* What is set up is what has been made.                                   *)
LEMMA SetTarget ==
  ASSUME IInv, Sure, NEW h, HeadOK(todo, h), h.op = "set", h = Head(todo)
  PROVE  /\ Target = Target1(h) /\ Target \in Live /\ Target \in Ids /\ cloud[Target].part = h.part
         /\ h.setting \in Attributes
         /\ h.setting # "policies" => Target = made[h.part]
<1>1. /\ made[h.part] # None /\ h.part \in Parts /\ h \in MakingSteps
      /\ h.setting # "policies" => work.rec[h.part] \in {None, made[h.part]}
  BY DEF HeadOK
<1>2. Target = Target1(h)
  BY DEF Target, Target1, Part
<1>3. Held(work.rec) /\ Held(made)
  BY DEF Sure, Doing, Whole
<1>4. Target1(h) \in Live /\ cloud[Target1(h)].part = h.part
  BY <1>1, <1>3 DEF Target1, Held, NoPart
<1>5. h.setting \in Attributes
  BY <1>1 DEF MakingSteps
<1>6. h.setting # "policies" => Target1(h) = made[h.part]
  BY <1>1 DEF Target1
<1> QED BY <1>2, <1>4, <1>5, <1>6 DEF Live

LEMMA SetSure ==
  ASSUME IInv, IInv', RInv, SetCall
  PROVE  RInv'
<1> SUFFICES ASSUME ~Asked
             PROVE  Sure'
  BY ScriptLives DEF Script
<1>1. Sure /\ ~work.deleting
  BY Unasked
<1>2. PICK h : h = Head(todo)
  OBVIOUS
<1>3. todo # <<>> /\ h.op = "set" /\ pc = "run" /\ UNCHANGED faults /\ Proceed(made)
  BY <1>2 DEF SetCall, Running
<1>4. todo \in Seq(MakingSteps) /\ h = todo[1] /\ HeadOK(todo, h) /\ Orderly(todo)
  BY <1>1, <1>2, <1>3, MakingHead
<1>5. Target = Target1(h) /\ Target \in Live /\ Target \in Ids
  BY <1>1, <1>2, <1>3, <1>4, SetTarget
<1>6. PICK i \in Ids : i = Target
  BY <1>5
<1>7. made \in RecordType /\ cloud \in [Ids -> ResourceType]
  BY Known DEF CloudOK
<1>8. PICK old \in ResourceType : old = cloud[i]
  BY <1>7
<1>9. PICK new : new = [old EXCEPT !.settings = old.settings \cup {h.setting}]
  OBVIOUS
<1>10. new.state = old.state /\ new.part = old.part /\ new.settings = old.settings \cup {h.setting}
  BY <1>9 DEF ResourceType
<1>11. cloud' = [cloud EXCEPT ![i] = new]
  <2>1. cloud' = [cloud EXCEPT ![i].settings = @ \cup {Head(todo).setting}]
    BY <1>6 DEF SetCall
  <2> QED BY <1>2, <1>7, <1>8, <1>9, <2>1
<1>12. UNCHANGED config /\ (faults' = 0 => faults = 0)
  BY <1>3 DEF Proceed, Keeping
<1>13. new.state # "none" /\ (i \in Live => new.state \in {"pending", "available", "failed"})
  BY <1>5, <1>6, <1>8, <1>10 DEF Live
<1>14. Grows /\ \A j \in Ids : cloud'[j] = IF j = i THEN new ELSE cloud[j]
  <2>1. new.part = cloud[i].part /\ cloud[i].settings \subseteq new.settings
    BY <1>8, <1>10
  <2> QED BY <1>11, <1>12, <1>13, <2>1, OneGrows
<1>15. PICK ids : ids = made
  OBVIOUS
<1>16. /\ made' = made /\ todo' = Tail(todo) /\ pc' = "run" /\ Keeping
       /\ work'.phase = work.phase /\ work'.ready = work.ready
       /\ \A part \in Parts : work'.rec[part] = IF part \in h.records THEN made'[part]
                                                ELSE work.rec[part]
  <2>1. Proceed(ids)
    BY <1>3, <1>15
  <2> QED BY <1>1, <1>2, <1>3, <1>15, <2>1, ProceedDoes
<1>17. Does(h)
  <2>1. h.setting \in cloud'[Target1(h)].settings
    BY <1>5, <1>6, <1>10, <1>14
  <2> QED BY <1>3, <1>16, <2>1 DEF Does
<1>18. Held(made)'
  <2>1. PICK old_made \in RecordType : old_made = made
    BY <1>7
  <2>2. Held(old_made)'
    BY <1>1, <1>14, <2>1, HeldStays DEF Sure, Doing
  <2> QED BY <1>16, <2>1, <2>2
<1>19. \A j \in Ids : cloud'[j].state \notin {"deleting", "gone"}
  BY <1>1, <1>8, <1>10, <1>14 DEF Sure
<1>20. \A j \in Ours' : j \in Ours
  <2>1. Foreign' = Foreign
    BY <1>14, DemandsKeep
  <2> QED BY <1>8, <1>10, <1>14, <2>1 DEF Ours, Live
<1>21. Succeeds(h)
  BY <1>1, <1>3, <1>4, <1>14, <1>16, <1>17, <1>18, <1>19, <1>20 DEF Succeeds
<1> QED BY <1>1, <1>21, StepSure

(* What is the user's has a name that nothing else of the user's has.      *)
LEMMA ForeignNames ==
  ASSUME config \in Setups
  PROVE  /\ \A i \in Foreign, j \in Foreign : ForeignPart[i] = ForeignPart[j] => i = j
         /\ \A part \in Kept : \E i \in Foreign : ForeignPart[i] = part
         /\ \A i \in Foreign : ForeignPart[i] \in Kept
                                 \/ (ForeignPart[i] = "igw" /\ config.existing = "gateway")
<1>1. config.existing \in {"nothing", "vpc", "gateway", "subnets"}
  <2>1. DOMAIN ForeignParts = {"nothing", "vpc", "gateway", "subnets"}
    BY DEF ForeignParts
  <2> QED BY <2>1, SetupAssumption
<1>2. /\ config.existing = "nothing" => ForeignPart = <<>>
      /\ config.existing = "vpc" => ForeignPart = <<"vpc">>
      /\ config.existing = "gateway" => ForeignPart = <<"vpc", "igw">>
      /\ config.existing = "subnets" => ForeignPart = <<"vpc", "public1", "private1">>
  BY DEF ForeignPart, ForeignParts
<1>3. /\ config.existing = "nothing" => Foreign = {} /\ Kept = {}
      /\ config.existing = "vpc" => Foreign = {1} /\ Kept = {"vpc"} /\ ForeignPart[1] = "vpc"
      /\ config.existing = "gateway" =>
           Foreign = {1, 2} /\ Kept = {"vpc"} /\ ForeignPart[1] = "vpc" /\ ForeignPart[2] = "igw"
      /\ config.existing = "subnets" =>
           /\ Foreign = {1, 2, 3} /\ Kept = {"vpc", "public1", "private1"}
           /\ ForeignPart[1] = "vpc" /\ ForeignPart[2] = "public1" /\ ForeignPart[3] = "private1"
  <2>1. /\ config.existing = "nothing" => Kept = {}
        /\ config.existing \in {"vpc", "gateway"} => Kept = {"vpc"}
        /\ config.existing = "subnets" => Kept = {"vpc", "public1", "private1"}
    BY DEF Kept, OwnVpc, OwnSubnets
  <2>2. /\ config.existing = "nothing" => Foreign = {}
        /\ config.existing = "vpc" => Foreign = {1} /\ ForeignPart[1] = "vpc"
    BY <1>2 DEF Foreign
  <2>3. config.existing = "gateway" =>
           Foreign = {1, 2} /\ ForeignPart[1] = "vpc" /\ ForeignPart[2] = "igw"
    BY <1>2 DEF Foreign
  <2>4. config.existing = "subnets" =>
           Foreign = {1, 2, 3} /\ ForeignPart[1] = "vpc" /\ ForeignPart[2] = "public1"
                               /\ ForeignPart[3] = "private1"
    BY <1>2 DEF Foreign
  <2> QED BY <2>1, <2>2, <2>3, <2>4
<1>4. CASE config.existing = "nothing"
  BY <1>3, <1>4
<1>5. CASE config.existing = "vpc"
  BY <1>3, <1>5
<1>6. CASE config.existing = "gateway"
  BY <1>3, <1>6
<1>7. CASE config.existing = "subnets"
  BY <1>3, <1>7
<1> QED BY <1>1, <1>4, <1>5, <1>6, <1>7

(* What is found: the user's own, and nothing else.                        *)
Finds(parts) ==
  /\ parts \subseteq Kept /\ parts \subseteq Parts /\ pc = "run" /\ pc' = "run" /\ ~work.deleting
  /\ made = NoRecord /\ Keeping /\ UNCHANGED <<cloud, faults>>
  /\ todo # <<>> /\ todo' = <<>> /\ Coming(todo) = parts /\ Pending = {}
  /\ work'.phase = work.phase /\ work'.ready = work.ready
  /\ \A part \in Parts : made'[part] # None =>
       made'[part] \in Foreign /\ ForeignPart[made'[part]] = part
  /\ \A part \in Parts : work'.rec[part] = IF part \in parts THEN made'[part] ELSE work.rec[part]
  /\ \A part \in parts : made'[part] # None
  /\ \A part \in Parts : work.rec[part] # None => work'.rec[part] = work.rec[part]

LEMMA FindFinds ==
  ASSUME IInv, Sure, ~work.deleting, FindCall
  PROVE  \E parts : Finds(parts)
<1>1. todo # <<>> /\ Head(todo).op = "find" /\ UNCHANGED <<cloud, faults>> /\ pc = "run"
  BY DEF FindCall, Running, Unaltered
<1>2. /\ config \in Setups /\ AtPc /\ None \notin Foreign /\ Kept \subseteq Parts
      /\ Foreign \subseteq Ids
  BY Known, ForeignFacts
<1>3. todo \in FindingScripts
  <2>1. PICK script : script = todo
    OBVIOUS
  <2>2. script \in Seq(MakingSteps) => Head(script).op \in {"make", "set"}
    <3>1. ASSUME script \in Seq(MakingSteps) PROVE Head(script) \in MakingSteps
      BY <1>1, <2>1, <3>1
    <3> QED BY <3>1 DEF MakingSteps
  <2>3. todo \in Seq(MakingSteps) \cup FindingScripts
    BY <1>2 DEF AtPc
  <2> QED BY <1>1, <2>1, <2>2, <2>3
<1>4. PICK parts \in SUBSET Kept : todo = <<Find(parts)>>
  BY <1>3 DEF FindingScripts
<1>5. made = NoRecord
  BY <1>3 DEF Sure, Doing, Scripted
<1>6. PICK step : step = Find(parts)
  OBVIOUS
<1>7. step.op = "find" /\ step.records = parts
  BY <1>6 DEF Find, Step
<1>8. PICK s : s = <<step>>
  OBVIOUS
<1>9. /\ s = todo /\ Head(s) = step /\ Tail(s) = <<>> /\ Len(s) = 1 /\ s[1] = step
  BY <1>4, <1>6, <1>8
<1>10. Coming(s) = parts
  <2>1. 1..1 = {1}
    OBVIOUS
  <2> QED BY <1>7, <1>9, <2>1 DEF Coming
<1>11. Pending = {}
  BY <1>7, <1>9 DEF Pending, Attaches
<1>12. PICK ids : /\ Proceed(ids)
                  /\ ids = [part \in Parts |->
                             IF \E i \in Foreign : ForeignPart[i] = part
                             THEN CHOOSE i \in Foreign : ForeignPart[i] = part ELSE made[part]]
  BY DEF FindCall
<1>13. /\ made' = ids /\ todo' = <<>> /\ pc' = "run" /\ Keeping
       /\ work'.phase = work.phase /\ work'.ready = work.ready
       /\ \A part \in Parts : work'.rec[part] = IF part \in parts THEN made'[part] ELSE work.rec[part]
  <2>1. Head(todo).records = parts /\ Tail(todo) = <<>>
    BY <1>7, <1>9
  <2> QED BY <1>1, <1>12, <2>1, ProceedDoes
<1>14. \A part \in Parts :
         IF \E i \in Foreign : ForeignPart[i] = part
         THEN ids[part] \in Foreign /\ ForeignPart[ids[part]] = part
         ELSE ids[part] = None
  <2> SUFFICES ASSUME NEW part \in Parts
               PROVE  IF \E i \in Foreign : ForeignPart[i] = part
                      THEN ids[part] \in Foreign /\ ForeignPart[ids[part]] = part
                      ELSE ids[part] = None
    OBVIOUS
  <2>1. CASE \E i \in Foreign : ForeignPart[i] = part
    BY <1>12, <2>1
  <2>2. CASE ~\E i \in Foreign : ForeignPart[i] = part
    BY <1>5, <1>12, <2>2 DEF NoRecord
  <2> QED BY <2>1, <2>2
<1>15. \A part \in parts : ids[part] \in Foreign /\ ForeignPart[ids[part]] = part
  <2>1. \A part \in Kept : \E i \in Foreign : ForeignPart[i] = part
    BY <1>2, ForeignNames
  <2> QED BY <1>2, <1>14, <2>1
<1>16. ASSUME NEW part \in Parts, work.rec[part] # None
       PROVE  work'.rec[part] = work.rec[part]
  <2>1. CASE part \in parts
    <3>1. work.rec[part] \in Foreign /\ cloud[work.rec[part]].part = part
      BY <1>16, <2>1 DEF Sure, Doing, Whole, Held, NoPart
    <3>2. ForeignPart[work.rec[part]] = part
      BY <3>1, Known DEF CloudOK, ForeignStand
    <3>3. PICK i \in Foreign, j \in Foreign : i = work.rec[part] /\ j = ids[part]
      BY <1>15, <2>1, <3>1
    <3>4. i = j
      BY <1>2, <1>15, <2>1, <3>2, <3>3, ForeignNames
    <3> QED BY <1>13, <2>1, <3>3, <3>4
  <2>2. CASE part \notin parts
    BY <1>13, <2>2
  <2> QED BY <2>1, <2>2
<1>17. \A part \in Parts : made'[part] # None =>
         made'[part] \in Foreign /\ ForeignPart[made'[part]] = part
  BY <1>13, <1>14
<1>18. \A part \in parts : made'[part] # None
  BY <1>2, <1>13, <1>15
<1>19. Coming(todo) = parts
  BY <1>9, <1>10
<1>20. Finds(parts)
  BY <1>1, <1>2, <1>5, <1>11, <1>13, <1>16, <1>17, <1>18, <1>19 DEF Finds
<1> QED BY <1>20

LEMMA FoundWhole ==
  ASSUME IInv, IInv', Sure, NEW parts, Finds(parts), Grows
  PROVE  Held(made)' /\ Whole(work, Pending, Coming(todo))'
<1>1. /\ UNCHANGED <<config, cloud, faults>> /\ todo' = <<>> /\ Coming(todo) = parts
      /\ parts \subseteq Kept /\ parts \subseteq Parts /\ Pending = {}
      /\ \A part \in Parts : made'[part] # None =>
           made'[part] \in Foreign /\ ForeignPart[made'[part]] = part
      /\ \A part \in Parts : work'.rec[part] = IF part \in parts THEN made'[part] ELSE work.rec[part]
      /\ \A part \in parts : made'[part] # None
      /\ \A part \in Parts : work.rec[part] # None => work'.rec[part] = work.rec[part]
      /\ work'.phase = work.phase /\ work'.ready = work.ready
  BY DEF Finds, Keeping
<1>2. Kept' = Kept /\ Foreign' = Foreign /\ Wanted' = Wanted /\ (Undisturbed' => Undisturbed)
      /\ Promised' \subseteq Promised
  BY DemandsKeep
<1>3. \A i \in Foreign : i \in Live' /\ cloud'[i].part = ForeignPart[i]
  <2>1. config \in Setups /\ ForeignStand /\ Foreign \subseteq Ids
    BY Known, ForeignFacts DEF CloudOK
  <2> QED BY <1>1, <2>1 DEF ForeignStand, Live
<1>4. Held(made)'
  BY <1>1, <1>2, <1>3 DEF Held, NoPart
<1>5. Held(work.rec) /\ Equipped(work.rec, {}) /\ InOrder(work.rec, parts) /\ Reached(work)
      /\ (work.ready => work.phase = "Ready")
  BY <1>1 DEF Sure, Doing, Whole
<1>6. PICK old \in RecordType : old = work.rec
  BY Known
<1>7. Held(old)' /\ Equipped(old, {})'
  BY <1>5, <1>6, HeldStays, EquippedStays
<1>8. Held(work.rec)'
  <2> SUFFICES ASSUME NEW part \in Parts, work'.rec[part] # None
               PROVE  /\ work'.rec[part] \in Live' /\ cloud'[work'.rec[part]].part = part
                      /\ part \in Kept' => work'.rec[part] \in Foreign'
    BY DEF Held, NoPart
  <2>1. CASE part \in parts
    BY <1>1, <1>2, <1>3, <2>1
  <2>2. CASE part \notin parts
    BY <1>1, <1>6, <1>7, <2>2 DEF Held, NoPart
  <2> QED BY <2>1, <2>2
<1>9. Pending' = {} /\ Coming(todo)' = {}
  <2>1. Coming(<<>>) = {}
    BY GoneNow
  <2> QED BY <1>1, <2>1 DEF Pending, Coming
<1>10. Equipped(work.rec, {})'
  <2> SUFFICES ASSUME NEW part \in Parts, work'.rec[part] # None
               PROVE  Settings(part)' \subseteq cloud'[work'.rec[part]].settings
    BY DEF Equipped, NoPart
  <2>1. CASE part \in parts
    <3>1. Settings(part) = {}
      <4>1. config \in Setups /\ part \in Kept
        BY <1>1, <2>1, Known
      <4>2. (part = "vpc" /\ ~OwnVpc) \/ (part \in {"public1", "private1"} /\ ~OwnSubnets)
        BY <4>1 DEF Kept
      <4>3. "public1" \in Each(Public) /\ "private1" \in Each(Private)
        BY Named
      <4> QED BY <4>2, <4>3, SettingsOf DEF SettingsKnown
    <3>2. Settings(part)' \subseteq Settings(part)
      BY DemandsKeep
    <3> QED BY <3>1, <3>2
  <2>2. CASE part \notin parts
    BY <1>1, <1>6, <1>7, <2>2 DEF Equipped, NoPart
  <2> QED BY <2>1, <2>2
<1>11. /\ \A part \in Parts \ {"vpc", "public1", "private1"} : work'.rec[part] = work.rec[part]
       /\ parts \subseteq {"vpc", "public1", "private1"}
       /\ NoPart(work.rec)' = NoPart(work.rec) \ parts
  <2>1. Kept \subseteq {"vpc", "public1", "private1"}
    BY Known, ForeignFacts
  <2> QED BY <1>1, <2>1 DEF NoPart
<1>12. InOrder(work.rec, {})'
  <2>1. /\ {"nat1", "nat2", "publicRT"} \subseteq Parts \ {"vpc", "public1", "private1"}
        /\ Each(PrivateRT) \subseteq Parts \ {"vpc", "public1", "private1"}
        /\ Each(NAT) \cap {"vpc", "public1", "private1"} = {}
        /\ Tables \cap {"vpc", "public1", "private1"} = {}
    BY Named
  <2>2. \A z \in Zones : /\ Eip[z] \in Parts \ {"vpc", "public1", "private1"}
                         /\ NAT[z] \in Parts \ {"vpc", "public1", "private1"}
    BY Named DEF Zones, Eip, NAT
  <2>3. /\ \A z \in Zones : work'.rec[Eip[z]] # None => work'.rec[NAT[z]] # None
        /\ work'.rec["nat2"] # None => work'.rec["nat1"] # None
        /\ (\E part \in Each(PrivateRT) : work'.rec[part] # None) => work'.rec["publicRT"] # None
    BY <1>5, <1>11, <2>1, <2>2 DEF InOrder
  <2>4. Complete(work.rec, {}, "nat1", Each(NAT))'
    BY <1>2, <1>5, <1>11, <2>1 DEF InOrder, Complete
  <2>5. Complete(work.rec, {}, "publicRT", Tables)'
    BY <1>2, <1>5, <1>11, <2>1 DEF InOrder, Complete
  <2> QED BY <2>3, <2>4, <2>5 DEF InOrder
<1>13. Reached(work)'
  <2>1. Rank(work.phase)' = Rank(work.phase)
    BY <1>1, Zenon
  <2> QED BY <1>2, <1>5, <1>11, <2>1 DEF Reached
<1>14. Whole(work, Pending, Coming(todo))'
  BY <1>1, <1>5, <1>8, <1>9, <1>10, <1>12, <1>13 DEF Whole
<1> QED BY <1>4, <1>14

LEMMA FindSure ==
  ASSUME IInv, IInv', RInv, FindCall
  PROVE  RInv'
<1> SUFFICES ASSUME ~Asked
             PROVE  Sure'
  BY ScriptLives DEF Script
<1>1. Sure /\ ~work.deleting
  BY Unasked
<1>2. PICK parts : Finds(parts)
  BY <1>1, FindFinds
<1>3. /\ UNCHANGED <<config, cloud, faults, object, cache, cacheFresh, workFresh>>
      /\ todo' = <<>> /\ Coming(todo) = parts
      /\ parts \subseteq Kept /\ parts \subseteq Parts /\ pc = "run" /\ pc' = "run" /\ made = NoRecord
      /\ work'.phase = work.phase
      /\ \A part \in Parts : made'[part] # None => made'[part] \in Foreign
      /\ \A part \in Parts : work'.rec[part] = IF part \in parts THEN made'[part] ELSE work.rec[part]
      /\ \A part \in parts : made'[part] # None
      /\ \A part \in Parts : work.rec[part] # None => work'.rec[part] = work.rec[part]
  BY <1>2 DEF Finds, Keeping, kube
<1>4. Grows
  BY <1>3, NoneGrows
<1>5. Held(made)' /\ Whole(work, Pending, Coming(todo))'
  BY <1>1, <1>2, <1>4, FoundWhole
<1>6. Whole(object, {}, {})' /\ Whole(cache, {}, {})'
  BY <1>1, <1>3, <1>4, ObjectsStay
<1>7. Foreign' = Foreign /\ Promised' \subseteq Promised /\ FindingScripts' = FindingScripts
  BY <1>4, DemandsKeep DEF FindingScripts
<1>8. Coming(todo)' = {} /\ Orderly(todo)'
  <2>1. Coming(<<>>) = {} /\ Orderly(<<>>)'
    BY GoneNow, PTL
  <2> QED BY <1>3, <2>1 DEF Coming
<1>9. Scripted'
  <2>1. todo' \notin FindingScripts'
    <3>1. PICK s : s = todo'
      OBVIOUS
    <3>2. s \notin FindingScripts
      BY <1>3, <3>1, Known, FindingTypes
    <3> QED BY <1>7, <3>1, <3>2
  <2>2. Accounted'
    BY <1>3, <1>7 DEF Accounted, NoPart
  <2>3. Following'
    <3> SUFFICES ASSUME work.phase \in Creating
                 PROVE  Promised' \cap Makes[work.phase] \cap NoPart(work.rec)' \subseteq {}
      BY <1>3, <1>8 DEF Following
    <3>1. Promised \cap Makes[work.phase] \cap NoPart(work.rec) \subseteq parts
      BY <1>1, <1>3 DEF Sure, Doing, Scripted, Following
    <3>2. NoPart(work.rec)' \subseteq NoPart(work.rec) \ parts
      BY <1>3 DEF NoPart
    <3> QED BY <1>7, <3>1, <3>2
  <2> QED BY <1>8, <2>1, <2>2, <2>3 DEF Scripted
<1>10. (Undisturbed => UpToDate)'
  <2> SUFFICES ASSUME Undisturbed'
               PROVE  UpToDate'
    OBVIOUS
  <2>1. Carried /\ InHand /\ config \in Setups
    BY <1>1, <1>4, DemandsKeep, Known DEF Sure, UpToDate
  <2>2. Carried'
    BY <1>3, <2>1 DEF Carried
  <2>3. InHand'
    <3> SUFFICES ASSUME NEW i \in Ours, cloud[i].part # "balancer"
                 PROVE  i \in {object.rec[cloud[i].part], work'.rec[cloud[i].part], made'[cloud[i].part]}
      BY <1>3, <1>7 DEF InHand, Ours, Live
    <3>1. PICK part : part = cloud[i].part
      OBVIOUS
    <3>2. i \in {object.rec[part], work.rec[part], made[part]}
      BY <2>1, <3>1 DEF InHand
    <3>3. i \in Ids /\ i # None /\ cloud[i].state # "none"
      BY BoundsAssumption DEF Ours, Live, Ids, None
    <3>4. part \in Parts
      <4>1. part \in Kinds \cup {""} /\ part # ""
        BY <3>1, <3>3, Known DEF CloudOK, ResourceType
      <4> QED BY <3>1, <4>1 DEF Kinds
    <3>5. made[part] = None
      BY <1>3, <3>4 DEF NoRecord
    <3> QED BY <1>3, <3>1, <3>2, <3>3, <3>4, <3>5
  <2> QED BY <2>2, <2>3 DEF UpToDate
<1>11. /\ (\A i \in Ids : cloud[i].state \notin {"deleting", "gone"})'
       /\ (faults = 0 /\ pc # "idle" => workFresh)'
  BY <1>1, <1>3 DEF Sure
<1> QED BY <1>5, <1>6, <1>9, <1>10, <1>11 DEF Sure, Doing

(* An add-on that fails is left out, and the phase is over.                *)
LEMMA PassSure ==
  ASSUME IInv, RInv, ~Asked, PassOver, todo # <<>>, pc = "run",
         Head(todo).op # "find", Head(todo).part = "addon",
         ~Undisturbed', faults' = 0 => faults = 0
  PROVE  Sure'
<1>1. Sure /\ ~work.deleting /\ config \in Setups
  BY Unasked, Known
<1>2. PICK h : h = Head(todo)
  OBVIOUS
<1>3. todo \in Seq(MakingSteps) /\ h = todo[1] /\ HeadOK(todo, h) /\ h.part = "addon"
  <2>1. h.op # "find" /\ h.part = "addon"
    BY <1>2
  <2> QED BY <1>1, <1>2, <2>1, MakingHead
<1>4. Len(todo) = 1 /\ h.records = {"addon"} /\ h.op = "make" /\ made["addon"] = None
  BY <1>3 DEF HeadOK
<1>5. UNCHANGED <<config, object, work, made, cloud, pc>> /\ todo' = Tail(todo) /\ Keeping
  BY <1>1 DEF PassOver, Keeping, kube
<1>6. Tail(todo) = <<>> /\ Coming(todo) = {"addon"} /\ Pending = {}
  <2>1. Tail(todo) = <<>> /\ 1..Len(todo) = {1}
    <3>1. PICK s \in Seq(MakingSteps) : s = todo
      BY <1>3
    <3>2. Len(s) = 1 /\ s # <<>>
      BY <1>4, <3>1
    <3>3. Rest(Tail(s), s)
      BY <3>2, RestIs
    <3>4. PICK r : r = Tail(s)
      OBVIOUS
    <3>5. r \in Seq(MakingSteps) /\ Len(r) = 0
      BY <3>2, <3>3, <3>4 DEF Rest
    <3>6. r = <<>>
      BY <3>5
    <3>7. 1..1 = {1}
      OBVIOUS
    <3>8. 1..Len(s) = {1}
      BY <3>2, <3>7
    <3> QED BY <3>1, <3>4, <3>6, <3>8
  <2>2. Coming(todo) = {"addon"}
    <3>1. \A k \in {1} : todo[k].records = {"addon"}
      BY <1>3, <1>4
    <3>2. PICK s : s = todo
      OBVIOUS
    <3>3. 1..Len(s) = {1} /\ \A k \in {1} : s[k].records = {"addon"}
      BY <2>1, <3>1, <3>2
    <3>4. ASSUME NEW part PROVE part \in Coming(s) <=> part = "addon"
      BY <3>3 DEF Coming
    <3>5. Coming(s) = {"addon"}
      BY <3>4
    <3> QED BY <3>2, <3>5
  <2>3. Pending = {}
    BY <1>3, <1>4 DEF Pending, Attaches
  <2> QED BY <2>1, <2>2, <2>3
<1>7. Coming(todo)' = {} /\ Pending' = {} /\ Orderly(todo)'
  <2>1. Coming(<<>>) = {} /\ Orderly(<<>>)'
    BY GoneNow, PTL
  <2>2. todo' = <<>>
    BY <1>5, <1>6
  <2> QED BY <2>1, <2>2 DEF Coming, Pending
<1>8. Grows
  BY <1>5, NoneGrows
<1>9. Whole(work, Pending, Coming(todo))'
  <2>1. PICK o \in ObjectType : o = work
    BY Known
  <2>2. Whole(o, {}, {"addon"})
    BY <1>1, <1>6, <2>1 DEF Sure, Doing
  <2>3. Whole(o, {}, {"addon"})'
    BY <1>8, <2>2, WholeStays
  <2>4. Whole(o, {}, {})'
    BY <2>3 DEF Whole, InOrder, Complete
  <2> QED BY <1>5, <1>7, <2>1, <2>4
<1>10. Scripted'
  <2>1. todo' \notin FindingScripts'
    <3>1. PICK s : s = todo'
      OBVIOUS
    <3>2. s \notin FindingScripts
      BY <1>1, <1>5, <1>6, <3>1, FindingTypes
    <3> QED BY <1>5, <3>1, <3>2, ConfigKeeps
  <2>2. Accounted'
    <3>1. Accounted
      BY <1>1 DEF Sure, Doing, Scripted
    <3>2. Foreign' = Foreign
      BY <1>8, DemandsKeep
    <3> QED BY <1>4, <1>5, <1>6, <3>1, <3>2 DEF Accounted, NoPart
  <2>3. Following'
    <3>1. Following
      BY <1>1 DEF Sure, Doing, Scripted
    <3>2. Promised' \subseteq Promised /\ "addon" \notin Promised'
      <4>1. Promised' = Needed'
        BY DEF Promised
      <4>2. Needed' = Needed
        BY <1>8, DemandsKeep
      <4>3. "addon" \notin Needed
        BY <1>1, NeededOf, Named
      <4> QED BY <1>8, <4>1, <4>2, <4>3, DemandsKeep
    <3> QED BY <1>5, <1>6, <1>7, <3>1, <3>2 DEF Following, NoPart
  <2> QED BY <1>7, <2>1, <2>2, <2>3 DEF Scripted
<1> QED BY <1>1, <1>5, <1>9, <1>10, LocalSure

(* How the controller takes it that a call fails.                          *)
LEMMA HowFails ==
  ASSUME IInv, RInv, ~Asked, todo # <<>>, NEW h, h = Head(todo)
  PROVE  /\ h.inUse = "fails"
         /\ IF h.part = "addon" THEN h.op = "make" /\ h.on = "passes" ELSE h.on = "fails"
         /\ h.op \in {"find", "make", "set"} /\ pc = "run"
         /\ h.op # "find" => HeadOK(todo, h) /\ h = todo[1]
<1>1. Sure /\ ~work.deleting /\ config \in Setups /\ todo \in Seq(MakingSteps) \cup FindingScripts
  BY Unasked, Known
<1>2. CASE h.op = "find"
  <2>1. PICK s : s = todo
    OBVIOUS
  <2>2. s \notin Seq(MakingSteps)
    <3>1. ASSUME s \in Seq(MakingSteps) PROVE Head(s) \in MakingSteps
      BY <2>1, <3>1
    <3> QED BY <1>2, <2>1, <3>1 DEF MakingSteps
  <2>3. s \in FindingScripts
    BY <1>1, <2>1, <2>2
  <2>4. h.on = "fails" /\ h.inUse = "fails" /\ h.part = "vpc"
    BY <1>1, <2>1, <2>3, FindingTypes
  <2> QED BY <1>2, <2>4, Known
<1>3. CASE h.op # "find"
  BY <1>1, <1>3, MakingHead DEF HeadOK
<1> QED BY <1>2, <1>3

LEMMA CallFailsSure ==
  ASSUME IInv, RInv, CallFails
  PROVE  RInv'
<1>1. CASE Asked
  BY <1>1, ScriptLives DEF Script
<1>2. CASE ~Asked
  <2>1. PICK h : h = Head(todo)
    OBVIOUS
  <2>2. pc = "run" /\ todo # <<>> /\ Fault /\ Fails(h.on)
    BY <2>1 DEF CallFails
  <2>3. faults' # 0 /\ ~Undisturbed'
    BY <2>2, FailedNow DEF Undisturbed
  <2>4. /\ IF h.part = "addon" THEN h.op = "make" /\ h.on = "passes" ELSE h.on = "fails"
    BY <1>2, <2>1, <2>2, HowFails
  <2>5. CASE h.part = "addon"
    <3>1. PassOver
      BY <2>2, <2>4, <2>5 DEF Fails
    <3>2. Sure'
      BY <1>2, <2>1, <2>2, <2>3, <2>4, <2>5, <3>1, PassSure
    <3> QED BY <3>2, ScriptLives DEF Script
  <2>6. CASE h.part # "addon"
    <3>1. PhaseFails
      BY <2>2, <2>4, <2>6 DEF Fails
    <3> QED BY <2>2, <2>3, <3>1, StopSure
  <2> QED BY <2>5, <2>6
<1> QED BY <1>1, <1>2

(* What is not done as long as nobody has asked for the deletion.          *)
LEMMA DeletingSure ==
  ASSUME IInv, RInv,
         DeleteCall \/ DeleteRefused \/ AwaitCall \/ DetachCall \/ SweepCall
           \/ SweepHeldUp \/ ClearStep
  PROVE  RInv'
<1>1. PICK h : h = Head(todo)
  OBVIOUS
<1>2. todo # <<>> /\ h.op \in {"delete", "await", "detach", "sweep", "clear"}
  BY <1>1 DEF DeleteCall, DeleteRefused, AwaitCall, DetachCall, SweepCall, SweepHeldUp, ClearStep,
              Running
<1>3. Asked
  BY <1>1, <1>2, HowFails
<1> QED BY <1>3, ScriptLives DEF Script

(* If nothing goes wrong, nothing stands in the way.                       *)
LEMMA NoneStands ==
  ASSUME IInv, Sure, Undisturbed, pc = "run", NEW i \in Live, cloud[i].part \in Parts
  PROVE  LET part == cloud[i].part
         IN \/ i \in {work.rec[part], made[part]}
            \/ i \in Foreign /\ part \in Kept
<1>1. PICK part \in Parts : part = cloud[i].part
  OBVIOUS
<1>2. Carried /\ InHand /\ config \in Setups /\ None \notin Ids
  <2>1. None \notin Ids
    BY BoundsAssumption DEF Ids, None
  <2> QED BY <2>1, Known DEF Sure, UpToDate
<1>3. CASE i \in Foreign
  <2>1. cloud[i].part = ForeignPart[i]
    BY <1>3, Known DEF CloudOK, ForeignStand
  <2>2. ForeignPart[i] \in Kept
    BY <1>2, <1>3, ForeignNames DEF Undisturbed
  <2> QED BY <1>3, <2>1, <2>2
<1>4. CASE i \notin Foreign
  <2>1. part # "balancer"
    BY <1>1, Named
  <2>2. i \in {object.rec[part], work.rec[part], made[part]}
    BY <1>1, <1>2, <1>4, <2>1 DEF InHand, Ours
  <2>3. object.rec[part] \in {None, work.rec[part]}
    BY <1>2 DEF Carried
  <2>4. i # None
    BY <1>2 DEF Live
  <2> QED BY <1>1, <2>2, <2>3, <2>4
<1> QED BY <1>3, <1>4

LEMMA MakeRefusedSure ==
  ASSUME IInv, RInv, MakeRefused
  PROVE  RInv'
<1>1. CASE Asked
  BY <1>1, ScriptLives DEF Script
<1>2. CASE ~Asked
  <2>1. PICK h : h = Head(todo)
    OBVIOUS
  <2>2. pc = "run" /\ todo # <<>> /\ Fails(h.on) /\ UNCHANGED faults /\ h.op = "make" /\ Part = h.part
    BY <2>1 DEF MakeRefused, Running, Part
  <2>3. /\ IF h.part = "addon" THEN h.op = "make" /\ h.on = "passes" ELSE h.on = "fails"
        /\ HeadOK(todo, h) /\ h = todo[1]
    BY <1>2, <2>1, <2>2, HowFails
  <2>4. Sure /\ Described = Live
    BY <1>2, Unasked
  <2>5. h.part \in Parts \ Kept /\ made[h.part] = None /\ work.rec[h.part] = None
    BY <2>2, <2>3, <2>4, RecordHead
  <2>6. Pending = {}
    BY <2>2, <2>3 DEF Pending, Attaches
  <2>7. ~Undisturbed
    <3> SUFFICES ASSUME Undisturbed
                 PROVE  FALSE
      OBVIOUS
    <3>1. Part \notin HasName /\ Twins(Part, Network) # {}
      BY DEF MakeRefused, Undisturbed
    <3>2. PICK i \in Live : cloud[i].part = h.part
      BY <2>2, <2>4, <3>1 DEF Twins, Within, Of
    <3>3. i # None
      BY <2>2, TargetTypes DEF Live
    <3> QED BY <2>2, <2>4, <2>5, <3>2, <3>3, NoneStands
  <2>8. PhaseFails \/ PassOver
    BY <2>2, <2>3 DEF Fails
  <2>9. ~Undisturbed'
    <3>1. UNCHANGED <<config, cloud>>
      BY <2>8 DEF PhaseFails, PassOver, Keeping
    <3>2. Grows
      BY <2>2, <3>1, NoneGrows
    <3> QED BY <2>7, <3>2, DemandsKeep
  <2>10. CASE h.part = "addon"
    <3>1. PassOver
      BY <2>2, <2>3, <2>10 DEF Fails
    <3>2. Sure'
      BY <1>2, <2>1, <2>2, <2>9, <2>10, <3>1, PassSure
    <3> QED BY <3>2, ScriptLives DEF Script
  <2>11. CASE h.part # "addon"
    <3>1. PhaseFails
      BY <2>2, <2>3, <2>11 DEF Fails
    <3> QED BY <2>2, <2>6, <2>9, <3>1, StopSure
  <2> QED BY <2>10, <2>11
<1> QED BY <1>1, <1>2

LEMMA SetRefusedSure ==
  ASSUME IInv, RInv, SetRefused
  PROVE  RInv'
<1>1. CASE Asked
  BY <1>1, ScriptLives DEF Script
<1>2. CASE ~Asked
  <2>1. PICK h : h = Head(todo)
    OBVIOUS
  <2>2. /\ pc = "run" /\ todo # <<>> /\ Fails(h.inUse) /\ UNCHANGED faults /\ h.op = "set"
        /\ Taken(Target, h.setting)
    BY <2>1 DEF SetRefused, Refused, Running
  <2>3. h.inUse = "fails" /\ HeadOK(todo, h) /\ h = todo[1]
    BY <1>2, <2>1, <2>2, HowFails
  <2>4. Sure /\ Described = Live
    BY <1>2, Unasked
  <2>5. /\ Target \in Live /\ cloud[Target].part = h.part
        /\ h.setting # "policies" => Target = made[h.part]
    BY <2>1, <2>2, <2>3, <2>4, SetTarget
  <2>6. h.setting # "policies"
    BY <2>2 DEF Taken
  <2>7. /\ made[h.part] # None /\ h.part \in Parts /\ work.rec[h.part] \in {None, made[h.part]}
        /\ Pending = {}
    BY <2>3, <2>2, <2>6 DEF HeadOK, Pending, Attaches
  <2>8. ~Undisturbed
    <3> SUFFICES ASSUME Undisturbed
                 PROVE  FALSE
      OBVIOUS
    <3>1. PICK j \in Live : cloud[j].part = cloud[Target].part /\ j # Target
      BY <2>2, <2>4 DEF Taken, Within, Of
    <3>2. cloud[j].part = h.part /\ j # None
      BY <2>2, <2>5, <3>1, TargetTypes DEF Live
    <3>3. j \in Foreign /\ h.part \in Kept
      BY <2>2, <2>4, <2>5, <2>6, <2>7, <3>1, <3>2, NoneStands
    <3>4. made[h.part] \in Foreign
      BY <2>4, <2>7, <3>3 DEF Sure, Doing, Held, NoPart
    <3> QED BY <2>2, <2>7, <3>4, Known DEF AtPc
  <2>9. PhaseFails
    BY <2>2, <2>3 DEF Fails
  <2>10. ~Undisturbed'
    <3>1. UNCHANGED <<config, cloud>>
      BY <2>9 DEF PhaseFails, Keeping
    <3>2. Grows
      BY <2>2, <3>1, NoneGrows
    <3> QED BY <2>8, <3>2, DemandsKeep
  <2> QED BY <2>2, <2>7, <2>9, <2>10, StopSure
<1> QED BY <1>1, <1>2

-----------------------------------------------------------------------------
LEMMA InitSure == Init => RInv
<1> SUFFICES ASSUME Init PROVE RInv
  OBVIOUS
<1>1. /\ config \in Setups /\ object = Created /\ cache = Created
      /\ pc = "idle" /\ work = Gone /\ todo = <<>> /\ made = NoRecord /\ faults = 0
  BY DEF Init
<1>2. PICK o : o = Created
  OBVIOUS
<1>3. o.exists /\ ~o.deleting /\ ~o.ready /\ o.rec = NoRecord /\ Rank(o.phase) = 0
  <2>1. o.exists /\ ~o.deleting /\ ~o.ready /\ o.rec = NoRecord /\ o.phase = ""
    BY <1>2 DEF Created, Object
  <2>2. Rank(o.phase) = 0
    BY <2>1, RankOf, Zenon
  <2> QED BY <2>1, <2>2
<1>4. Whole(o, {}, {})
  BY <1>3, NothingYet
<1>5. \A i \in Ids : cloud[i].state = IF i \in Foreign THEN "available" ELSE "none"
  BY DEF Init, Resource, Nothing
<1>6. Doing
  BY <1>1, NothingDoing DEF Idling
<1>7. UpToDate
  BY <1>1, <1>5 DEF UpToDate, Carried, InHand, Ours, Live
<1>8. Sure
  BY <1>1, <1>2, <1>4, <1>5, <1>6, <1>7 DEF Sure
<1> QED BY <1>1, <1>2, <1>3, <1>8 DEF RInv

LEMMA NextSure == IInv /\ IInv' /\ RInv /\ [Next]_vars => RInv'
<1> SUFFICES ASSUME IInv, IInv', RInv, [Next]_vars PROVE RInv'
  OBVIOUS
<1>1. CASE Script
  BY <1>1, MakeSure, MakeRefusedSure, SetSure, SetRefusedSure, FindSure, DeletingSure, CallFailsSure
     DEF Script
<1>2. CASE Reconcile /\ ~Script
  BY <1>2, ReadSure, FinalizerSure, BeginPhaseSure, EndPhaseSure, EndDeletionSure, CheckSure, EndsSure
     DEF Reconcile
<1>3. CASE Environment
  BY <1>3, EndsSure, SyncSure, RequestSure, CloudStepSure DEF Environment
<1>4. CASE UNCHANGED vars
  <2>1. UNCHANGED <<config, object, cache, cacheFresh, pc, work, workFresh, todo, made, cloud, faults>>
    BY <1>4 DEF vars
  <2>2. Grows
    BY <2>1, NoneGrows
  <2>3. Asked' <=> Asked
    BY <2>1 DEF Asked
  <2> SUFFICES ASSUME ~Asked PROVE Sure'
    BY <2>1, <2>3 DEF RInv
  <2>4. Sure
    BY Unasked
  <2>5. Whole(object, {}, {})' /\ Whole(cache, {}, {})'
    BY <2>1, <2>2, <2>4, ObjectsStay
  <2>6. Doing'
    <3>1. Doing /\ ~work.deleting
      BY Unasked DEF Sure
    <3> QED BY <2>1, <2>2, <3>1, DoingStays
  <2>7. (Undisturbed => UpToDate)'
    BY <2>1, <2>2, <2>4, DemandsKeep DEF Sure, UpToDate, Carried, InHand, Ours, Live
  <2> QED BY <2>1, <2>4, <2>5, <2>6, <2>7 DEF Sure
<1> QED BY <1>1, <1>2, <1>3, <1>4 DEF Next

(* As long as nobody asks for the deletion, the status names nothing that  *)
(* does not live, and nothing before it has what belongs to it; each phase *)
(* leaves what it is for; and what is made and not recorded yet is known   *)
(* to the Reconcile that has made it, and will be recorded by it.          *)
THEOREM SureUnlessAsked == Spec => []RInv
<1>1. Init => RInv
  BY InitSure
<1>2. IInv /\ IInv' /\ RInv /\ [Next]_vars => RInv'
  BY NextSure
<1> QED BY <1>1, <1>2, Invariant, PTL DEF Spec

(* If nothing disturbs it, all that the controller has made is in the      *)
(* status, or in the hands of a Reconcile.                                 *)
THEOREM NothingIsLost == Spec => []NothingLost
<1>1. IInv /\ RInv => NothingLost
  <2> SUFFICES ASSUME IInv, RInv, Undisturbed, object.exists, ~object.deleting,
                      NEW i \in Ours, cloud[i].part # "balancer"
               PROVE  i \in Recorded \cup RecordOf(work.rec) \cup RecordOf(made)
    BY DEF NothingLost, OursAndLost
  <2>1. InHand
    BY DEF RInv, Asked, Sure, UpToDate
  <2>2. PICK part : part = cloud[i].part
    OBVIOUS
  <2>3. i \in {object.rec[part], work.rec[part], made[part]}
    BY <2>1, <2>2 DEF InHand
  <2>4. i \in Ids /\ i # None /\ cloud[i].state # "none"
    BY BoundsAssumption DEF Ours, Live, Ids, None
  <2>5. part \in Parts
    <3>1. part \in Kinds \cup {""} /\ part # ""
      BY <2>2, <2>4, Known DEF CloudOK, ResourceType
    <3> QED BY <2>2, <3>1 DEF Kinds
  <2> QED BY <2>3, <2>4, <2>5 DEF Recorded, RecordOf
<1> QED BY <1>1, Invariant, SureUnlessAsked, PTL

(* A setup that the status calls ready has all its parts, and they have    *)
(* what belongs to them.                                                   *)
THEOREM ReadyComplete == Spec => []ReadyIsComplete
<1>1. IInv /\ RInv => ReadyIsComplete
  <2> SUFFICES ASSUME IInv, RInv, object.ready, ~object.deleting, NEW part \in Promised
               PROVE  /\ object.rec[part] \in Live
                      /\ Settings(part) \subseteq cloud[object.rec[part]].settings
    BY DEF ReadyIsComplete, Promised
  <2>1. Sure
    BY DEF RInv, Asked
  <2>2. PICK o \in ObjectType : o = object
    BY DEF IInv, TypeOK
  <2>3. Held(o.rec) /\ Equipped(o.rec, {}) /\ Reached(o) /\ o.phase = "Ready"
    BY <2>1, <2>2 DEF Sure, Whole
  <2>4. \E phase \in Creating : part \in Makes[phase]
    <3>1. /\ \A p \in Roles \cup Groups \cup Subnets \cup Each(NAT) \cup Tables
                       \cup {"vpc", "igw", "cluster", "pool", "addon"} :
                \E phase \in Creating : p \in Makes[phase]
      BY DEF Makes, Creating
    <3>2. config \in Setups
      BY Known
    <3> QED BY <3>1, <3>2, NeededOf, WantedOf, Named DEF Promised
  <2>5. \A phase \in Creating : Rank(phase) < 17
    BY RankPositive
  <2>6. Rank(o.phase) = 17
    <3>1. Rank("Ready") = 17
      BY RankOf
    <3> QED BY <2>3, <3>1, Zenon
  <2>7. part \in Parts /\ part \notin NoPart(o.rec)
    <3>1. part \notin NoPart(o.rec)
      BY <2>3, <2>4, <2>5, <2>6 DEF Reached
    <3>2. part \in Parts
      BY Known, NeededOf, WantedOf, Named DEF Promised
    <3> QED BY <3>1, <3>2
  <2> QED BY <2>2, <2>3, <2>7 DEF Held, Equipped
<1> QED BY <1>1, Invariant, SureUnlessAsked, PTL

=============================================================================
