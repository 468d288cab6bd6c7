------------------------ MODULE ComputeStackReadyProofs ------------------------
(* Proofs about what ComputeStack reports, for every set of Configs, every *)
(* account and every MaxFaults: a stack that says Ready has earned it; and *)
(* as long as nothing disturbs it, nothing created for it is lost and it   *)
(* says Ready only when it is complete.                                    *)
EXTENDS ComputeStackDeletionProofs

-----------------------------------------------------------------------------
(* DetermineCurrentPhase, read backwards.                                  *)

HasAll(o) == HasNetwork(o) /\ o.rts # {} /\ HasGroups(o) /\ HasBastion(o)

(* The phase called for is Ready exactly when nothing is missing.          *)
LEMMA ReadyWhenAll ==
  ASSUME NEW o \in Object
  PROVE  DetermineCurrentPhase([o EXCEPT !.phase = "Pending"]) = "Ready" <=> HasAll(o)
BY DEF DetermineCurrentPhase, HasAll, HasNetwork, HasGroups, HasBastion, Object

LEMMA EarnedIsAll == ASSUME NEW o, Earned(o), o.phase = "Ready" PROVE HasAll(o)
BY DEF Earned, HasAll

(* What the phase called for says of the phases before it.                 *)
LEMMA PhaseSays ==
  ASSUME NEW o \in Object, NEW p \in CreationPhases, p = DetermineCurrentPhase(o)
  PROVE  /\ o.phase # "Ready"
         /\ p \in {"CreatingRouteTables", "CreatingSecurityGroups"} \cup BastionPcs => HasNetwork(o)
         /\ p \in {"CreatingSecurityGroups"} \cup BastionPcs => o.rts # {}
         /\ p \in BastionPcs => HasGroups(o)
         /\ p = "WaitingBastionInstance" => o.bsg # NoId
<1>1. p \notin {"Ready", "Failed"} /\ o.phase # "Ready"
  BY DEF CreationPhases, DetermineCurrentPhase
<1>2. ASSUME p \in {"CreatingRouteTables", "CreatingSecurityGroups"} \cup BastionPcs
      PROVE  HasNetwork(o)
  BY <1>1, <1>2 DEF DetermineCurrentPhase, HasNetwork, BastionPcs
<1>3. ASSUME p \in {"CreatingSecurityGroups"} \cup BastionPcs PROVE o.rts # {}
  BY <1>1, <1>3 DEF DetermineCurrentPhase, BastionPcs
<1>4. ASSUME p \in BastionPcs PROVE HasGroups(o)
  BY <1>1, <1>4 DEF DetermineCurrentPhase, HasGroups, BastionPcs
<1>5. ASSUME p = "WaitingBastionInstance" PROVE o.bsg # NoId
  BY <1>1, <1>5 DEF DetermineCurrentPhase
<1> QED BY <1>1, <1>2, <1>3, <1>4, <1>5

-----------------------------------------------------------------------------
(* What a step has to show.                                                *)

(* The copies that stay have earned what they had.                         *)
LEMMA KubeEarned ==
  ASSUME AllEarned, UNCHANGED kube PROVE Earned(stack)' /\ Earned(cache)'
BY DEF AllEarned, Earned, HasNetwork, HasGroups, HasBastion, NeedsNAT, kube

LEMMA IdleIsBehind == ASSUME pc' \in {"idle", "write"} PROVE PhasesBehind'
BY DEF PhasesBehind, CreatingPcs, CreationPhases, BastionPcs

(* A step inside a reconcile that gets to the status write.                *)
LEMMA UnreadySaved ==
  ASSUME AllEarned, UNCHANGED kube, pc' = "write", work'.phase # "Ready"
  PROVE  AllEarned'
BY KubeEarned, IdleIsBehind DEF AllEarned, Earned

LEMMA ReadySaved ==
  ASSUME AllEarned, UNCHANGED kube, pc' = "write",
         HasNetwork(work)', work'.rts # {}, HasGroups(work)', HasBastion(work)'
  PROVE  AllEarned'
BY KubeEarned, IdleIsBehind DEF AllEarned, Earned

(* A step inside a creation phase: what is listed only grows.              *)
LEMMA StillBehind ==
  ASSUME IInv, AllEarned, UNCHANGED kube, pc \in CreatingPcs,
         \/ pc' = pc
         \/ pc \in {"CreatingBastionInstance", "StoreKey"} /\ pc' \in {"StoreKey", "RunInstance"},
         work'.phase = work.phase, work'.vpc = work.vpc, work'.igw = work.igw,
         work'.avail = work.avail, work'.bsg = work.bsg,
         \/ pc = "CreatingSubnets"
         \/ work'.pub = work.pub /\ work'.priv = work.priv,
         \/ pc \in {"CreatingSubnets", "CreatingNATGateway"}
         \/ work'.nats = work.nats,
         work.rts \subseteq work'.rts, work.sgs \subseteq work'.sgs
  PROVE  AllEarned'
<1>1. config' = config /\ work.phase # "Ready"
  BY DEF kube, AllEarned, PhasesBehind
<1>2. Earned(work)'
  BY <1>1 DEF Earned
<1>3. ASSUME pc' \in {"CreatingRouteTables", "CreatingSecurityGroups"} \cup BastionPcs
      PROVE  HasNetwork(work)'
  <2>1. /\ pc \in {"CreatingRouteTables", "CreatingSecurityGroups"} \cup BastionPcs
        /\ pc \notin {"CreatingSubnets", "CreatingNATGateway"}
    BY <1>3 DEF BastionPcs
  <2> QED BY <1>1, <2>1 DEF AllEarned, PhasesBehind, HasNetwork, NeedsNAT
<1>4. ASSUME pc' \in {"CreatingSecurityGroups"} \cup BastionPcs PROVE work'.rts # {}
  <2>1. pc \in {"CreatingSecurityGroups"} \cup BastionPcs
    BY <1>4 DEF BastionPcs
  <2> QED BY <2>1 DEF AllEarned, PhasesBehind
<1>5. ASSUME pc' \in BastionPcs PROVE HasGroups(work)'
  <2>1. pc \in BastionPcs
    BY <1>5 DEF BastionPcs
  <2> QED BY <1>1, <2>1 DEF AllEarned, PhasesBehind, HasGroups
<1>6. pc' = "WaitingBastionInstance" => work'.bsg # NoId
  BY DEF AllEarned, PhasesBehind
<1>7. PhasesBehind'
  BY <1>1, <1>3, <1>4, <1>5, <1>6 DEF PhasesBehind
<1> QED BY <1>2, <1>7, KubeEarned DEF AllEarned

-----------------------------------------------------------------------------
(* Creation.                                                               *)

LEMMA AbortEarned ==
  ASSUME IInv, AllEarned, UNCHANGED kube, Abort PROVE AllEarned'
<1>1. pc' = "write" /\ work'.phase = "Failed"
  BY WorkFacts DEF Abort, Save, Object
<1> QED BY <1>1, UnreadySaved

(* The calls that end their phase and do not enter Ready.                  *)
LEMMA PhaseEndsEarned ==
  ASSUME IInv, AllEarned,
         \/ UseExistingVpc \/ ModifyVpc \/ UseExistingIgw \/ UseExistingSubnets
         \/ SubnetsCreated \/ UseExistingNats \/ NatsCreated \/ RunInstance
  PROVE  AllEarned'
<1>1. UNCHANGED kube /\ pc' = "write"
  BY DEF UseExistingVpc, ModifyVpc, UseExistingIgw, UseExistingSubnets, SubnetsCreated,
         UseExistingNats, NatsCreated, RunInstance, Save, Creation
<1>2. work'.phase \in {"WaitingVPC", "CreatingSubnets", "WaitingSubnets", "WaitingNATGateway",
                       "WaitingBastionInstance"}
  BY WorkFacts
  DEF UseExistingVpc, ModifyVpc, UseExistingIgw, UseExistingSubnets, SubnetsCreated,
      UseExistingNats, NatsCreated, RunInstance, Save, Object
<1> QED BY <1>1, <1>2, UnreadySaved

LEMMA MayAbortEarned ==
  ASSUME IInv, AllEarned,
         \/ AttachInternetGateway \/ CreateBastionSecurityGroup \/ RouteTableFails
         \/ QuotaExceeded \/ CreateCallFails
  PROVE  AllEarned'
<1>1. UNCHANGED kube
  BY DEF AttachInternetGateway, CreateBastionSecurityGroup, RouteTableFails, QuotaExceeded,
         CreateCallFails, Creation
<1>2. CASE Abort
  BY <1>1, <1>2, AbortEarned
<1>3. CASE ~Abort
  <2>1. \/ Save([work EXCEPT !.igw = made, !.phase = "CreatingSubnets"])
        \/ Save([work EXCEPT !.bsg = NewId, !.phase = "CreatingBastionInstance"])
    BY <1>3 DEF AttachInternetGateway, CreateBastionSecurityGroup, RouteTableFails,
                QuotaExceeded, CreateCallFails
  <2>2. pc' = "write" /\ work'.phase \in {"CreatingSubnets", "CreatingBastionInstance"}
    BY <2>1, WorkFacts DEF Save, Object
  <2> QED BY <1>1, <2>2, UnreadySaved
<1> QED BY <1>2, <1>3

(* The Waiting phases before the last.                                     *)
LEMMA WaitsEarned ==
  ASSUME IInv, AllEarned, CheckVPCReady \/ CheckSubnetsReady \/ CheckNATGatewaysReady
  PROVE  AllEarned'
<1>1. pc \in CreatingPcs
  BY DEF CheckVPCReady, CheckSubnetsReady, CheckNATGatewaysReady, CreatingPcs, CreationPhases
<1>2. work.phase # "Ready"
  BY <1>1 DEF AllEarned, PhasesBehind
<1>3. \E S, next : /\ Wait(S, next)
                   /\ next \in {"CreatingInternetGateway", "CreatingNATGateway",
                                "CreatingRouteTables"}
  BY DEF CheckVPCReady, CheckSubnetsReady, CheckNATGatewaysReady
<1>4. UNCHANGED kube /\ pc' = "write" /\ work'.phase # "Ready"
  BY <1>2, <1>3, WorkFacts DEF Wait, Save, Creation, Object
<1> QED BY <1>4, UnreadySaved

(* The calls that stay in their phase.                                     *)
LEMMA CallsStayEarned ==
  ASSUME IInv, AllEarned,
         \/ CreateVpc \/ CreateInternetGateway \/ AllocateAddress \/ CreateRouteTable
         \/ StoreKey
  PROVE  AllEarned'
<1>1. /\ pc \in CreatingPcs /\ UNCHANGED <<kube, work>>
      /\ pc' = pc \/ (pc = "StoreKey" /\ pc' = "RunInstance")
  BY DEF CreateVpc, CreateInternetGateway, AllocateAddress, CreateRouteTable, StoreKey, Goto,
         Creation, CreatingPcs, CreationPhases
<1> QED BY <1>1, StillBehind

LEMMA CreateSubnetEarned == ASSUME IInv, AllEarned, CreateSubnet PROVE AllEarned'
<1>1. /\ pc = "CreatingSubnets" /\ UNCHANGED kube
      /\ Abort \/ (pc' = pc /\ UNCHANGED work)
  BY DEF CreateSubnet, Goto, Creation
<1>2. pc \in CreatingPcs
  BY <1>1 DEF CreatingPcs, CreationPhases
<1> QED BY <1>1, <1>2, AbortEarned, StillBehind

LEMMA CreateSecurityGroupEarned == ASSUME IInv, AllEarned, CreateSecurityGroup PROVE AllEarned'
<1>1. /\ pc = "CreatingSecurityGroups" /\ UNCHANGED kube
      /\ Abort \/ (pc' = pc /\ UNCHANGED work)
  BY DEF CreateSecurityGroup, Goto, Creation
<1>2. pc \in CreatingPcs
  BY <1>1 DEF CreatingPcs, CreationPhases
<1> QED BY <1>1, <1>2, AbortEarned, StillBehind

LEMMA PrepareBastionEarned == ASSUME IInv, AllEarned, PrepareBastion PROVE AllEarned'
<1>1. /\ pc = "CreatingBastionInstance" /\ UNCHANGED kube
      /\ Abort \/ (pc' \in {"StoreKey", "RunInstance"} /\ UNCHANGED work)
  BY DEF PrepareBastion
<1>2. pc \in CreatingPcs
  BY <1>1 DEF CreatingPcs, CreationPhases
<1> QED BY <1>1, <1>2, AbortEarned, StillBehind

LEMMA RecordSubnetEarned == ASSUME IInv, AllEarned, RecordSubnet PROVE AllEarned'
<1>1. /\ pc = "CreatingSubnets" /\ pc' = pc /\ UNCHANGED kube
      /\ \/ work' = [work EXCEPT !.pub = @ \cup {made}]
         \/ work' = [work EXCEPT !.priv = @ \cup {made}]
  BY DEF RecordSubnet, Goto, Creation
<1>2. pc \in CreatingPcs
  BY <1>1 DEF CreatingPcs, CreationPhases
<1>3. /\ work'.phase = work.phase /\ work'.vpc = work.vpc /\ work'.igw = work.igw
      /\ work'.avail = work.avail /\ work'.bsg = work.bsg
      /\ work'.nats = work.nats /\ work'.rts = work.rts /\ work'.sgs = work.sgs
  BY <1>1, WorkFacts DEF Object
<1> QED BY <1>1, <1>2, <1>3, StillBehind

LEMMA CreateNatGatewayEarned == ASSUME IInv, AllEarned, CreateNatGateway PROVE AllEarned'
<1>1. /\ pc = "CreatingNATGateway" /\ pc' = pc /\ UNCHANGED kube
      /\ work' = [work EXCEPT !.nats = @ \cup {NewId}]
  BY DEF CreateNatGateway, Goto, Creation
<1>2. pc \in CreatingPcs
  BY <1>1 DEF CreatingPcs, CreationPhases
<1>3. /\ work'.phase = work.phase /\ work'.vpc = work.vpc /\ work'.igw = work.igw
      /\ work'.avail = work.avail /\ work'.bsg = work.bsg
      /\ work'.pub = work.pub /\ work'.priv = work.priv
      /\ work'.rts = work.rts /\ work'.sgs = work.sgs
  BY <1>1, WorkFacts DEF Object
<1> QED BY <1>1, <1>2, <1>3, StillBehind

LEMMA RecordRouteTableEarned == ASSUME IInv, AllEarned, RecordRouteTable PROVE AllEarned'
<1>1. /\ pc = "CreatingRouteTables" /\ pc' = pc /\ UNCHANGED kube
      /\ work' = work \/ work' = [work EXCEPT !.rts = @ \cup {made}]
  BY DEF RecordRouteTable, Creation
<1>2. pc \in CreatingPcs
  BY <1>1 DEF CreatingPcs, CreationPhases
<1>3. /\ work'.phase = work.phase /\ work'.vpc = work.vpc /\ work'.igw = work.igw
      /\ work'.avail = work.avail /\ work'.bsg = work.bsg
      /\ work'.pub = work.pub /\ work'.priv = work.priv
      /\ work'.nats = work.nats /\ work.rts \subseteq work'.rts /\ work'.sgs = work.sgs
  BY <1>1, WorkFacts DEF Object
<1> QED BY <1>1, <1>2, <1>3, StillBehind

LEMMA AuthorizeIngressEarned == ASSUME IInv, AllEarned, AuthorizeIngress PROVE AllEarned'
<1>1. /\ pc = "CreatingSecurityGroups" /\ pc' = pc /\ UNCHANGED kube
      /\ work' = [work EXCEPT !.sgs = @ \cup {made}]
  BY DEF AuthorizeIngress, Goto, Creation
<1>2. pc \in CreatingPcs
  BY <1>1 DEF CreatingPcs, CreationPhases
<1>3. /\ work'.phase = work.phase /\ work'.vpc = work.vpc /\ work'.igw = work.igw
      /\ work'.avail = work.avail /\ work'.bsg = work.bsg
      /\ work'.pub = work.pub /\ work'.priv = work.priv
      /\ work'.nats = work.nats /\ work'.rts = work.rts /\ work.sgs \subseteq work'.sgs
  BY <1>1, WorkFacts DEF Object
<1> QED BY <1>1, <1>2, <1>3, StillBehind

-----------------------------------------------------------------------------
(* The five steps that may enter Ready.                                    *)

LEMMA EnterFacts ==
  ASSUME NEW o \in Object, NEW p \in Phases, NEW q, q = Enter(o, p)
  PROVE  /\ q.phase = p /\ q.vpc = o.vpc /\ q.igw = o.igw /\ q.avail = o.avail
         /\ q.pub = o.pub /\ q.priv = o.priv /\ q.nats = o.nats /\ q.rts = o.rts
         /\ q.sgs = o.sgs /\ q.bsg = o.bsg /\ q.bastion = o.bastion
BY DEF Enter, Object

(* The route tables are in place: with no group and no bastion to come,    *)
(* that was all.                                                           *)
LEMMA RouteTablesEarned ==
  ASSUME IInv, AllEarned, UseExistingRouteTables \/ RouteTablesCreated PROVE AllEarned'
<1>1. /\ pc = "CreatingRouteTables" /\ pc' = "write" /\ UNCHANGED kube
      /\ AfterRouteTables \in Phases
  BY DEF UseExistingRouteTables, RouteTablesCreated, Save, Creation, AfterRouteTables, Phases,
         CreationPhases
<1>2. \E o \in Object : /\ work' = Enter(o, AfterRouteTables)
                        /\ o.rts # {} /\ o.vpc = work.vpc /\ o.igw = work.igw
                        /\ o.avail = work.avail /\ o.pub = work.pub /\ o.priv = work.priv
                        /\ o.nats = work.nats
  <2>1. CASE UseExistingRouteTables
    <3>1. config \in ConfigType
      BY ConfigCounts
    <3>2. config.exRts \in SUBSET Ids /\ config.exRts # {}
      BY <2>1, <3>1, IdsFacts DEF UseExistingRouteTables, ConfigType
    <3>3. PICK o : o = [work EXCEPT !.rts = config.exRts]
      OBVIOUS
    <3>4. /\ o \in Object /\ o.rts = config.exRts /\ o.vpc = work.vpc /\ o.igw = work.igw
          /\ o.avail = work.avail /\ o.pub = work.pub /\ o.priv = work.priv
          /\ o.nats = work.nats
      BY <3>2, <3>3, WorkFacts DEF Object
    <3>5. work' = Enter(o, AfterRouteTables)
      BY <2>1, <3>3 DEF UseExistingRouteTables, Save
    <3> QED BY <3>2, <3>4, <3>5
  <2>2. CASE RouteTablesCreated
    BY <2>2, WorkFacts DEF RouteTablesCreated, Save, MissingRts
  <2> QED BY <2>1, <2>2
<1>3. /\ work'.phase = AfterRouteTables /\ work'.rts # {}
      /\ work'.vpc = work.vpc /\ work'.igw = work.igw /\ work'.avail = work.avail
      /\ work'.pub = work.pub /\ work'.priv = work.priv /\ work'.nats = work.nats
  BY <1>1, <1>2, EnterFacts
<1>4. CASE AfterRouteTables # "Ready"
  BY <1>1, <1>3, <1>4, UnreadySaved
<1>5. CASE AfterRouteTables = "Ready"
  <2>1. ~(config.sgs > 0) /\ ~config.bastion /\ UNCHANGED config
    BY <1>1, <1>5 DEF AfterRouteTables, kube
  <2>2. HasNetwork(work)
    BY <1>1 DEF AllEarned, PhasesBehind
  <2>3. HasNetwork(work)' /\ HasGroups(work)' /\ HasBastion(work)'
    BY <1>3, <2>1, <2>2 DEF HasNetwork, HasGroups, HasBastion, NeedsNAT
  <2> QED BY <1>1, <1>3, <2>3, ReadySaved
<1> QED BY <1>4, <1>5

(* The groups are in place.                                                *)
LEMMA SecurityGroupsEarned ==
  ASSUME IInv, AllEarned, UseExistingSecurityGroups \/ SecurityGroupsCreated PROVE AllEarned'
<1>1. /\ pc = "CreatingSecurityGroups" /\ pc' = "write" /\ UNCHANGED kube
      /\ AfterSecurityGroups \in Phases
  BY DEF UseExistingSecurityGroups, SecurityGroupsCreated, Save, Creation,
         AfterSecurityGroups, Phases, CreationPhases
<1>2. \E o \in Object : /\ work' = Enter(o, AfterSecurityGroups)
                        /\ HasGroups(o) /\ o.rts = work.rts
                        /\ o.vpc = work.vpc /\ o.igw = work.igw
                        /\ o.avail = work.avail /\ o.pub = work.pub /\ o.priv = work.priv
                        /\ o.nats = work.nats
  <2>1. CASE UseExistingSecurityGroups
    <3>1. config \in ConfigType
      BY ConfigCounts
    <3>2. config.exSgs \in SUBSET Ids /\ config.exSgs # {}
      BY <2>1, <3>1, IdsFacts DEF UseExistingSecurityGroups, ConfigType
    <3>3. PICK o : o = [work EXCEPT !.sgs = config.exSgs]
      OBVIOUS
    <3>4. /\ o \in Object /\ o.sgs = config.exSgs /\ o.vpc = work.vpc /\ o.igw = work.igw
          /\ o.avail = work.avail /\ o.pub = work.pub /\ o.priv = work.priv
          /\ o.nats = work.nats /\ o.rts = work.rts
      BY <3>2, <3>3, WorkFacts DEF Object
    <3>5. work' = Enter(o, AfterSecurityGroups)
      BY <2>1, <3>3 DEF UseExistingSecurityGroups, Save
    <3> QED BY <3>2, <3>4, <3>5 DEF HasGroups
  <2>2. CASE SecurityGroupsCreated
    <3>1. ~(Cardinality(work.sgs) < config.sgs) /\ work' = Enter(work, AfterSecurityGroups)
      BY <2>2 DEF SecurityGroupsCreated, MissingSgs, Save
    <3>2. HasGroups(work)
      BY <3>1, FS_EmptySet, ConfigCounts DEF HasGroups
    <3> QED BY <3>1, <3>2, WorkFacts
  <2> QED BY <2>1, <2>2
<1>3. PICK o \in Object : /\ work' = Enter(o, AfterSecurityGroups)
                          /\ HasGroups(o) /\ o.rts = work.rts
                          /\ o.vpc = work.vpc /\ o.igw = work.igw
                          /\ o.avail = work.avail /\ o.pub = work.pub /\ o.priv = work.priv
                          /\ o.nats = work.nats
  BY <1>2
<1>4. /\ work'.phase = AfterSecurityGroups /\ work'.rts = work.rts /\ work'.sgs = o.sgs
      /\ work'.vpc = work.vpc /\ work'.igw = work.igw /\ work'.avail = work.avail
      /\ work'.pub = work.pub /\ work'.priv = work.priv /\ work'.nats = work.nats
  BY <1>1, <1>3, EnterFacts
<1>5. CASE AfterSecurityGroups # "Ready"
  BY <1>1, <1>4, <1>5, UnreadySaved
<1>6. CASE AfterSecurityGroups = "Ready"
  <2>1. ~config.bastion /\ UNCHANGED config
    BY <1>1, <1>6 DEF AfterSecurityGroups, kube
  <2>2. HasNetwork(work) /\ work.rts # {}
    BY <1>1 DEF AllEarned, PhasesBehind
  <2>3. HasNetwork(work)' /\ HasGroups(work)' /\ HasBastion(work)'
    BY <1>3, <1>4, <2>1, <2>2 DEF HasNetwork, HasGroups, HasBastion, NeedsNAT
  <2> QED BY <1>1, <1>4, <2>2, <2>3, ReadySaved
<1> QED BY <1>5, <1>6

(* The bastion runs.                                                       *)
LEMMA BastionEarned == ASSUME IInv, AllEarned, CheckBastionReady PROVE AllEarned'
<1>1. /\ pc = "WaitingBastionInstance" /\ pc' = "write" /\ UNCHANGED kube
      /\ pc \in BastionPcs /\ pc \in CreatingPcs
  BY DEF CheckBastionReady, Wait, Save, Creation, BastionPcs, CreatingPcs, CreationPhases
<1>2. PICK up : up = AvailableOf({work.bastion})
  OBVIOUS
<1>3. work' = [work EXCEPT !.avail = (@ \ {work.bastion}) \cup up,
                           !.phase = IF up = {work.bastion} THEN "Ready" ELSE @,
                           !.ready = @ \/ (up = {work.bastion} /\ "Ready" = "Ready")]
  BY <1>2 DEF CheckBastionReady, Wait, Save
<1>4. /\ work'.phase = IF up = {work.bastion} THEN "Ready" ELSE work.phase
      /\ work'.avail = (work.avail \ {work.bastion}) \cup up
      /\ work'.vpc = work.vpc /\ work'.igw = work.igw
      /\ work'.pub = work.pub /\ work'.priv = work.priv /\ work'.nats = work.nats
      /\ work'.rts = work.rts /\ work'.sgs = work.sgs /\ work'.bsg = work.bsg
      /\ work'.bastion = work.bastion
  BY <1>3, WorkFacts DEF Object
<1>5. CASE up # {work.bastion}
  <2>1. work'.phase # "Ready"
    BY <1>1, <1>4, <1>5 DEF AllEarned, PhasesBehind
  <2> QED BY <1>1, <2>1, UnreadySaved
<1>6. CASE up = {work.bastion}
  <2>1. HasNetwork(work) /\ work.rts # {} /\ HasGroups(work) /\ work.bsg # NoId
    BY <1>1 DEF AllEarned, PhasesBehind
  <2>2. work.bastion # NoId
    BY <1>1 DEF IInv, AtPc, OneToMake
  <2>3. work.avail \subseteq work'.avail /\ work.bastion \in work'.avail /\ UNCHANGED config
    BY <1>1, <1>4, <1>6 DEF kube
  <2>4. HasNetwork(work)' /\ HasGroups(work)' /\ HasBastion(work)'
    BY <1>4, <2>1, <2>2, <2>3 DEF HasNetwork, HasGroups, HasBastion, NeedsNAT
  <2> QED BY <1>1, <1>4, <2>1, <2>4, ReadySaved
<1> QED BY <1>5, <1>6

-----------------------------------------------------------------------------
(* The other steps.                                                        *)

LEMMA CreateStepEarned == ASSUME IInv, AllEarned, CreateStep, ~NoPublicSubnetPanic PROVE AllEarned'
BY PhaseEndsEarned, MayAbortEarned, WaitsEarned, CallsStayEarned, CreateSubnetEarned,
   CreateSecurityGroupEarned, PrepareBastionEarned, RecordSubnetEarned,
   CreateNatGatewayEarned, RecordRouteTableEarned, AuthorizeIngressEarned,
   RouteTablesEarned, SecurityGroupsEarned, BastionEarned
DEF CreateStep

(* A deletion step leaves the phase of its copy at Deleting.               *)
LEMMA DeleteStepEarned ==
  ASSUME IInv, IInv', AllEarned, DeleteStep, ~RemoveFinalizer PROVE AllEarned'
<1>1. UNCHANGED kube
  BY DEF DeleteStep, Deletion, RetainResources, DeleteBastion, TerminateOrphan, DeleteKeyPair,
         DeleteBastionSG, DeleteRouteTable, DeleteNat, DeleteSubnet, DeleteIgw,
         DeleteSecurityGroup, DeleteOrphanRt, DeleteVpc, DeleteCallFails
<1>2. pc \in DeletingPcs
  BY DEF DeleteStep, RetainResources, DeleteBastion, TerminateOrphan, DeleteKeyPair,
         DeleteBastionSG, DeleteRouteTable, DeleteNat, DeleteSubnet, DeleteIgw,
         DeleteSecurityGroup, DeleteOrphanRt, DeleteVpc, DeleteCallFails, DeletingPcs,
         DeletePhases
<1>3. work.deleting
  BY <1>2 DEF IInv, InFlight
<1>4. work'.deleting = work.deleting
  BY WorkFacts
  DEF DeleteStep, RetainResources, DeleteBastion, TerminateOrphan, DeleteKeyPair,
      DeleteBastionSG, DeleteRouteTable, DeleteNat, DeleteSubnet, DeleteIgw,
      DeleteSecurityGroup, DeleteOrphanRt, DeleteVpc, DeleteCallFails, DeleteOrWait, Retry,
      Save, Object
<1>5. work'.phase = "Deleting" /\ pc' \notin CreatingPcs
  BY <1>3, <1>4 DEF IInv, InFlight
<1>6. PhasesBehind'
  BY <1>5 DEF PhasesBehind, BastionPcs, CreatingPcs, CreationPhases
<1>7. Earned(work)'
  BY <1>5 DEF Earned
<1> QED BY <1>1, <1>6, <1>7, KubeEarned DEF AllEarned

(* The reconcile ends, or dies.                                            *)
LEMMA ReturnEarned ==
  ASSUME AllEarned, UNCHANGED config, Return,
         stack' \in {stack, work, NoObject}, cache' \in {cache, stack}
  PROVE  AllEarned'
<1>1. NoObject.phase # "Ready" /\ pc' = "idle" /\ work' = NoObject
  BY DEF NoObject, Return
<1>2. Earned(stack)' /\ Earned(cache)' /\ Earned(work)'
  BY <1>1 DEF AllEarned, Earned, HasNetwork, HasGroups, HasBastion, NeedsNAT
<1> QED BY <1>1, <1>2, IdleIsBehind DEF AllEarned

LEMMA EndsEarned ==
  ASSUME IInv, AllEarned,
         \/ WriteStatus \/ WriteLost \/ RemoveFinalizer \/ Crash \/ NoPublicSubnetPanic
  PROVE  AllEarned'
<1>1. /\ UNCHANGED config /\ Return
      /\ stack' \in {stack, work, NoObject} /\ cache' \in {cache, stack}
  BY DEF WriteStatus, WriteLost, RemoveFinalizer, Crash, NoPublicSubnetPanic, kube
<1> QED BY <1>1, ReturnEarned

(* A reconcile resumes where the record says, and the record says that all *)
(* before it is done.                                                      *)
LEMMA ResumeEarned ==
  ASSUME UNCHANGED config, NEW o \in Object, Resume(o), Provenance(o), o.phase # "Deleting"
  PROVE  Earned(work)' /\ PhasesBehind'
<1>1. CASE pc' = "write" /\ work' = [o EXCEPT !.phase = "Pending"]
  <2>1. work'.phase # "Ready"
    BY <1>1 DEF Object
  <2> QED BY <1>1, <2>1, IdleIsBehind DEF Earned
<1>2. CASE /\ DetermineCurrentPhase(o) \notin {"Failed", "Ready"}
           /\ pc' = DetermineCurrentPhase(o)
           /\ work' = [o EXCEPT !.phase = DetermineCurrentPhase(o)]
  <2>1. PICK p \in CreationPhases : p = DetermineCurrentPhase(o)
    BY <1>2, PhaseIsAPhase
  <2>2. p # "Ready"
    BY DEF CreationPhases
  <2>3. /\ pc' = p /\ work'.phase = p /\ work'.vpc = o.vpc /\ work'.igw = o.igw
        /\ work'.avail = o.avail /\ work'.pub = o.pub /\ work'.priv = o.priv
        /\ work'.nats = o.nats /\ work'.rts = o.rts /\ work'.sgs = o.sgs
        /\ work'.bsg = o.bsg
    BY <1>2, <2>1 DEF Object
  <2>4. PhasesBehind'
    BY <2>1, <2>2, <2>3, PhaseSays DEF PhasesBehind, HasNetwork, HasGroups, NeedsNAT
  <2> QED BY <2>2, <2>3, <2>4 DEF Earned
<1> QED BY <1>1, <1>2 DEF Resume

LEMMA BeginEarned == ASSUME IInv, AllEarned, Begin PROVE AllEarned'
<1>1. UNCHANGED kube /\ ~Settled(cache) /\ cache \in Object /\ Provenance(cache)
  BY CopiesFacts DEF Begin
<1>2. UNCHANGED config
  BY <1>1 DEF kube
<1>3. CASE cache.deleting
  <2>1. /\ work' = [cache EXCEPT !.phase = "Deleting", !.ready = FALSE]
        /\ pc' \in {"delete", "write"}
    BY <1>3 DEF Begin
  <2>2. work'.phase = "Deleting"
    BY <1>1, <2>1 DEF Object
  <2>3. PhasesBehind' /\ Earned(work)'
    BY <2>1, <2>2 DEF PhasesBehind, CreatingPcs, CreationPhases, BastionPcs, Earned
  <2> QED BY <1>1, <2>3, KubeEarned DEF AllEarned
<1>4. CASE ~cache.deleting /\ ~cache.finalizer
  <2>1. work' = cache /\ pc' = "addFinalizer"
    BY <1>4 DEF Begin
  <2>2. cache.phase # "Ready"
    BY <1>1, <1>4 DEF Settled
  <2>3. PhasesBehind' /\ Earned(work)'
    BY <2>1, <2>2 DEF PhasesBehind, CreatingPcs, CreationPhases, BastionPcs, Earned
  <2> QED BY <1>1, <2>3, KubeEarned DEF AllEarned
<1>5. CASE ~cache.deleting /\ cache.finalizer
  <2>1. PICK o : o = cache
    OBVIOUS
  <2>2. Resume(o) /\ o \in Object /\ Provenance(o) /\ o.phase # "Deleting"
    BY <1>1, <1>5, <2>1 DEF Begin, IInv, Marked
  <2> QED BY <1>1, <1>2, <2>2, ResumeEarned, KubeEarned DEF AllEarned
<1> QED BY <1>3, <1>4, <1>5

LEMMA AddFinalizerEarned == ASSUME IInv, AllEarned, AddFinalizer PROVE AllEarned'
<1>1. PICK o : o = [work EXCEPT !.finalizer = TRUE]
  OBVIOUS
<1>2. Resume(o) /\ stack' = o /\ UNCHANGED <<config, cache>> /\ pc \in CreatingPcs
  BY <1>1 DEF AddFinalizer, CreatingPcs
<1>3. o \in Object /\ o.phase = work.phase
  BY <1>1, WorkFacts DEF Object
<1>4. Provenance(o)
  BY <1>1, WorkFacts DEF Object, Provenance
<1>5. o.phase # "Ready" /\ o.phase # "Deleting"
  BY <1>2, <1>3 DEF AllEarned, PhasesBehind, IInv, InFlight
<1>6. Earned(stack)' /\ Earned(cache)'
  BY <1>2, <1>5 DEF AllEarned, Earned, HasNetwork, HasGroups, HasBastion, NeedsNAT
<1>7. Earned(work)' /\ PhasesBehind'
  BY <1>2, <1>3, <1>4, <1>5, ResumeEarned
<1> QED BY <1>6, <1>7 DEF AllEarned

(* The user and the watch touch the object and its copy, EC2 neither.      *)
LEMMA EnvironmentEarned ==
  ASSUME IInv, AllEarned,
         RequestDelete \/ SyncCache \/ CloudStep \/ Resync \/ UNCHANGED vars
  PROVE  AllEarned'
<1>1. UNCHANGED <<config, pc, work>>
  BY DEF RequestDelete, SyncCache, CloudStep, Resync, vars, kube
<1>2. /\ stack' \in {stack, [stack EXCEPT !.deleting = TRUE], NoObject}
      /\ cache' \in {cache, stack}
  BY DEF RequestDelete, SyncCache, CloudStep, Resync, vars, kube
<1>3. stack \in Object
  BY CopiesFacts
<1>4. PICK o : o = [stack EXCEPT !.deleting = TRUE]
  OBVIOUS
<1>5. /\ o.phase = stack.phase /\ o.vpc = stack.vpc /\ o.igw = stack.igw
      /\ o.avail = stack.avail /\ o.pub = stack.pub /\ o.priv = stack.priv
      /\ o.nats = stack.nats /\ o.rts = stack.rts /\ o.sgs = stack.sgs
      /\ o.bsg = stack.bsg /\ o.bastion = stack.bastion
  BY <1>3, <1>4 DEF Object
<1>6. Earned(o) /\ Earned(NoObject)
  BY <1>5 DEF AllEarned, Earned, HasNetwork, HasGroups, HasBastion, NoObject
<1>7. Earned(stack)'
  <2>1. stack' \in {stack, o, NoObject}
    BY <1>2, <1>4
  <2> QED BY <1>1, <1>6, <2>1
      DEF AllEarned, Earned, HasNetwork, HasGroups, HasBastion, NeedsNAT
<1>8. Earned(cache)' /\ Earned(work)' /\ PhasesBehind'
  BY <1>1, <1>2
  DEF AllEarned, Earned, HasNetwork, HasGroups, HasBastion, NeedsNAT, PhasesBehind
<1> QED BY <1>7, <1>8 DEF AllEarned

LEMMA EarnedAtFirst == Init => AllEarned
<1> SUFFICES ASSUME Init PROVE AllEarned
  OBVIOUS
<1>1. stack.phase = "" /\ cache = stack /\ work = NoObject /\ pc = "idle"
  BY DEF Init, NoObject
<1>2. PhasesBehind
  BY <1>1 DEF PhasesBehind, CreatingPcs, CreationPhases, BastionPcs
<1> QED BY <1>1, <1>2 DEF AllEarned, Earned, NoObject

LEMMA AlwaysEarned == Spec => []AllEarned
<1>1. IInv /\ IInv' /\ AllEarned /\ [Next]_vars => AllEarned'
  BY CreateStepEarned, DeleteStepEarned, EndsEarned, BeginEarned, AddFinalizerEarned,
     EnvironmentEarned
  DEF Next, Reconcile
<1> QED BY <1>1, EarnedAtFirst, Invariant, PTL DEF Spec

-----------------------------------------------------------------------------
(* The theorem.                                                            *)

(* A status says Ready only when it records a resource of every kind the   *)
(* spec asks for, each seen available: DetermineCurrentPhase, asked again, *)
(* would find nothing to do.  No lost write, crash, retry after a failure  *)
(* or stale read skips a phase.                                            *)
THEOREM ReadyEarned == Spec => []ReadyIsEarned
<1>1. IInv /\ AllEarned => ReadyIsEarned
  <2> SUFFICES ASSUME IInv, AllEarned, stack.phase = "Ready"
               PROVE  DetermineCurrentPhase([stack EXCEPT !.phase = "Pending"]) = "Ready"
    BY DEF ReadyIsEarned
  <2>1. PICK o \in Object : o = stack
    BY CopiesFacts
  <2>2. HasAll(o)
    BY <2>1, EarnedIsAll DEF AllEarned
  <2> QED BY <2>1, <2>2, ReadyWhenAll
<1> QED BY <1>1, Invariant, AlwaysEarned, PTL

-----------------------------------------------------------------------------
(* What a step of the creation leaves of what EC2 knew.                    *)

(* What had been created stays what it was; only the resource just created *)
(* is still being put together.                                            *)
Kept ==
  \A i \in Ids : cloud[i].kind # "none" =>
    /\ cloud'[i].kind = cloud[i].kind
    /\ cloud'[i].slot = cloud[i].slot
    /\ cloud'[i].tagged = cloud[i].tagged
    /\ i # made => cloud'[i].uses = cloud[i].uses /\ cloud'[i].assoc = cloud[i].assoc

(* Nothing changes but states.                                             *)
Still ==
  \A i \in Ids :
    /\ cloud'[i].kind = cloud[i].kind
    /\ cloud'[i].slot = cloud[i].slot
    /\ cloud'[i].tagged = cloud[i].tagged
    /\ cloud'[i].uses = cloud[i].uses
    /\ cloud'[i].assoc = cloud[i].assoc

LEMMA SameIsStill == ASSUME UNCHANGED cloud PROVE Still
BY DEF Still

LEMMA CloudStepIsStill == ASSUME IInv, CloudStep PROVE Still
<1>1. PICK j, state : cloud' = InState(j, state)
  BY DEF CloudStep, Settle, NatFails
<1> SUFFICES ASSUME NEW i \in Ids
             PROVE  /\ cloud'[i].kind = cloud[i].kind
                    /\ cloud'[i].slot = cloud[i].slot
                    /\ cloud'[i].tagged = cloud[i].tagged
                    /\ cloud'[i].uses = cloud[i].uses
                    /\ cloud'[i].assoc = cloud[i].assoc
  BY DEF Still
<1>2. cloud \in [Ids -> Resource] /\ cloud[i] \in Resource
  BY DEF IInv, TypeOK
<1> QED BY <1>1, <1>2 DEF InState, Resource

LEMMA StillKeeps == ASSUME Still PROVE Kept
BY DEF Still, Kept

(* A new resource is added to those there were.                            *)
LEMMA CreatedKeeps ==
  ASSUME IInv, Unused # {}, NEW kind, NEW state, NEW slot, NEW tagged, NEW uses,
         cloud' = Created(kind, state, slot, tagged, uses)
  PROVE  /\ Kept
         /\ NewId \in Ids /\ cloud[NewId].kind = "none"
         /\ cloud'[NewId] = [kind |-> kind, state |-> state, slot |-> slot,
                             tagged |-> tagged, uses |-> uses, assoc |-> {}]
         /\ \A i \in Ids \ {NewId} : cloud'[i] = cloud[i]
<1>1. PICK n \in Ids : n = NewId /\ cloud[n].kind = "none"
  BY NewIdIsUnused
<1>2. PICK r : r = [kind |-> kind, state |-> state, slot |-> slot, tagged |-> tagged,
                    uses |-> uses, assoc |-> {}]
  OBVIOUS
<1>3. cloud' = [cloud EXCEPT ![n] = r]
  BY <1>1, <1>2 DEF Created
<1>4. \A i \in Ids : cloud'[i] = IF i = n THEN r ELSE cloud[i]
  BY <1>3 DEF IInv, TypeOK
<1> QED BY <1>1, <1>2, <1>4 DEF Kept

(* The ids of a live resource of a standing stack are those in use.        *)
LEMMA LivesWhenBorn ==
  ASSUME IInv, Untouched, stack.exists, ~stack.deleting, NEW i \in Ids
  PROVE  Live(i) <=> cloud[i].kind # "none"
BY DEF IInv, TypeOK, CloudSane, Untouched, Resource, States, Live, LiveStates

-----------------------------------------------------------------------------
(* Copies that list more and more.                                         *)

SameLists ==
  /\ Current'.vpc = Current.vpc /\ Current'.igw = Current.igw
  /\ Current'.pub = Current.pub /\ Current'.priv = Current.priv
  /\ Current'.nats = Current.nats /\ Current'.rts = Current.rts
  /\ Current'.sgs = Current.sgs /\ Current'.bsg = Current.bsg
  /\ Current'.bastion = Current.bastion

LEMMA CurrentIsObject == ASSUME IInv PROVE Current \in Object /\ Recorded(Current) \subseteq Ids
BY RecordedIds DEF IInv, TypeOK, Current

(* A field of the newer copy holds what it held, the user's, and what is   *)
(* of the kind the field is for.                                           *)
More(new, old, kind) ==
  \A i \in Own(new) : i \in old \/ (i \in Ids /\ cloud'[i].kind = kind)

LEMMA KindsGrow ==
  ASSUME IInv, Kept, OwnKinds(Current),
         More({Current'.vpc}, {Current.vpc}, "vpc"),
         More({Current'.igw}, {Current.igw}, "igw"),
         More(Current'.pub \cup Current'.priv, Current.pub \cup Current.priv, "subnet"),
         More(Current'.nats, Current.nats, "nat"),
         More(Current'.rts, Current.rts, "rt"),
         More(Current'.sgs \cup {Current'.bsg}, Current.sgs \cup {Current.bsg}, "sg"),
         More({Current'.bastion}, {Current.bastion}, "instance")
  PROVE  OwnKinds(Current)'
<1>1. PICK o \in Object : o = Current
  BY CurrentIsObject
<1>2. PICK q : q = Current'
  OBVIOUS
<1>3. ASSUME NEW kind, kind # "none", NEW old \in SUBSET (Ids \cup {NoId}), NEW new,
             \A i \in Own(old) : cloud[i].kind = kind,
             More(new, old, kind), NEW i \in Own(new)
      PROVE  cloud'[i].kind = kind
  BY <1>3 DEF More, Own, Kept
<1>4. /\ {o.vpc} \in SUBSET (Ids \cup {NoId}) /\ {o.igw} \in SUBSET (Ids \cup {NoId})
      /\ o.pub \cup o.priv \in SUBSET (Ids \cup {NoId})
      /\ o.nats \in SUBSET (Ids \cup {NoId}) /\ o.rts \in SUBSET (Ids \cup {NoId})
      /\ o.sgs \cup {o.bsg} \in SUBSET (Ids \cup {NoId})
      /\ {o.bastion} \in SUBSET (Ids \cup {NoId})
  BY <1>1 DEF Object
<1>5. /\ \A i \in Own({o.vpc}) : cloud[i].kind = "vpc"
      /\ \A i \in Own({o.igw}) : cloud[i].kind = "igw"
      /\ \A i \in Own(o.pub \cup o.priv) : cloud[i].kind = "subnet"
      /\ \A i \in Own(o.nats) : cloud[i].kind = "nat"
      /\ \A i \in Own(o.rts) : cloud[i].kind = "rt"
      /\ \A i \in Own(o.sgs \cup {o.bsg}) : cloud[i].kind = "sg"
      /\ \A i \in Own({o.bastion}) : cloud[i].kind = "instance"
  BY <1>1 DEF OwnKinds
<1>6. /\ More({q.vpc}, {o.vpc}, "vpc") /\ More({q.igw}, {o.igw}, "igw")
      /\ More(q.pub \cup q.priv, o.pub \cup o.priv, "subnet")
      /\ More(q.nats, o.nats, "nat") /\ More(q.rts, o.rts, "rt")
      /\ More(q.sgs \cup {q.bsg}, o.sgs \cup {o.bsg}, "sg")
      /\ More({q.bastion}, {o.bastion}, "instance")
  BY <1>1, <1>2
<1>7. /\ \A i \in Own({q.vpc}) : cloud'[i].kind = "vpc"
      /\ \A i \in Own({q.igw}) : cloud'[i].kind = "igw"
      /\ \A i \in Own(q.pub \cup q.priv) : cloud'[i].kind = "subnet"
      /\ \A i \in Own(q.nats) : cloud'[i].kind = "nat"
      /\ \A i \in Own(q.rts) : cloud'[i].kind = "rt"
      /\ \A i \in Own(q.sgs \cup {q.bsg}) : cloud'[i].kind = "sg"
      /\ \A i \in Own({q.bastion}) : cloud'[i].kind = "instance"
  BY <1>3, <1>4, <1>5, <1>6
<1> QED BY <1>2, <1>7 DEF OwnKinds, Own

(* Nothing that was known is lost, and what is new is known.               *)
LEMMA KnownGrows ==
  ASSUME IInv, Kept, AllKnown(Current), made \notin Recorded(Current),
         Current.nats \subseteq Current'.nats,
         \A i \in Ids \ Foreign :
           i \in Recorded(Current) \cup {made} =>
             \/ i \in Recorded(Current') \cup {made'}
             \/ \E n \in Current'.nats : i \in EipOf(n)'
             \/ cloud'[i].kind = "rt" /\ cloud'[i].tagged /\ cloud'[i].assoc = {},
         \A i \in Ids \ Foreign :
           cloud[i].kind = "none" /\ cloud'[i].kind # "none" =>
             i \in Recorded(Current') \cup {made'}
  PROVE  AllKnown(Current)'
<1>1. PICK o \in Object : o = Current
  BY CurrentIsObject
<1>2. PICK q : q = Current'
  OBVIOUS
<1> SUFFICES ASSUME NEW i \in Ids \ Foreign, cloud'[i].kind # "none"
             PROVE  \/ i \in Recorded(q) \cup {made'}
                    \/ \E n \in q.nats : i \in EipOf(n)'
                    \/ cloud'[i].kind = "rt" /\ cloud'[i].tagged /\ cloud'[i].assoc = {}
  BY <1>2 DEF AllKnown
<1>3. CASE cloud[i].kind = "none" \/ i \in Recorded(o) \cup {made}
  <2>1. /\ Recorded(q) = Recorded(Current') /\ q.nats = Current'.nats
        /\ Recorded(o) = Recorded(Current)
    BY <1>1, <1>2
  <2> QED BY <1>3, <2>1
<1>4. CASE cloud[i].kind # "none" /\ \E n \in o.nats : i \in EipOf(n)
  <2>1. PICK n \in o.nats : i \in EipOf(n)
    BY <1>4
  <2>2. n \in Ids /\ n \in q.nats
    BY <1>1, <1>2, <2>1 DEF Object
  <2>3. n \in Recorded(Current)
    BY <1>1, <2>1 DEF Recorded
  <2>4. n # made /\ cloud[n].kind # "none"
    BY <2>3 DEF IInv, NamesAreBorn, Born, Current
  <2>5. i \in EipOf(n)'
    BY <2>1, <2>2, <2>4, <1>4 DEF Kept, EipOf
  <2> QED BY <2>2, <2>5
<1>5. CASE /\ cloud[i].kind = "rt" /\ cloud[i].tagged /\ cloud[i].assoc = {}
           /\ i \notin Recorded(o) \cup {made}
  BY <1>5 DEF Kept
<1> QED BY <1>1, <1>3, <1>4, <1>5 DEF AllKnown

(* Ranges and names stay where no list of them grows.                      *)
LEMMA SlotsStay ==
  ASSUME IInv, Kept, UNCHANGED config, OwnSlots(Current),
         Current'.pub = Current.pub \/ Own(Current'.pub) = {},
         Current'.priv = Current.priv \/ Own(Current'.priv) = {},
         Current'.sgs = Current.sgs \/ Own(Current'.sgs) = {},
         Current'.bsg = Current.bsg \/ Own({Current'.bsg}) = {}
  PROVE  OwnSlots(Current)'
<1>1. PICK o \in Object : o = Current /\ Recorded(o) \subseteq Ids
  BY CurrentIsObject
<1>2. PICK q : q = Current'
  OBVIOUS
<1>3. \A i \in o.pub \cup o.priv \cup o.sgs \cup Own({o.bsg}) : cloud'[i].slot = cloud[i].slot
  <2>1. \A i \in o.pub \cup o.priv \cup o.sgs \cup Own({o.bsg}) : i \in Ids /\ i \in Recorded(o)
    BY <1>1 DEF Recorded, Own
  <2>2. \A i \in Recorded(o) : cloud[i].kind # "none"
    BY <1>1 DEF IInv, NamesAreBorn, Born, Current
  <2> QED BY <2>1, <2>2 DEF Kept
<1>4. WantedPub' = WantedPub
  BY DEF WantedPub
<1>5. /\ \A i \in Own(o.pub) : cloud[i].slot \in 1 .. Cardinality(o.pub)
      /\ \A i \in Own(o.priv) :
           cloud[i].slot \in WantedPub + 1 .. WantedPub + Cardinality(o.priv)
      /\ \A i \in Own(o.sgs) : cloud[i].slot \in 1 .. Cardinality(o.sgs)
      /\ \A i \in Own({o.bsg}) : cloud[i].slot = 0
  BY <1>1 DEF OwnSlots
<1>6. /\ q.pub = o.pub \/ Own(q.pub) = {}
      /\ q.priv = o.priv \/ Own(q.priv) = {}
      /\ q.sgs = o.sgs \/ Own(q.sgs) = {}
      /\ q.bsg = o.bsg \/ Own({q.bsg}) = {}
  BY <1>1, <1>2
<1>7. /\ \A i \in Own(q.pub) : cloud'[i].slot \in 1 .. Cardinality(q.pub)
      /\ \A i \in Own(q.priv) :
           cloud'[i].slot \in WantedPub + 1 .. WantedPub + Cardinality(q.priv)
      /\ \A i \in Own(q.sgs) : cloud'[i].slot \in 1 .. Cardinality(q.sgs)
      /\ \A i \in Own({q.bsg}) : cloud'[i].slot = 0
  BY <1>3, <1>5, <1>6 DEF Own
<1> QED BY <1>2, <1>4, <1>7 DEF OwnSlots, Own

(* One more in a list.                                                     *)
LEMMA OneMore ==
  ASSUME NEW S \in SUBSET Ids, NEW n \in Ids \ S
  PROVE  Cardinality(S \cup {n}) = Cardinality(S) + 1
<1>1. IsFiniteSet(S)
  <2>1. IsFiniteSet(Ids)
    BY QuotaAssumption, FS_Interval DEF Ids
  <2> QED BY <2>1, FS_Subset
<1> QED BY <1>1, FS_AddElement

LEMMA NoneIsEmpty == ASSUME NEW S \in SUBSET Ids PROVE Cardinality(S) = 0 <=> S = {}
<1>1. IsFiniteSet(S)
  <2>1. IsFiniteSet(Ids)
    BY QuotaAssumption, FS_Interval DEF Ids
  <2> QED BY <2>1, FS_Subset
<1> QED BY <1>1, FS_EmptySet

-----------------------------------------------------------------------------
(* What a copy says of its lists is a matter of the lists alone.           *)

LEMMA ListsStay ==
  ASSUME IInv, Still, UNCHANGED <<config, made>>, SameLists,
         OwnKinds(Current), OwnSlots(Current), AllKnown(Current), Disjoint(Current),
         made \notin Recorded(Current)
  PROVE  /\ OwnKinds(Current)' /\ OwnSlots(Current)' /\ AllKnown(Current)'
         /\ Disjoint(Current)'
<1>1. Kept
  BY StillKeeps
<1>2. OwnKinds(Current)'
  <2>1. /\ More({Current'.vpc}, {Current.vpc}, "vpc")
        /\ More({Current'.igw}, {Current.igw}, "igw")
        /\ More(Current'.pub \cup Current'.priv, Current.pub \cup Current.priv, "subnet")
        /\ More(Current'.nats, Current.nats, "nat")
        /\ More(Current'.rts, Current.rts, "rt")
        /\ More(Current'.sgs \cup {Current'.bsg}, Current.sgs \cup {Current.bsg}, "sg")
        /\ More({Current'.bastion}, {Current.bastion}, "instance")
    BY DEF SameLists, More, Own
  <2> QED BY <1>1, <2>1, KindsGrow
<1>3. OwnSlots(Current)'
  BY <1>1, SlotsStay DEF SameLists
<1>4. Recorded(Current') = Recorded(Current) /\ Current.nats = Current'.nats
  BY DEF SameLists, Recorded
<1>5. AllKnown(Current)'
  <2>1. \A i \in Ids \ Foreign :
          i \in Recorded(Current) \cup {made} => i \in Recorded(Current') \cup {made'}
    BY <1>4
  <2>2. \A i \in Ids \ Foreign : ~(cloud[i].kind = "none" /\ cloud'[i].kind # "none")
    BY DEF Still
  <2>3. Current.nats \subseteq Current'.nats
    BY <1>4
  <2> QED BY <1>1, <2>1, <2>2, <2>3, KnownGrows
<1>6. Disjoint(Current)'
  BY DEF Disjoint, SameLists, ExistingSubnets
<1> QED BY <1>2, <1>3, <1>5, <1>6

(* Full lists stay full; a list may be left half filled only by the phase  *)
(* that fills it.                                                          *)
LEMMA FilledStays ==
  ASSUME IInv, UNCHANGED config, NEW o, NEW q, NEW p, NEW r, Filled(o, p),
         q.pub = o.pub, q.priv = o.priv, q.nats = o.nats, q.rts = o.rts, q.sgs = o.sgs,
         \/ r = p
         \/ p \notin {"CreatingSubnets", "CreatingNATGateway", "CreatingRouteTables",
                      "CreatingSecurityGroups"}
  PROVE  Filled(q, r)'
<1>1. WantedPub' = WantedPub /\ NeedsNAT' = NeedsNAT /\ ExistingSubnets' = ExistingSubnets
  BY DEF WantedPub, NeedsNAT, ExistingSubnets
<1>2. /\ Cardinality(q.pub) = Cardinality(o.pub) /\ Cardinality(q.priv) = Cardinality(o.priv)
      /\ Cardinality(q.nats) = Cardinality(o.nats) /\ Cardinality(q.rts) = Cardinality(o.rts)
      /\ Cardinality(q.sgs) = Cardinality(o.sgs)
  OBVIOUS
<1> QED BY <1>1, <1>2 DEF Filled, SubnetsDone, NatsDone, TablesDone, GroupsDone

-----------------------------------------------------------------------------
(* Calm never returns.                                                     *)

LEMMA FaultsGrow == ASSUME [Next]_vars PROVE faults' \in {faults, faults + 1}
<1>1. CASE CreateStep
  BY <1>1
  DEF CreateStep, Creation, Fault, UseExistingVpc, CreateVpc, ModifyVpc, CheckVPCReady, Wait,
      UseExistingIgw, CreateInternetGateway, AttachInternetGateway, UseExistingSubnets,
      CreateSubnet, RecordSubnet, SubnetsCreated, CheckSubnetsReady, UseExistingNats,
      AllocateAddress, NoPublicSubnetPanic, CreateNatGateway, NatsCreated,
      CheckNATGatewaysReady, UseExistingRouteTables, CreateRouteTable, RecordRouteTable,
      RouteTableFails, RouteTablesCreated, UseExistingSecurityGroups, CreateSecurityGroup,
      AuthorizeIngress, SecurityGroupsCreated, CreateBastionSecurityGroup, PrepareBastion,
      StoreKey, RunInstance, CheckBastionReady, QuotaExceeded, CreateCallFails
<1>2. CASE DeleteStep
  BY <1>2
  DEF DeleteStep, Deletion, Fault, RetainResources, DeleteBastion, TerminateOrphan,
      DeleteKeyPair, DeleteBastionSG, DeleteRouteTable, DeleteNat, DeleteSubnet, DeleteIgw,
      DeleteSecurityGroup, DeleteOrphanRt, DeleteVpc, RemoveFinalizer, DeleteCallFails
<1>3. CASE \/ Begin \/ Resync \/ AddFinalizer \/ WriteStatus \/ WriteLost
           \/ RequestDelete \/ SyncCache \/ CloudStep \/ Crash \/ UNCHANGED vars
  BY <1>3 DEF Begin, Read, Resync, AddFinalizer, WriteStatus, WriteLost, RequestDelete,
              SyncCache, CloudStep, Crash, Fault, vars
<1> QED BY <1>1, <1>2, <1>3 DEF Next, Reconcile

LEMMA UndisturbedBefore ==
  ASSUME IInv, [Next]_vars, Undisturbed' PROVE Undisturbed
<1>1. faults = 0
  BY FaultsGrow DEF IInv, TypeOK, Undisturbed
<1>2. Unused # {}
  BY StillBorn DEF BornForever, Undisturbed
<1>3. Unhindered
  BY ConfigStays DEF Undisturbed, Unhindered, ExistingSubnets, WantedPub
<1> QED BY <1>1, <1>2, <1>3 DEF Undisturbed

LEMMA CalmBefore ==
  ASSUME IInv, [Next]_vars, Calm' PROVE Calm
<1>1. stack'.exists /\ ~stack'.deleting
  BY DEF Calm
<1>2. stack.exists /\ ~stack.deleting
  <2>1. CASE stack' # stack
    BY <1>1, <2>1, MarkMoves
  <2> QED BY <1>1, <2>1
<1> QED BY <1>2, UndisturbedBefore DEF Calm

(* Nothing fails then but what the code refuses to do.                     *)
LEMMA CalmSteps ==
  ASSUME IInv, Tidy, [Next]_vars, Calm, Calm'
  PROVE  /\ ~DeleteStep /\ ~RequestDelete /\ ~WriteLost /\ ~Crash
         /\ ~CreateCallFails /\ ~QuotaExceeded
         /\ Begin => cacheFresh /\ cache = stack
<1>0. /\ faults = 0 /\ faults' = 0 /\ Unused # {} /\ stack.exists /\ ~stack.deleting
      /\ stack'.exists /\ ~stack'.deleting
  BY DEF Calm, Undisturbed
<1>1. ~Fault
  BY <1>0 DEF Fault
<1>2. ~DeleteStep
  BY <1>0, DeleteStepIsAsked
<1>3. ~RequestDelete
  <2> SUFFICES ASSUME RequestDelete PROVE FALSE
    OBVIOUS
  <2>1. [stack EXCEPT !.deleting = TRUE].deleting = TRUE
    BY DEF IInv, TypeOK, Object
  <2>2. ~NoObject.exists
    BY DEF NoObject
  <2>3. stack' \in {[stack EXCEPT !.deleting = TRUE], NoObject}
    BY DEF RequestDelete
  <2> QED BY <1>0, <2>1, <2>2, <2>3
<1>4. ~WriteLost
  BY <1>1 DEF WriteLost, Tidy
<1>5. ~Crash /\ ~CreateCallFails /\ ~QuotaExceeded
  BY <1>0, <1>1 DEF Crash, CreateCallFails, QuotaExceeded
<1>6. Begin => cacheFresh /\ cache = stack
  BY <1>1 DEF Begin, Read, IInv, Fresh
<1> QED BY <1>2, <1>3, <1>4, <1>5, <1>6

(* A copy of a standing stack in flight is not one of a deletion.          *)
LEMMA CalmPcs ==
  ASSUME IInv, Tidy, Calm
  PROVE  pc \notin DeletingPcs /\ (pc # "idle" => workFresh /\ ~work.deleting)
BY DEF Tidy, Calm, IInv, InFlight, DeletingPcs, DeletePhases

-----------------------------------------------------------------------------
(* Steps that list nothing new.                                            *)

(* Tidy is about the newest copy, and about the object where it lags.      *)
LEMMA EnvironmentTidy ==
  ASSUME IInv, Tidy, Calm, Calm',
         Resync \/ SyncCache \/ CloudStep \/ UNCHANGED vars
  PROVE  Tidy'
<1>1. UNCHANGED <<config, stack, pc, work, workFresh, made, routed, keypair, secret>>
  BY DEF Resync, SyncCache, CloudStep, vars, kube, keys
<1>2. Still
  <2>1. CASE CloudStep
    BY <2>1, CloudStepIsStill
  <2>2. CASE UNCHANGED cloud
    BY <2>2, SameIsStill
  <2> QED BY <2>1, <2>2 DEF Resync, SyncCache, vars
<1>3. Current' = Current /\ SameLists
  BY <1>1 DEF Current, SameLists
<1>4. made \notin Recorded(Current)
  <2>1. CASE made = NoId
    BY <2>1, CurrentIsObject, IdsFacts
  <2>2. CASE made # NoId
    BY <2>2 DEF Tidy, MadeFits, Current, IInv, AtPc, HalfMade, MayMake
  <2> QED BY <2>1, <2>2
<1>5. OwnKinds(Current)' /\ OwnSlots(Current)' /\ AllKnown(Current)' /\ Disjoint(Current)'
  BY <1>1, <1>2, <1>3, <1>4, ListsStay DEF Tidy
<1>6. Filled(stack, "idle")' /\ Filled(Current, pc)'
  <2>1. ASSUME NEW o, NEW p, Filled(o, p) PROVE Filled(o, p)'
    BY <1>1, <2>1, FilledStays
  <2>2. PICK o, p, q : o = stack /\ p = pc /\ q = Current
    OBVIOUS
  <2>3. Filled(o, "idle")' /\ Filled(q, p)'
    BY <2>1, <2>2 DEF Tidy
  <2>4. o = stack' /\ p = pc' /\ q = Current'
    BY <1>1, <1>3, <2>2
  <2> QED BY <2>3, <2>4 DEF Filled, SubnetsDone, NatsDone, TablesDone, GroupsDone
<1>7. MadeFits'
  <2>1. /\ MissingPub' = MissingPub /\ MissingPriv' = MissingPriv /\ MissingSgs' = MissingSgs
        /\ MissingNats' = MissingNats /\ MissingRts' = MissingRts /\ NextRange' = NextRange
    BY <1>1 DEF MissingPub, MissingPriv, MissingSgs, MissingNats, MissingRts, NextRange,
                WantedPub, WantedNats, Unrouted
  <2>2. MadeFits /\ (made # NoId => made \in Ids)
    BY DEF Tidy, IInv, TypeOK
  <2> QED BY <1>1, <1>2, <2>1, <2>2 DEF MadeFits, Still
<1>8. InOrder' /\ KeyIsKept' /\ EmptyHanded'
  BY <1>1, <1>3 DEF Tidy, InOrder, KeyIsKept, EmptyHanded
<1>9. Routing'
  <2>1. /\ Served(work)' = Served(work)
    <3>1. work.rts \subseteq Ids
      BY WorkFacts DEF Object
    <3>2. \A r \in work.rts : cloud'[r].assoc = cloud[r].assoc
      BY <1>2, <3>1 DEF Still
    <3> QED BY <1>1, <3>2 DEF Served
  <2>2. Routing
    BY DEF Tidy
  <2> QED BY <1>1, <2>1, <2>2 DEF Routing
<1> QED BY <1>1, <1>5, <1>6, <1>7, <1>8, <1>9 DEF Tidy

-----------------------------------------------------------------------------
(* A phase is done and the copy goes to the status write.                  *)

LEMMA MadeIsNew == ASSUME IInv, Tidy PROVE made \notin Recorded(Current)
<1>1. CASE made = NoId
  BY <1>1, CurrentIsObject, IdsFacts
<1>2. CASE made # NoId
  BY <1>2 DEF Tidy, MadeFits, Current, IInv, AtPc, HalfMade, MayMake
<1> QED BY <1>1, <1>2

(* The object itself, and what it says of its lists, stays.                *)
LEMMA StackStays ==
  ASSUME Tidy, UNCHANGED <<config, stack>> PROVE Filled(stack, "idle")'
<1>1. Filled(stack, "idle")
  BY DEF Tidy
<1> QED BY <1>1 DEF Filled, SubnetsDone, NatsDone, TablesDone, GroupsDone, ExistingSubnets,
                    WantedPub, NeedsNAT

LEMMA SavedTidy ==
  ASSUME Tidy, pc \notin {"idle", "StoreKey"}, pc' = "write", made' = NoId,
         UNCHANGED <<config, stack, workFresh, keys>>,
         OwnKinds(Current)', OwnSlots(Current)', AllKnown(Current)', Disjoint(Current)',
         Filled(work, "write")',
         Current'.pub \cup Current'.priv = {} => Current'.nats = {} /\ Current'.rts = {},
         pc = "RunInstance" \/ Current'.bastion = Current.bastion
  PROVE  Tidy'
<1>1. Current' = work' /\ Current = work
  BY DEF Current
<1>2. Filled(Current, pc)'
  BY <1>1 DEF Filled, SubnetsDone, NatsDone, TablesDone, GroupsDone, ExistingSubnets,
              WantedPub, NeedsNAT
<1>3. Filled(stack, "idle")'
  BY StackStays
<1>4. MadeFits' /\ Routing' /\ EmptyHanded' /\ InOrder'
  BY DEF MadeFits, Routing, EmptyHanded, InOrder
<1>5. KeyIsKept'
  <2>1. KeyIsKept
    BY DEF Tidy
  <2> QED BY <2>1 DEF KeyIsKept, keys
<1>6. pc' # "idle" => workFresh'
  BY DEF Tidy
<1> QED BY <1>2, <1>3, <1>4, <1>5, <1>6 DEF Tidy

(* Saved with the lists it had.                                            *)
LEMMA SameSavedTidy ==
  ASSUME IInv, Tidy, pc \notin {"idle", "StoreKey"}, pc' = "write",
         made = NoId, made' = NoId,
         UNCHANGED <<cloud, config, stack, workFresh, keys>>,
         work'.vpc = work.vpc, work'.igw = work.igw, work'.pub = work.pub,
         work'.priv = work.priv, work'.nats = work.nats, work'.rts = work.rts,
         work'.sgs = work.sgs, work'.bsg = work.bsg, work'.bastion = work.bastion,
         Filled(work, "write")'
  PROVE  Tidy'
<1>1. Current' = work' /\ Current = work
  BY DEF Current
<1>2. Still
  BY SameIsStill
<1>3. SameLists
  BY <1>1 DEF SameLists
<1>4. OwnKinds(Current)' /\ OwnSlots(Current)' /\ AllKnown(Current)' /\ Disjoint(Current)'
  BY <1>2, <1>3, MadeIsNew, ListsStay DEF Tidy
<1>5. Current'.pub \cup Current'.priv = {} => Current'.nats = {} /\ Current'.rts = {}
  BY <1>1 DEF Tidy, InOrder
<1>6. Current'.bastion = Current.bastion
  BY <1>1
<1> QED BY <1>4, <1>5, <1>6, SavedTidy

(* ... by a phase that fills no list.                                      *)
FillingPcs ==
  {"CreatingSubnets", "CreatingNATGateway", "CreatingRouteTables", "CreatingSecurityGroups"}

LEMMA SavedStaysFilled ==
  ASSUME IInv, Tidy, pc \notin FillingPcs \cup {"idle"}, UNCHANGED config,
         work'.pub = work.pub, work'.priv = work.priv, work'.nats = work.nats,
         work'.rts = work.rts, work'.sgs = work.sgs
  PROVE  Filled(work, "write")'
<1>1. PICK o, p, q : o = work /\ p = pc /\ q = work'
  OBVIOUS
<1>2. Filled(o, p)
  <2>1. Filled(Current, pc) /\ Current = work
    BY DEF Tidy, Current
  <2> QED BY <1>1, <2>1
<1>3. Filled(q, "write")'
  BY <1>1, <1>2, FilledStays DEF FillingPcs
<1> QED BY <1>1, <1>3 DEF Filled, SubnetsDone, NatsDone, TablesDone, GroupsDone

LEMMA WaitTidy ==
  ASSUME IInv, Tidy, NEW S, NEW next, Wait(S, next),
         pc \in {"WaitingVPC", "WaitingSubnets", "WaitingNATGateway", "WaitingBastionInstance"}
  PROVE  Tidy'
<1>1. made = NoId
  BY DEF IInv, AtPc, HalfMade, MayMake
<1>2. /\ work'.vpc = work.vpc /\ work'.igw = work.igw /\ work'.pub = work.pub
      /\ work'.priv = work.priv /\ work'.nats = work.nats /\ work'.rts = work.rts
      /\ work'.sgs = work.sgs /\ work'.bsg = work.bsg /\ work'.bastion = work.bastion
  BY WorkFacts DEF Wait, Save, Object
<1>3. /\ UNCHANGED <<cloud, config, stack, workFresh, keys>>
      /\ pc' = "write" /\ made' = NoId
  BY DEF Wait, Save, Creation, kube
<1>4. Filled(work, "write")'
  BY <1>2, <1>3, SavedStaysFilled DEF FillingPcs
<1> QED BY <1>1, <1>2, <1>3, <1>4, SameSavedTidy

LEMMA ChecksTidy ==
  ASSUME IInv, Tidy,
         CheckVPCReady \/ CheckSubnetsReady \/ CheckNATGatewaysReady \/ CheckBastionReady
  PROVE  Tidy'
<1>1. PICK S, next : Wait(S, next)
  BY DEF CheckVPCReady, CheckSubnetsReady, CheckNATGatewaysReady, CheckBastionReady
<1> QED BY <1>1, WaitTidy
     DEF CheckVPCReady, CheckSubnetsReady, CheckNATGatewaysReady, CheckBastionReady

(* What the phases that fill the lists have reached when they are done.    *)
LEMMA WorkCounts ==
  ASSUME IInv
  PROVE  /\ Cardinality(work.pub) \in Nat /\ Cardinality(work.priv) \in Nat
         /\ Cardinality(work.nats) \in Nat /\ Cardinality(work.rts) \in Nat
         /\ Cardinality(work.sgs) \in Nat
         /\ Cardinality(work.pub) = 0 <=> work.pub = {}
         /\ Cardinality(work.priv) = 0 <=> work.priv = {}
         /\ Cardinality(work.nats) = 0 <=> work.nats = {}
         /\ Cardinality(work.rts) = 0 <=> work.rts = {}
         /\ Cardinality(work.sgs) = 0 <=> work.sgs = {}
<1>1. PICK o \in Object : o = work
  BY WorkFacts
<1>2. /\ o.pub \in SUBSET Ids /\ o.priv \in SUBSET Ids /\ o.nats \in SUBSET Ids
      /\ o.rts \in SUBSET Ids /\ o.sgs \in SUBSET Ids
  BY DEF Object
<1>3. /\ Cardinality(o.pub) \in Nat /\ Cardinality(o.priv) \in Nat
      /\ Cardinality(o.nats) \in Nat /\ Cardinality(o.rts) \in Nat
      /\ Cardinality(o.sgs) \in Nat
  BY <1>2, Countable
<1>4. /\ Cardinality(o.pub) = 0 <=> o.pub = {} 
      /\ Cardinality(o.priv) = 0 <=> o.priv = {}
      /\ Cardinality(o.nats) = 0 <=> o.nats = {}
      /\ Cardinality(o.rts) = 0 <=> o.rts = {}
      /\ Cardinality(o.sgs) = 0 <=> o.sgs = {}
  BY <1>2, NoneIsEmpty
<1> QED BY <1>1, <1>3, <1>4

LEMMA WorkFilled == ASSUME Tidy, pc # "idle" PROVE Filled(work, pc)
BY DEF Tidy, Current

LEMMA SubnetsCreatedTidy == ASSUME IInv, Tidy, SubnetsCreated PROVE Tidy'
<1>1. /\ work'.vpc = work.vpc /\ work'.igw = work.igw /\ work'.pub = work.pub
      /\ work'.priv = work.priv /\ work'.nats = work.nats /\ work'.rts = work.rts
      /\ work'.sgs = work.sgs /\ work'.bsg = work.bsg /\ work'.bastion = work.bastion
  BY WorkFacts DEF SubnetsCreated, Save, Object
<1>2. /\ UNCHANGED <<cloud, config, stack, workFresh, keys>>
      /\ pc = "CreatingSubnets" /\ pc' = "write" /\ made = NoId /\ made' = NoId
      /\ ExistingSubnets = {} /\ ~MissingPub /\ ~MissingPriv
  BY DEF SubnetsCreated, Save, Creation, kube
<1>3. SubnetsDone(work)
  BY <1>2, WorkCounts, ConfigCounts, WorkFilled
     DEF Filled, SubnetsDone, MissingPub, MissingPriv
<1>4. work.nats = {} /\ work.rts = {}
  BY <1>2 DEF Tidy, InOrder
<1>5. Filled(work, "write")'
  BY <1>1, <1>2, <1>3, <1>4, WorkFilled
     DEF Filled, SubnetsDone, NatsDone, TablesDone, GroupsDone, ExistingSubnets, WantedPub,
         NeedsNAT
<1> QED BY <1>1, <1>2, <1>5, SameSavedTidy

LEMMA NatsCreatedTidy == ASSUME IInv, Tidy, NatsCreated PROVE Tidy'
<1>1. /\ work'.vpc = work.vpc /\ work'.igw = work.igw /\ work'.pub = work.pub
      /\ work'.priv = work.priv /\ work'.nats = work.nats /\ work'.rts = work.rts
      /\ work'.sgs = work.sgs /\ work'.bsg = work.bsg /\ work'.bastion = work.bastion
  BY WorkFacts DEF NatsCreated, Save, Object
<1>2. /\ UNCHANGED <<cloud, config, stack, workFresh, keys>>
      /\ pc = "CreatingNATGateway" /\ pc' = "write" /\ made = NoId /\ made' = NoId
      /\ config.exNats = {} /\ ~MissingNats
  BY DEF NatsCreated, Save, Creation, kube
<1>3. NatsDone(work)
  BY <1>2, WorkCounts, ConfigCounts, WorkFilled
     DEF Filled, NatsDone, MissingNats, WantedNats
<1>5. Filled(work, "write")'
  BY <1>1, <1>2, <1>3, WorkFilled
     DEF Filled, SubnetsDone, NatsDone, TablesDone, GroupsDone, ExistingSubnets, WantedPub,
         NeedsNAT
<1> QED BY <1>1, <1>2, <1>5, SameSavedTidy

LEMMA SecurityGroupsCreatedTidy == ASSUME IInv, Tidy, SecurityGroupsCreated PROVE Tidy'
<1>1. /\ work'.vpc = work.vpc /\ work'.igw = work.igw /\ work'.pub = work.pub
      /\ work'.priv = work.priv /\ work'.nats = work.nats /\ work'.rts = work.rts
      /\ work'.sgs = work.sgs /\ work'.bsg = work.bsg /\ work'.bastion = work.bastion
  BY WorkFacts DEF SecurityGroupsCreated, Save, Enter, Object
<1>2. /\ UNCHANGED <<cloud, config, stack, workFresh, keys>>
      /\ pc = "CreatingSecurityGroups" /\ pc' = "write" /\ made = NoId /\ made' = NoId
      /\ config.exSgs = {} /\ ~MissingSgs
  BY DEF SecurityGroupsCreated, Save, Creation, kube
<1>3. GroupsDone(work)
  BY <1>2, WorkCounts, ConfigCounts, WorkFilled DEF Filled, GroupsDone, MissingSgs
<1>5. Filled(work, "write")'
  BY <1>1, <1>2, <1>3, WorkFilled
     DEF Filled, SubnetsDone, NatsDone, TablesDone, GroupsDone, ExistingSubnets, WantedPub,
         NeedsNAT
<1> QED BY <1>1, <1>2, <1>5, SameSavedTidy

LEMMA RouteTablesCreatedTidy ==
  ASSUME IInv, AllEarned, Tidy, RouteTablesCreated PROVE Tidy'
<1>1. /\ work'.vpc = work.vpc /\ work'.igw = work.igw /\ work'.pub = work.pub
      /\ work'.priv = work.priv /\ work'.nats = work.nats /\ work'.rts = work.rts
      /\ work'.sgs = work.sgs /\ work'.bsg = work.bsg /\ work'.bastion = work.bastion
  BY WorkFacts DEF RouteTablesCreated, Save, Enter, Object
<1>2. /\ UNCHANGED <<cloud, config, stack, workFresh, keys>>
      /\ pc = "CreatingRouteTables" /\ pc' = "write" /\ made = NoId /\ made' = NoId
      /\ config.exRts = {} /\ ~MissingRts
  BY DEF RouteTablesCreated, Save, Creation, kube
<1>3. TablesDone(work)
  <2>1. HasNetwork(work)
    BY <1>2 DEF AllEarned, PhasesBehind
  <2>2. Routing
    BY DEF Tidy
  <2> SUFFICES ASSUME NeedsNAT, work.priv # {} PROVE Cardinality(work.rts) > 1
    BY DEF TablesDone
  <2>3. work.nats # {} /\ work.nats \ routed = {}
    BY <1>2, <2>1 DEF HasNetwork, MissingRts, Unrouted
  <2> QED BY <1>2, <2>2, <2>3 DEF Routing
<1>5. Filled(work, "write")'
  BY <1>1, <1>2, <1>3, WorkFilled
     DEF Filled, SubnetsDone, NatsDone, TablesDone, GroupsDone, ExistingSubnets, WantedPub,
         NeedsNAT
<1> QED BY <1>1, <1>2, <1>5, SameSavedTidy

-----------------------------------------------------------------------------
(* The user's resources are entered in place of the stack's own.           *)

(* What a copy is to say of its lists once it names more of the user's.    *)
LEMMA NamedTidy ==
  ASSUME IInv, Tidy, pc \notin {"idle", "StoreKey", "RunInstance"}, pc' = "write",
         made = NoId, made' = NoId,
         UNCHANGED <<cloud, config, stack, workFresh, keys>>,
         work'.vpc = work.vpc \/ (work.vpc = NoId /\ work'.vpc \in Foreign),
         work'.igw = work.igw \/ (work.igw = NoId /\ work'.igw \in Foreign),
         work'.pub = work.pub \/ (work.pub = {} /\ work'.pub \subseteq Foreign),
         work'.priv = work.priv \/ (work.priv = {} /\ work'.priv \subseteq Foreign),
         work'.nats = work.nats \/ (work.nats = {} /\ work'.nats \subseteq Foreign),
         work'.rts = work.rts \/ (work.rts = {} /\ work'.rts \subseteq Foreign),
         work'.sgs = work.sgs \/ (work.sgs = {} /\ work'.sgs \subseteq Foreign),
         work'.bsg = work.bsg, work'.bastion = work.bastion,
         Disjoint(work)', Filled(work, "write")',
         work'.pub \cup work'.priv = {} => work'.nats = {} /\ work'.rts = {}
  PROVE  Tidy'
<1>1. PICK o, q : o = work /\ o \in Object /\ q = work'
  BY WorkFacts
<1>2. Current' = q /\ Current = o
  BY <1>1 DEF Current
<1>3. Kept
  BY SameIsStill, StillKeeps
<1>4. OwnKinds(Current)'
  <2>1. /\ More({q.vpc}, {o.vpc}, "vpc") /\ More({q.igw}, {o.igw}, "igw")
        /\ More(q.pub \cup q.priv, o.pub \cup o.priv, "subnet")
        /\ More(q.nats, o.nats, "nat") /\ More(q.rts, o.rts, "rt")
        /\ More(q.sgs \cup {q.bsg}, o.sgs \cup {o.bsg}, "sg")
        /\ More({q.bastion}, {o.bastion}, "instance")
    BY <1>1 DEF More, Own
  <2>2. OwnKinds(Current)
    BY DEF Tidy
  <2> QED BY <1>2, <1>3, <2>1, <2>2, KindsGrow
<1>5. OwnSlots(Current)'
  <2>1. /\ q.pub = o.pub \/ Own(q.pub) = {}
        /\ q.priv = o.priv \/ Own(q.priv) = {}
        /\ q.sgs = o.sgs \/ Own(q.sgs) = {}
        /\ q.bsg = o.bsg \/ Own({q.bsg}) = {}
    BY <1>1 DEF Own
  <2>2. OwnSlots(Current)
    BY DEF Tidy
  <2> QED BY <1>2, <1>3, <2>1, <2>2, SlotsStay
<1>6. AllKnown(Current)'
  <2>1. \A i \in Ids \ Foreign :
          i \in Recorded(o) \cup {made} => i \in Recorded(q) \cup {made'}
    BY <1>1, IdsFacts DEF Recorded
  <2>2. o.nats \subseteq q.nats
    BY <1>1
  <2>3. /\ \A i \in Ids \ Foreign :
             i \in Recorded(Current) \cup {made} =>
               \/ i \in Recorded(Current') \cup {made'}
               \/ \E n \in Current'.nats : i \in EipOf(n)'
               \/ cloud'[i].kind = "rt" /\ cloud'[i].tagged /\ cloud'[i].assoc = {}
        /\ \A i \in Ids \ Foreign :
             cloud[i].kind = "none" /\ cloud'[i].kind # "none" =>
               i \in Recorded(Current') \cup {made'}
        /\ Current.nats \subseteq Current'.nats
    BY <1>2, <2>1, <2>2
  <2>4. AllKnown(Current)
    BY DEF Tidy
  <2> QED BY <1>3, <2>3, <2>4, MadeIsNew, KnownGrows
<1>7. Disjoint(Current)'
  BY <1>1, <1>2 DEF Disjoint, ExistingSubnets
<1>8. /\ Current'.pub \cup Current'.priv = {} => Current'.nats = {} /\ Current'.rts = {}
      /\ Current'.bastion = Current.bastion
  BY <1>1, <1>2
<1> QED BY <1>4, <1>5, <1>6, <1>7, <1>8, SavedTidy

LEMMA WorkDisjoint == ASSUME Tidy, pc # "idle" PROVE Disjoint(work)
BY DEF Tidy, Current

LEMMA ConfigNames ==
  ASSUME IInv
  PROVE  /\ config.exVpc # NoId => config.exVpc \in Foreign
         /\ config.exIgw # NoId => config.exIgw \in Foreign
         /\ config.exPub \subseteq Foreign /\ config.exPriv \subseteq Foreign
         /\ config.exNats \subseteq Foreign /\ config.exRts \subseteq Foreign
         /\ config.exSgs \subseteq Foreign
BY ConfigCounts DEF ConfigType

LEMMA UseExistingVpcTidy == ASSUME IInv, Tidy, UseExistingVpc PROVE Tidy'
<1>1. /\ UNCHANGED <<cloud, config, stack, workFresh, keys>>
      /\ pc = "CreatingVPC" /\ pc' = "write" /\ made' = NoId /\ config.exVpc # NoId
  BY DEF UseExistingVpc, Save, Creation, kube
<1>2. made = NoId /\ work.vpc = NoId
  BY <1>1 DEF IInv, AtPc, HalfMade, MayMake, OneToMake
<1>3. /\ work'.vpc = config.exVpc /\ work'.igw = work.igw /\ work'.pub = work.pub
      /\ work'.priv = work.priv /\ work'.nats = work.nats /\ work'.rts = work.rts
      /\ work'.sgs = work.sgs /\ work'.bsg = work.bsg /\ work'.bastion = work.bastion
  BY WorkFacts DEF UseExistingVpc, Save, Object
<1>4. Filled(work, "write")'
  BY <1>1, <1>3, SavedStaysFilled DEF FillingPcs
<1>5. Disjoint(work)'
  BY <1>1, <1>3, WorkDisjoint DEF Disjoint, ExistingSubnets
<1>6. work'.pub \cup work'.priv = {} => work'.nats = {} /\ work'.rts = {}
  BY <1>1, <1>3 DEF Tidy, InOrder, Current
<1>7. work'.vpc \in Foreign
  BY <1>1, <1>3, ConfigNames
<1> QED BY <1>1, <1>2, <1>3, <1>4, <1>5, <1>6, <1>7, NamedTidy

LEMMA UseExistingIgwTidy == ASSUME IInv, Tidy, UseExistingIgw PROVE Tidy'
<1>1. /\ UNCHANGED <<cloud, config, stack, workFresh, keys>>
      /\ pc = "CreatingInternetGateway" /\ pc' = "write" /\ made' = NoId
      /\ config.exIgw # NoId
  BY DEF UseExistingIgw, Save, Creation, kube
<1>2. made = NoId /\ work.igw = NoId
  BY <1>1 DEF IInv, AtPc, HalfMade, MayMake, OneToMake
<1>3. /\ work'.vpc = work.vpc /\ work'.igw = config.exIgw /\ work'.pub = work.pub
      /\ work'.priv = work.priv /\ work'.nats = work.nats /\ work'.rts = work.rts
      /\ work'.sgs = work.sgs /\ work'.bsg = work.bsg /\ work'.bastion = work.bastion
  BY WorkFacts DEF UseExistingIgw, Save, Object
<1>4. Filled(work, "write")'
  BY <1>1, <1>3, SavedStaysFilled DEF FillingPcs
<1>5. Disjoint(work)'
  BY <1>1, <1>3, WorkDisjoint DEF Disjoint, ExistingSubnets
<1>6. work'.pub \cup work'.priv = {} => work'.nats = {} /\ work'.rts = {}
  BY <1>1, <1>3 DEF Tidy, InOrder, Current
<1>7. work'.igw \in Foreign
  BY <1>1, <1>3, ConfigNames
<1> QED BY <1>1, <1>2, <1>3, <1>4, <1>5, <1>6, <1>7, NamedTidy

LEMMA UseExistingSubnetsTidy == ASSUME IInv, Tidy, UseExistingSubnets PROVE Tidy'
<1>1. /\ UNCHANGED <<cloud, config, stack, workFresh, keys>>
      /\ pc = "CreatingSubnets" /\ pc' = "write" /\ made' = NoId
      /\ ExistingSubnets # {}
  BY DEF UseExistingSubnets, Save, Creation, kube
<1>2. made = NoId /\ work.pub = {} /\ work.priv = {}
  BY <1>1 DEF IInv, AtPc, HalfMade, MayMake, ListToFill
<1>3. /\ work'.vpc = work.vpc /\ work'.igw = work.igw /\ work'.pub = config.exPub
      /\ work'.priv = config.exPriv /\ work'.nats = work.nats /\ work'.rts = work.rts
      /\ work'.sgs = work.sgs /\ work'.bsg = work.bsg /\ work'.bastion = work.bastion
  BY WorkFacts DEF UseExistingSubnets, Save, Object
<1>4. work.nats = {} /\ work.rts = {}
  BY <1>1 DEF Tidy, InOrder
<1>5. Filled(work, "write")'
  BY <1>1, <1>3, <1>4, WorkFilled
     DEF Filled, SubnetsDone, NatsDone, TablesDone, GroupsDone, ExistingSubnets, WantedPub,
         NeedsNAT
<1>6. Disjoint(work)'
  BY <1>1, <1>3 DEF Disjoint, ExistingSubnets
<1>7. work'.pub \subseteq Foreign /\ work'.priv \subseteq Foreign
  BY <1>1, <1>3, ConfigNames
<1> QED BY <1>1, <1>2, <1>3, <1>4, <1>5, <1>6, <1>7, NamedTidy

LEMMA UseExistingNatsTidy == ASSUME IInv, Tidy, UseExistingNats PROVE Tidy'
<1>1. /\ UNCHANGED <<cloud, config, stack, workFresh, keys>>
      /\ pc = "CreatingNATGateway" /\ pc' = "write" /\ made' = NoId
      /\ config.exNats # {}
  BY DEF UseExistingNats, Save, Creation, kube
<1>2. made = NoId /\ work.nats = {}
  BY <1>1 DEF IInv, AtPc, HalfMade, MayMake, ListToFill
<1>3. /\ work'.vpc = work.vpc /\ work'.igw = work.igw /\ work'.pub = work.pub
      /\ work'.priv = work.priv /\ work'.nats = config.exNats /\ work'.rts = work.rts
      /\ work'.sgs = work.sgs /\ work'.bsg = work.bsg /\ work'.bastion = work.bastion
  BY WorkFacts DEF UseExistingNats, Save, Object
<1>4. work.pub \cup work.priv # {}
  BY <1>1 DEF Tidy, InOrder
<1>5. Filled(work, "write")'
  BY <1>1, <1>3, WorkFilled
     DEF Filled, SubnetsDone, NatsDone, TablesDone, GroupsDone, ExistingSubnets, WantedPub,
         NeedsNAT
<1>6. Disjoint(work)'
  BY <1>1, <1>3, WorkDisjoint DEF Disjoint, ExistingSubnets
<1>7. work'.nats \subseteq Foreign
  BY <1>1, <1>3, ConfigNames
<1> QED BY <1>1, <1>2, <1>3, <1>4, <1>5, <1>6, <1>7, NamedTidy

LEMMA UseExistingRouteTablesTidy ==
  ASSUME IInv, AllEarned, Tidy, UseExistingRouteTables PROVE Tidy'
<1>1. /\ UNCHANGED <<cloud, config, stack, workFresh, keys>>
      /\ pc = "CreatingRouteTables" /\ pc' = "write" /\ made' = NoId
      /\ config.exRts # {}
  BY DEF UseExistingRouteTables, Save, Creation, kube
<1>2. made = NoId /\ work.rts = {}
  BY <1>1 DEF IInv, AtPc, HalfMade, MayMake, ListToFill
<1>3. /\ work'.vpc = work.vpc /\ work'.igw = work.igw /\ work'.pub = work.pub
      /\ work'.priv = work.priv /\ work'.nats = work.nats /\ work'.rts = config.exRts
      /\ work'.sgs = work.sgs /\ work'.bsg = work.bsg /\ work'.bastion = work.bastion
  BY WorkFacts DEF UseExistingRouteTables, Save, Enter, Object
<1>4. work.pub \cup work.priv # {}
  BY <1>1 DEF AllEarned, PhasesBehind, HasNetwork
<1>5. Filled(work, "write")'
  BY <1>1, <1>3, WorkFilled
     DEF Filled, SubnetsDone, NatsDone, TablesDone, GroupsDone, ExistingSubnets, WantedPub,
         NeedsNAT
<1>6. Disjoint(work)'
  BY <1>1, <1>3, WorkDisjoint DEF Disjoint, ExistingSubnets
<1>7. work'.rts \subseteq Foreign
  BY <1>1, <1>3, ConfigNames
<1> QED BY <1>1, <1>2, <1>3, <1>4, <1>5, <1>6, <1>7, NamedTidy

LEMMA UseExistingSecurityGroupsTidy ==
  ASSUME IInv, AllEarned, Tidy, UseExistingSecurityGroups PROVE Tidy'
<1>1. /\ UNCHANGED <<cloud, config, stack, workFresh, keys>>
      /\ pc = "CreatingSecurityGroups" /\ pc' = "write" /\ made' = NoId
      /\ config.exSgs # {}
  BY DEF UseExistingSecurityGroups, Save, Creation, kube
<1>2. made = NoId /\ work.sgs = {}
  BY <1>1 DEF IInv, AtPc, HalfMade, MayMake, ListToFill
<1>3. /\ work'.vpc = work.vpc /\ work'.igw = work.igw /\ work'.pub = work.pub
      /\ work'.priv = work.priv /\ work'.nats = work.nats /\ work'.rts = work.rts
      /\ work'.sgs = config.exSgs /\ work'.bsg = work.bsg /\ work'.bastion = work.bastion
  BY WorkFacts DEF UseExistingSecurityGroups, Save, Enter, Object
<1>4. work.pub \cup work.priv # {}
  BY <1>1 DEF AllEarned, PhasesBehind, HasNetwork
<1>5. Filled(work, "write")'
  BY <1>1, <1>3, WorkFilled
     DEF Filled, SubnetsDone, NatsDone, TablesDone, GroupsDone, ExistingSubnets, WantedPub,
         NeedsNAT
<1>6. Disjoint(work)'
  BY <1>1, <1>3, WorkDisjoint DEF Disjoint, ExistingSubnets
<1>7. work'.sgs \subseteq Foreign
  BY <1>1, <1>3, ConfigNames
<1> QED BY <1>1, <1>2, <1>3, <1>4, <1>5, <1>6, <1>7, NamedTidy

-----------------------------------------------------------------------------
(* What is created fits beside what there is.                              *)

(* What the stack's own is is where it is listed.                          *)
LEMMA OwnIsListed ==
  ASSUME NEW o, OwnKinds(o), NEW i \in Recorded(o) \ Foreign
  PROVE  /\ i # NoId => (cloud[i].kind = "igw" => i = o.igw)
         /\ i # NoId => (cloud[i].kind = "subnet" => i \in o.pub \cup o.priv)
         /\ i # NoId => (cloud[i].kind = "rt" => i \in o.rts)
         /\ i # NoId => (cloud[i].kind = "sg" => i \in o.sgs \cup {o.bsg})
<1> SUFFICES ASSUME i # NoId
             PROVE  /\ cloud[i].kind = "igw" => i = o.igw
                    /\ cloud[i].kind = "subnet" => i \in o.pub \cup o.priv
                    /\ cloud[i].kind = "rt" => i \in o.rts
                    /\ cloud[i].kind = "sg" => i \in o.sgs \cup {o.bsg}
  OBVIOUS
<1>1. /\ i = o.vpc => cloud[i].kind = "vpc"
      /\ i = o.igw => cloud[i].kind = "igw"
      /\ i \in o.pub \cup o.priv => cloud[i].kind = "subnet"
      /\ i \in o.nats => cloud[i].kind = "nat"
      /\ i \in o.rts => cloud[i].kind = "rt"
      /\ i \in o.sgs \cup {o.bsg} => cloud[i].kind = "sg"
      /\ i = o.bastion => cloud[i].kind = "instance"
  BY DEF OwnKinds, Own
<1>2. \/ i = o.vpc \/ i = o.igw \/ i \in o.pub \cup o.priv \/ i \in o.nats
      \/ i \in o.rts \/ i \in o.sgs \cup {o.bsg} \/ i = o.bastion
  BY DEF Recorded
<1> QED BY <1>1, <1>2

(* Of what lives in EC2 beside what the user has brought along, what is no *)
(* address is listed -- or has just been made, or is an idle table.        *)
LEMMA WhereOwnIs ==
  ASSUME IInv, Tidy, pc # "idle", NEW i \in Ids \ Foreign, Live(i), i # made
  PROVE  /\ cloud[i].kind = "igw" => i = work.igw
         /\ cloud[i].kind = "subnet" => i \in work.pub \cup work.priv
         /\ cloud[i].kind = "rt" => i \in work.rts \/ cloud[i].assoc = {}
         /\ cloud[i].kind = "sg" => i \in work.sgs \cup {work.bsg}
<1>1. OwnKinds(work) /\ AllKnown(work)
  BY DEF Tidy, Current
<1>2. cloud[i].kind # "none"
  BY DEF IInv, CloudSane, Live, LiveStates
<1>3. \/ i \in Recorded(work)
      \/ cloud[i].kind = "eip"
      \/ cloud[i].kind = "rt" /\ cloud[i].assoc = {}
  BY <1>1, <1>2 DEF AllKnown, EipOf
<1>4. i # NoId
  BY IdsFacts
<1>5. CASE i \in Recorded(work)
  <2>1. PICK o : o = work /\ OwnKinds(o) /\ i \in Recorded(o) \ Foreign
    BY <1>1, <1>5
  <2> QED BY <1>4, <2>1, OwnIsListed
<1> QED BY <1>3, <1>5

(* What the user has in the stack's VPC is in the VPC the spec names, and  *)
(* as it was if no sweep looks for its kind.                               *)
LEMMA ForeignInVpc ==
  ASSUME IInv, Apart, NEW i \in Foreign, work.vpc \in cloud[i].uses,
         cloud[i].kind \notin {"instance", "rt"}
  PROVE  cloud[i] = Preexisting[i] /\ config.exVpc \in Preexisting[i].uses
<1>1. cloud[i] = Preexisting[i]
  BY DEF Apart, AsFound, SameKind, Swept
<1>2. work.vpc \in Foreign
  BY <1>1, PreexistingAssumption DEF Foreign
<1> QED BY <1>1, <1>2 DEF Apart, OnlyNamed

LEMMA NoSubnetClash ==
  ASSUME IInv, Apart, Tidy, Unhindered, pc = "CreatingSubnets", ExistingSubnets = {},
         made = NoId, MissingPub \/ MissingPriv
  PROVE  ~Clash("subnet", NextRange, work.vpc)
<1> SUFFICES ASSUME NEW i \in Ids, Live(i), cloud[i].kind = "subnet",
                    cloud[i].slot = NextRange, work.vpc \in cloud[i].uses
             PROVE  FALSE
  BY DEF Clash, LiveOf
<1>1. PICK p, q, w, c : /\ p = Cardinality(work.pub) /\ q = Cardinality(work.priv)
                        /\ w = WantedPub /\ c = config.priv
  OBVIOUS
<1>2. p \in Nat /\ q \in Nat /\ w \in Nat /\ c \in Nat
  BY <1>1, WorkCounts, ConfigCounts
<1>3. p < w \/ q < c
  BY <1>1 DEF MissingPub, MissingPriv
<1>4. cloud[i].slot = IF p < w THEN p + 1 ELSE w + q + 1
  BY <1>1 DEF NextRange, MissingPub
<1>5. CASE i \in Foreign
  <2>1. cloud[i] = Preexisting[i] /\ config.exVpc \in Preexisting[i].uses
    BY <1>5, ForeignInVpc
  <2>2. cloud[i].slot \notin 1 .. w + c
    BY <1>1, <1>5, <2>1 DEF Unhindered
  <2> QED BY <1>2, <1>3, <1>4, <2>2
<1>6. CASE i \notin Foreign
  <2>1. i \in work.pub \cup work.priv
    BY <1>6, IdsFacts, WhereOwnIs
  <2>2. /\ i \in work.pub => cloud[i].slot \in 1 .. p
        /\ i \in work.priv => cloud[i].slot \in w + 1 .. w + q
    BY <1>1, <1>6, IdsFacts DEF Tidy, OwnSlots, Current, Own
  <2>3. p <= w /\ q <= c
    <3>1. Filled(work, pc)
      BY WorkFilled
    <3>2. CASE work.pub \cup work.priv = {}
      BY <2>1, <3>2
    <3> QED BY <1>1, <1>2, <3>1, <3>2 DEF Filled, SubnetsDone
  <2> QED BY <1>2, <1>3, <1>4, <2>1, <2>2, <2>3
<1> QED BY <1>5, <1>6

LEMMA NoGroupClash ==
  ASSUME IInv, Apart, Tidy, Unhindered, made = NoId,
         NEW slot,
         \/ /\ pc = "CreatingSecurityGroups" /\ config.exSgs = {} /\ MissingSgs
            /\ slot = Cardinality(work.sgs) + 1
         \/ pc = "CreatingBastionSecurityGroup" /\ config.bastion /\ slot = 0
  PROVE  ~Clash("sg", slot, work.vpc)
<1> SUFFICES ASSUME NEW i \in Ids, Live(i), cloud[i].kind = "sg",
                    cloud[i].slot = slot, work.vpc \in cloud[i].uses
             PROVE  FALSE
  BY DEF Clash, LiveOf
<1>1. PICK q, c : q = Cardinality(work.sgs) /\ c = config.sgs
  OBVIOUS
<1>2. q \in Nat /\ c \in Nat
  BY <1>1, WorkCounts, ConfigCounts
<1>3. CASE i \in Foreign
  <2>1. cloud[i] = Preexisting[i] /\ config.exVpc \in Preexisting[i].uses
    BY <1>3, ForeignInVpc
  <2>2. config.exSgs = {} => cloud[i].slot \notin 1 .. c
    BY <1>1, <1>3, <2>1 DEF Unhindered
  <2>3. config.bastion => cloud[i].slot # 0
    BY <1>3, <2>1 DEF Unhindered
  <2> QED BY <1>1, <1>2, <2>2, <2>3 DEF MissingSgs
<1>4. CASE i \notin Foreign
  <2>1. i \in work.sgs \cup {work.bsg} /\ i # NoId
    BY <1>4, IdsFacts, WhereOwnIs
  <2>2. /\ i \in work.sgs => cloud[i].slot \in 1 .. q
        /\ i = work.bsg => cloud[i].slot = 0
    BY <1>1, <1>4, <2>1 DEF Tidy, OwnSlots, Current, Own
  <2>3. pc = "CreatingBastionSecurityGroup" => work.bsg = NoId
    BY DEF IInv, AtPc, OneToMake
  <2> QED BY <1>1, <1>2, <2>1, <2>2, <2>3
<1> QED BY <1>3, <1>4

-----------------------------------------------------------------------------
(* A resource is created and stays in made.                                *)

Fits(kind, slot, tagged, uses) ==
  /\ pc = "CreatingVPC" => kind = "vpc"
  /\ pc = "CreatingInternetGateway" => kind = "igw" /\ uses = {}
  /\ pc = "CreatingSubnets" => (MissingPub \/ MissingPriv) /\ kind = "subnet" /\ slot = NextRange
  /\ pc = "CreatingNATGateway" => MissingNats /\ kind = "eip" /\ work.pub # {}
  /\ pc = "CreatingRouteTables" => MissingRts /\ kind = "rt" /\ tagged
  /\ pc = "CreatingSecurityGroups" =>
       MissingSgs /\ kind = "sg" /\ slot = Cardinality(work.sgs) + 1

LEMMA CountsStay ==
  ASSUME UNCHANGED <<config, work, routed>>
  PROVE  /\ MissingPub' = MissingPub /\ MissingPriv' = MissingPriv
         /\ MissingSgs' = MissingSgs /\ MissingNats' = MissingNats
         /\ MissingRts' = MissingRts /\ NextRange' = NextRange
BY DEF MissingPub, MissingPriv, MissingSgs, MissingNats, MissingRts, NextRange, WantedPub,
       WantedNats, Unrouted

(* The associations of the tables that are listed stay.                    *)
LEMMA ServedStays ==
  ASSUME IInv, Kept, UNCHANGED work, made \notin Recorded(work)
  PROVE  Served(work)' = Served(work)
<1>1. \A r \in work.rts : r \in Ids /\ r \in Recorded(work)
  BY WorkFacts DEF Object, Recorded
<1>2. \A r \in work.rts : r \in Ids /\ cloud[r].kind # "none" /\ r # made
  BY <1>1 DEF IInv, NamesAreBorn, Born
<1>3. \A r \in work.rts : cloud'[r].assoc = cloud[r].assoc
  BY <1>2 DEF Kept
<1> QED BY <1>3 DEF Served

LEMMA MakeTidy ==
  ASSUME IInv, Tidy, pc \notin {"idle", "StoreKey", "RunInstance"},
         Unused # {}, NEW kind, kind # "none", NEW state, NEW slot, NEW tagged, NEW uses,
         cloud' = Created(kind, state, slot, tagged, uses),
         Fits(kind, slot, tagged, uses), made = NoId, made' = NewId,
         UNCHANGED <<config, stack, pc, work, workFresh, routed, keys>>
  PROVE  Tidy'
<1>1. /\ Kept /\ NewId \in Ids /\ cloud[NewId].kind = "none"
      /\ cloud'[NewId] = [kind |-> kind, state |-> state, slot |-> slot,
                          tagged |-> tagged, uses |-> uses, assoc |-> {}]
      /\ \A i \in Ids \ {NewId} : cloud'[i] = cloud[i]
  BY CreatedKeeps
<1>2. Current' = Current /\ Current = work
  BY DEF Current
<1>3. OwnKinds(Current)'
  <2>1. /\ More({Current'.vpc}, {Current.vpc}, "vpc")
        /\ More({Current'.igw}, {Current.igw}, "igw")
        /\ More(Current'.pub \cup Current'.priv, Current.pub \cup Current.priv, "subnet")
        /\ More(Current'.nats, Current.nats, "nat")
        /\ More(Current'.rts, Current.rts, "rt")
        /\ More(Current'.sgs \cup {Current'.bsg}, Current.sgs \cup {Current.bsg}, "sg")
        /\ More({Current'.bastion}, {Current.bastion}, "instance")
    BY <1>2 DEF More, Own
  <2> QED BY <1>1, <2>1, KindsGrow DEF Tidy
<1>4. OwnSlots(Current)'
  BY <1>1, <1>2, SlotsStay DEF Tidy
<1>5. AllKnown(Current)'
  <2>1. \A i \in Ids \ Foreign :
          i \in Recorded(Current) \cup {made} => i \in Recorded(Current') \cup {made'}
    BY <1>2, IdsFacts
  <2>2. \A i \in Ids \ Foreign :
          cloud[i].kind = "none" /\ cloud'[i].kind # "none" =>
            i \in Recorded(Current') \cup {made'}
    BY <1>1
  <2>3. Current.nats \subseteq Current'.nats
    BY <1>2
  <2> QED BY <1>1, <2>1, <2>2, <2>3, MadeIsNew, KnownGrows DEF Tidy
<1>6. Disjoint(Current)'
  BY <1>2 DEF Tidy, Disjoint, ExistingSubnets
<1>7. Filled(stack, "idle")'
  BY StackStays
<1>8. Filled(Current, pc)'
  BY <1>2 DEF Tidy, Filled, SubnetsDone, NatsDone, TablesDone, GroupsDone, ExistingSubnets,
              WantedPub, NeedsNAT
<1>9. MadeFits'
  <2>1. NewId \notin Recorded(work)
    BY <1>1 DEF IInv, NamesAreBorn, Born
  <2>2. /\ MissingPub' = MissingPub /\ MissingPriv' = MissingPriv
        /\ MissingSgs' = MissingSgs /\ MissingNats' = MissingNats
        /\ MissingRts' = MissingRts /\ NextRange' = NextRange
    BY CountsStay
  <2>3. PICK n : n = NewId
    OBVIOUS
  <2>4. /\ cloud'[n].kind = kind /\ cloud'[n].slot = slot /\ cloud'[n].tagged = tagged
        /\ cloud'[n].uses = uses /\ cloud'[n].assoc = {} /\ made' = n
        /\ n \notin Recorded(work')
    BY <1>1, <2>1, <2>3
  <2>5. work' = work /\ pc' = pc
    OBVIOUS
  <2> QED BY <2>2, <2>4, <2>5 DEF MadeFits, Fits
<1>10. InOrder' /\ KeyIsKept'
  BY <1>2 DEF Tidy, InOrder, KeyIsKept, keys
<1>11. Routing'
  <2>1. Served(work)' = Served(work)
    BY <1>1, <1>2, MadeIsNew, ServedStays
  <2>2. Routing
    BY DEF Tidy
  <2> QED BY <2>1, <2>2 DEF Routing
<1>12. EmptyHanded'
  BY DEF EmptyHanded, Fits
<1>13. pc' # "idle" => workFresh'
  BY DEF Tidy
<1> QED BY <1>3, <1>4, <1>5, <1>6, <1>7, <1>8, <1>9, <1>10, <1>11, <1>12, <1>13 DEF Tidy

LEMMA CreateTidy ==
  ASSUME IInv, Tidy, pc \notin {"idle", "StoreKey", "RunInstance"},
         NEW kind, kind # "none", NEW state, NEW slot, NEW tagged, NEW uses,
         Create(kind, state, slot, tagged, uses), Fits(kind, slot, tagged, uses),
         Goto(pc), UNCHANGED work, Creation
  PROVE  Tidy'
<1>1. /\ UNCHANGED <<config, stack, pc, work, workFresh, routed, keys>>
      /\ made = NoId /\ made' = NewId /\ Unused # {}
      /\ cloud' = Created(kind, state, slot, tagged, uses)
  BY DEF Create, Goto, Creation, kube
<1> QED BY <1>1, MakeTidy

LEMMA CallsTidy ==
  ASSUME IInv, Tidy,
         CreateVpc \/ CreateInternetGateway \/ AllocateAddress \/ CreateRouteTable
  PROVE  Tidy'
<1>1. CASE CreateVpc
  <2>1. Fits("vpc", 0, TRUE, {})
    BY <1>1 DEF CreateVpc, Fits
  <2> QED BY <1>1, <2>1, CreateTidy DEF CreateVpc
<1>2. CASE CreateInternetGateway
  <2>1. Fits("igw", 0, TRUE, {})
    BY <1>2 DEF CreateInternetGateway, Fits
  <2> QED BY <1>2, <2>1, CreateTidy DEF CreateInternetGateway
<1>3. CASE AllocateAddress
  <2>1. Fits("eip", 0, TRUE, {})
    BY <1>3 DEF AllocateAddress, Fits
  <2> QED BY <1>3, <2>1, CreateTidy DEF AllocateAddress
<1>4. CASE CreateRouteTable
  <2>1. PICK u : u = {work.vpc}
    OBVIOUS
  <2>2. Fits("rt", 0, TRUE, u)
    BY <1>4 DEF CreateRouteTable, Fits
  <2>3. Create("rt", "available", 0, TRUE, u)
    BY <1>4, <2>1 DEF CreateRouteTable
  <2> QED BY <1>4, <2>2, <2>3, CreateTidy DEF CreateRouteTable
<1> QED BY <1>1, <1>2, <1>3, <1>4

LEMMA CreateSubnetTidy ==
  ASSUME IInv, Apart, Tidy, Unhindered, CreateSubnet PROVE Tidy'
<1>1. PICK n, u : n = NextRange /\ u = {work.vpc}
  OBVIOUS
<1>2. /\ pc = "CreatingSubnets" /\ ExistingSubnets = {} /\ made = NoId
      /\ MissingPub \/ MissingPriv
      /\ IF Clash("subnet", n, work.vpc)
           THEN Abort /\ UNCHANGED cloud
           ELSE /\ Create("subnet", "pending", n, TRUE, u)
                /\ Goto(pc) /\ UNCHANGED work
      /\ Creation
  BY <1>1 DEF CreateSubnet, NextRange
<1>3. ~Clash("subnet", n, work.vpc)
  BY <1>1, <1>2, NoSubnetClash
<1>4. Fits("subnet", n, TRUE, u)
  BY <1>1, <1>2 DEF Fits
<1> QED BY <1>2, <1>3, <1>4, CreateTidy

LEMMA CreateSecurityGroupTidy ==
  ASSUME IInv, Apart, Tidy, Unhindered, CreateSecurityGroup PROVE Tidy'
<1>1. PICK n, u : n = Cardinality(work.sgs) + 1 /\ u = {work.vpc}
  OBVIOUS
<1>2. /\ pc = "CreatingSecurityGroups" /\ config.exSgs = {} /\ made = NoId /\ MissingSgs
      /\ IF Clash("sg", n, work.vpc)
           THEN Abort /\ UNCHANGED cloud
           ELSE /\ Create("sg", "available", n, TRUE, u)
                /\ Goto(pc) /\ UNCHANGED work
      /\ Creation
  BY <1>1 DEF CreateSecurityGroup
<1>3. ~Clash("sg", n, work.vpc)
  BY <1>1, <1>2, NoGroupClash
<1>4. Fits("sg", n, TRUE, u)
  BY <1>1, <1>2 DEF Fits
<1> QED BY <1>2, <1>3, <1>4, CreateTidy

-----------------------------------------------------------------------------
(* What has been created is entered in the copy.                           *)

LEMMA EnteredTidy ==
  ASSUME Tidy, pc \notin {"idle", "StoreKey", "RunInstance"}, pc' = pc, made' = NoId,
         UNCHANGED <<config, stack, workFresh, keys>>,
         OwnKinds(Current)', OwnSlots(Current)', AllKnown(Current)', Disjoint(Current)',
         Filled(work, pc)', InOrder', Routing',
         Current'.bastion = Current.bastion,
         pc = "CreatingNATGateway" => work'.pub # {}
  PROVE  Tidy'
<1>1. Current' = work' /\ Current = work
  BY DEF Current
<1>2. Filled(Current, pc)'
  BY <1>1 DEF Filled, SubnetsDone, NatsDone, TablesDone, GroupsDone, ExistingSubnets,
              WantedPub, NeedsNAT
<1>3. Filled(stack, "idle")'
  BY StackStays
<1>4. MadeFits' /\ EmptyHanded'
  BY DEF MadeFits, EmptyHanded
<1>5. KeyIsKept'
  <2>1. KeyIsKept
    BY DEF Tidy
  <2> QED BY <2>1 DEF KeyIsKept, keys
<1>6. pc' # "idle" => workFresh'
  BY DEF Tidy
<1> QED BY <1>2, <1>3, <1>4, <1>5, <1>6 DEF Tidy

(* The kinds, and what is known, when made goes to its place.              *)
LEMMA PlacedTidy ==
  ASSUME IInv, Tidy, Kept, pc # "idle", pc' # "idle", made \in Ids, made \in Recorded(work'),
         NEW kind, cloud[made].kind = kind, kind # "none",
         \A i \in Ids : cloud[i].kind = "none" => cloud'[i].kind = "none",
         work'.vpc = work.vpc \/ (work.vpc = NoId /\ kind = "vpc" /\ work'.vpc = made),
         work'.igw = work.igw \/ (work.igw = NoId /\ kind = "igw" /\ work'.igw = made),
         \/ work'.pub = work.pub
         \/ kind = "subnet" /\ work'.pub = work.pub \cup {made},
         \/ work'.priv = work.priv
         \/ kind = "subnet" /\ work'.priv = work.priv \cup {made},
         work'.nats = work.nats,
         work'.rts = work.rts \/ (kind = "rt" /\ work'.rts = work.rts \cup {made}),
         work'.sgs = work.sgs \/ (kind = "sg" /\ work'.sgs = work.sgs \cup {made}),
         work'.bsg = work.bsg, work'.bastion = work.bastion
  PROVE  OwnKinds(Current)' /\ AllKnown(Current)'
<1>1. PICK o, q : o = work /\ o \in Object /\ q = work'
  BY WorkFacts
<1>2. Current' = q /\ Current = o
  BY <1>1 DEF Current
<1>3. cloud'[made].kind = kind
  BY DEF Kept
<1>4. OwnKinds(Current)'
  <2>1. /\ More({q.vpc}, {o.vpc}, "vpc") /\ More({q.igw}, {o.igw}, "igw")
        /\ More(q.pub \cup q.priv, o.pub \cup o.priv, "subnet")
        /\ More(q.nats, o.nats, "nat") /\ More(q.rts, o.rts, "rt")
        /\ More(q.sgs \cup {q.bsg}, o.sgs \cup {o.bsg}, "sg")
        /\ More({q.bastion}, {o.bastion}, "instance")
    BY <1>1, <1>3 DEF More, Own
  <2>2. OwnKinds(Current)
    BY DEF Tidy
  <2> QED BY <1>2, <2>1, <2>2, KindsGrow
<1>5. AllKnown(Current)'
  <2>1. \A i \in Ids \ Foreign : i \in Recorded(o) \cup {made} => i \in Recorded(q)
    <3>1. \A i \in Ids : i \in Recorded(o) => i \in Recorded(q)
      BY <1>1, IdsFacts DEF Recorded
    <3> QED BY <1>1, <3>1
  <2>2. /\ \A i \in Ids \ Foreign :
             i \in Recorded(Current) \cup {made} =>
               \/ i \in Recorded(Current') \cup {made'}
               \/ \E n \in Current'.nats : i \in EipOf(n)'
               \/ cloud'[i].kind = "rt" /\ cloud'[i].tagged /\ cloud'[i].assoc = {}
        /\ \A i \in Ids \ Foreign :
             cloud[i].kind = "none" /\ cloud'[i].kind # "none" =>
               i \in Recorded(Current') \cup {made'}
        /\ Current.nats \subseteq Current'.nats
    BY <1>1, <1>2, <2>1
  <2>3. AllKnown(Current)
    BY DEF Tidy
  <2> QED BY <2>2, <2>3, MadeIsNew, KnownGrows
<1> QED BY <1>4, <1>5

LEMMA UnbornStays ==
  ASSUME UNCHANGED cloud
  PROVE  Kept /\ \A i \in Ids : cloud[i].kind = "none" => cloud'[i].kind = "none"
BY DEF Kept

LEMMA MadeFacts ==
  ASSUME IInv, Tidy, pc # "idle", made # NoId
  PROVE  made \in Ids /\ made \notin Recorded(work) /\ cloud[made].kind # "none"
BY DEF IInv, TypeOK, NamesAreBorn, Born, Tidy, MadeFits

LEMMA ModifyVpcTidy == ASSUME IInv, Apart, Tidy, ModifyVpc PROVE Tidy'
<1>1. /\ UNCHANGED <<cloud, config, stack, workFresh, keys>>
      /\ pc = "CreatingVPC" /\ pc' = "write" /\ made # NoId /\ made' = NoId
  BY DEF ModifyVpc, Save, Creation, kube
<1>2. work.vpc = NoId /\ config.exVpc = NoId
  BY <1>1 DEF IInv, AtPc, HalfMade, MayMake, OneToMake
<1>3. /\ work'.vpc = made /\ work'.igw = work.igw /\ work'.pub = work.pub
      /\ work'.priv = work.priv /\ work'.nats = work.nats /\ work'.rts = work.rts
      /\ work'.sgs = work.sgs /\ work'.bsg = work.bsg /\ work'.bastion = work.bastion
  BY WorkFacts DEF ModifyVpc, Save, Object
<1>4. /\ made \in Ids /\ made \notin Recorded(work) /\ cloud[made].kind = "vpc"
  BY <1>1, MadeFacts DEF Tidy, MadeFits
<1>5. made \in Recorded(work')
  BY <1>1, <1>3 DEF Recorded
<1>6. OwnKinds(Current)' /\ AllKnown(Current)'
  BY <1>1, <1>2, <1>3, <1>4, <1>5, UnbornStays, PlacedTidy
<1>7. Current' = work' /\ Current = work
  BY <1>1 DEF Current
<1>8. OwnSlots(Current)'
  BY <1>1, <1>3, <1>7, UnbornStays, SlotsStay DEF Tidy
<1>9. Disjoint(Current)'
  BY <1>1, <1>3, <1>7, WorkDisjoint DEF Disjoint, ExistingSubnets
<1>10. Filled(work, "write")'
  BY <1>1, <1>3, SavedStaysFilled DEF FillingPcs
<1>11. Current'.pub \cup Current'.priv = {} => Current'.nats = {} /\ Current'.rts = {}
  BY <1>3, <1>7 DEF Tidy, InOrder
<1>12. Current'.bastion = Current.bastion
  BY <1>3, <1>7
<1> QED BY <1>1, <1>6, <1>8, <1>9, <1>10, <1>11, <1>12, SavedTidy

(* The VPC of an undisturbed stack has no gateway yet.                     *)
LEMMA NoSecondGateway ==
  ASSUME IInv, Apart, Tidy, Unhindered, pc = "CreatingInternetGateway", made # NoId
  PROVE  InVpc(work.vpc) \cap LiveOf("igw") = {}
<1> SUFFICES ASSUME NEW i \in Ids, Live(i), cloud[i].kind = "igw", work.vpc \in cloud[i].uses
             PROVE  FALSE
  BY DEF InVpc, LiveOf
<1>1. config.exIgw = NoId /\ work.igw = NoId
  BY DEF IInv, AtPc, HalfMade, MayMake, OneToMake
<1>2. CASE i \in Foreign
  <2>1. cloud[i] = Preexisting[i] /\ config.exVpc \in Preexisting[i].uses
    BY <1>2, ForeignInVpc
  <2> QED BY <1>1, <1>2, <2>1 DEF Unhindered
<1>3. CASE i = made
  BY <1>3 DEF Tidy, MadeFits
<1>4. CASE i \notin Foreign /\ i # made
  BY <1>1, <1>4, IdsFacts, WhereOwnIs
<1> QED BY <1>2, <1>3, <1>4

LEMMA AttachInternetGatewayTidy ==
  ASSUME IInv, Apart, Tidy, Unhindered, AttachInternetGateway PROVE Tidy'
<1>1. InVpc(work.vpc) \cap LiveOf("igw") = {}
  BY NoSecondGateway DEF AttachInternetGateway
<1>2. /\ UNCHANGED <<config, stack, workFresh, keys>>
      /\ pc = "CreatingInternetGateway" /\ pc' = "write" /\ made # NoId /\ made' = NoId
      /\ cloud' = [cloud EXCEPT ![made].uses = {work.vpc}]
      /\ work' = [work EXCEPT !.igw = made, !.phase = "CreatingSubnets"]
  BY <1>1 DEF AttachInternetGateway, Save, Creation, kube
<1>3. work.igw = NoId
  BY <1>2 DEF IInv, AtPc, OneToMake
<1>4. /\ work'.vpc = work.vpc /\ work'.igw = made /\ work'.pub = work.pub
      /\ work'.priv = work.priv /\ work'.nats = work.nats /\ work'.rts = work.rts
      /\ work'.sgs = work.sgs /\ work'.bsg = work.bsg /\ work'.bastion = work.bastion
  BY <1>2, WorkFacts DEF Object
<1>5. /\ made \in Ids /\ made \notin Recorded(work) /\ cloud[made].kind = "igw"
  BY <1>2, MadeFacts DEF Tidy, MadeFits
<1>6. made \in Recorded(work')
  BY <1>2, <1>4 DEF Recorded
<1>7. Kept /\ \A i \in Ids : cloud[i].kind = "none" => cloud'[i].kind = "none"
  <2>1. PICK n, u : n = made /\ u = {work.vpc}
    OBVIOUS
  <2>2. cloud' = [cloud EXCEPT ![n] = [cloud[n] EXCEPT !.uses = u]]
    BY <1>2, <2>1
  <2>3. cloud \in [Ids -> Resource]
    BY DEF IInv, TypeOK
  <2> QED BY <1>5, <2>1, <2>2, <2>3 DEF Kept, Resource
<1>8. OwnKinds(Current)' /\ AllKnown(Current)'
  BY <1>2, <1>3, <1>4, <1>5, <1>6, <1>7, PlacedTidy
<1>9. Current' = work' /\ Current = work
  BY <1>2 DEF Current
<1>10. OwnSlots(Current)'
  BY <1>2, <1>4, <1>7, <1>9, SlotsStay DEF Tidy
<1>11. Disjoint(Current)'
  BY <1>2, <1>4, <1>9, WorkDisjoint DEF Disjoint, ExistingSubnets
<1>12. Filled(work, "write")'
  BY <1>2, <1>4, SavedStaysFilled DEF FillingPcs
<1>13. Current'.pub \cup Current'.priv = {} => Current'.nats = {} /\ Current'.rts = {}
  BY <1>4, <1>9 DEF Tidy, InOrder
<1>14. Current'.bastion = Current.bastion
  BY <1>4, <1>9
<1> QED BY <1>2, <1>8, <1>10, <1>11, <1>12, <1>13, <1>14, SavedTidy

(* A subnet takes the range after those of its list.                       *)
LEMMA RecordSubnetTidy == ASSUME IInv, Apart, Tidy, RecordSubnet PROVE Tidy'
<1>1. /\ UNCHANGED <<cloud, config, stack, workFresh, keys>>
      /\ pc = "CreatingSubnets" /\ pc' = pc /\ made # NoId /\ made' = NoId
  BY DEF RecordSubnet, Goto, Creation, kube
<1>2. ExistingSubnets = {}
  BY <1>1 DEF IInv, AtPc, HalfMade, MayMake
<1>3. /\ work'.vpc = work.vpc /\ work'.igw = work.igw
      /\ work'.pub = IF MissingPub THEN work.pub \cup {made} ELSE work.pub
      /\ work'.priv = IF MissingPub THEN work.priv ELSE work.priv \cup {made}
      /\ work'.nats = work.nats /\ work'.rts = work.rts
      /\ work'.sgs = work.sgs /\ work'.bsg = work.bsg /\ work'.bastion = work.bastion
  <2>1. CASE MissingPub
    BY <2>1, WorkFacts DEF RecordSubnet, Object
  <2>2. CASE ~MissingPub
    BY <2>2, WorkFacts DEF RecordSubnet, Object
  <2> QED BY <2>1, <2>2
<1>4. /\ made \in Ids /\ made \notin Recorded(work) /\ cloud[made].kind = "subnet"
      /\ cloud[made].slot = NextRange /\ (MissingPub \/ MissingPriv)
  BY <1>1, MadeFacts DEF Tidy, MadeFits
<1>5. made \in Recorded(work')
  BY <1>1, <1>3 DEF Recorded
<1>6. OwnKinds(Current)' /\ AllKnown(Current)'
  <2>1. /\ work'.pub = work.pub \/ work'.pub = work.pub \cup {made}
        /\ work'.priv = work.priv \/ work'.priv = work.priv \cup {made}
    BY <1>3
  <2> QED BY <1>1, <1>3, <1>4, <1>5, <2>1, UnbornStays, PlacedTidy
<1>7. Current' = work' /\ Current = work
  BY <1>1 DEF Current
<1>8. /\ made \notin work.pub /\ made \notin work.priv
      /\ work.pub \in SUBSET Ids /\ work.priv \in SUBSET Ids
  BY <1>4, WorkFacts DEF Recorded, Object
<1>9. /\ Cardinality(work'.pub) = IF MissingPub THEN Cardinality(work.pub) + 1
                                  ELSE Cardinality(work.pub)
      /\ Cardinality(work'.priv) = IF MissingPub THEN Cardinality(work.priv)
                                   ELSE Cardinality(work.priv) + 1
  <2>1. PICK n, S, T : n = made /\ S = work.pub /\ T = work.priv
    OBVIOUS
  <2>2. /\ Cardinality(S \cup {n}) = Cardinality(S) + 1
        /\ Cardinality(T \cup {n}) = Cardinality(T) + 1
    BY <1>4, <1>8, <2>1, OneMore
  <2> QED BY <1>3, <2>1, <2>2
<1>10. PICK p, q, w, c : /\ p = Cardinality(work.pub) /\ q = Cardinality(work.priv)
                         /\ w = WantedPub /\ c = config.priv
  OBVIOUS
<1>11. p \in Nat /\ q \in Nat /\ w \in Nat /\ c \in Nat
  BY <1>10, WorkCounts, ConfigCounts
<1>12. /\ MissingPub <=> p < w
       /\ p < w \/ q < c
       /\ cloud[made].slot = IF p < w THEN p + 1 ELSE w + q + 1
       /\ WantedPub' = w /\ config'.priv = c
  BY <1>1, <1>4, <1>10 DEF NextRange, MissingPub, MissingPriv, WantedPub
<1>13. p <= w /\ q <= c
  <2>1. Filled(work, pc)
    BY <1>1, WorkFilled
  <2>2. CASE work.pub \cup work.priv = {}
    BY <1>10, <1>11, <2>2, WorkCounts
  <2> QED BY <1>2, <1>10, <1>11, <2>1, <2>2 DEF Filled, SubnetsDone
<1>14. OwnSlots(Current)'
  <2>1. /\ \A i \in Own(work.pub) : cloud[i].slot \in 1 .. p
        /\ \A i \in Own(work.priv) : cloud[i].slot \in w + 1 .. w + q
        /\ \A i \in Own(work.sgs) : cloud[i].slot \in 1 .. Cardinality(work.sgs)
        /\ \A i \in Own({work.bsg}) : cloud[i].slot = 0
    BY <1>7, <1>10 DEF Tidy, OwnSlots
  <2>2. CASE p < w
    <3>1. \A i \in Own(work'.pub) : cloud[i].slot \in 1 .. p + 1
      <4>1. \A i \in Own(work'.pub) : i \in Own(work.pub) \/ i = made
        BY <1>3 DEF Own
      <4> QED BY <1>11, <1>12, <2>1, <2>2, <4>1
    <3>2. Cardinality(work'.pub) = p + 1 /\ work'.priv = work.priv
      BY <1>3, <1>9, <1>10, <1>12, <2>2
    <3>3. /\ \A i \in Own(work'.pub) : cloud'[i].slot \in 1 .. Cardinality(work'.pub)
          /\ \A i \in Own(work'.priv) : cloud'[i].slot
                 \in w + 1 .. w + Cardinality(work'.priv)
          /\ \A i \in Own(work'.sgs) : cloud'[i].slot \in 1 .. Cardinality(work'.sgs)
          /\ \A i \in Own({work'.bsg}) : cloud'[i].slot = 0
      BY <1>1, <1>3, <1>10, <2>1, <3>1, <3>2
    <3> QED BY <1>7, <1>12, <3>3 DEF OwnSlots, Own
  <2>3. CASE ~(p < w)
    <3>1. \A i \in Own(work'.priv) : cloud[i].slot \in w + 1 .. w + (q + 1)
      <4>1. \A i \in Own(work'.priv) : i \in Own(work.priv) \/ i = made
        BY <1>3 DEF Own
      <4> QED BY <1>11, <1>12, <2>1, <2>3, <4>1
    <3>2. Cardinality(work'.priv) = q + 1 /\ work'.pub = work.pub
      BY <1>3, <1>9, <1>10, <1>12, <2>3
    <3>3. /\ \A i \in Own(work'.pub) : cloud'[i].slot \in 1 .. Cardinality(work'.pub)
          /\ \A i \in Own(work'.priv) : cloud'[i].slot
                 \in w + 1 .. w + Cardinality(work'.priv)
          /\ \A i \in Own(work'.sgs) : cloud'[i].slot \in 1 .. Cardinality(work'.sgs)
          /\ \A i \in Own({work'.bsg}) : cloud'[i].slot = 0
      BY <1>1, <1>3, <1>10, <2>1, <3>1, <3>2
    <3> QED BY <1>7, <1>12, <3>3 DEF OwnSlots, Own
  <2> QED BY <2>2, <2>3
<1>15. Disjoint(Current)'
  <2>1. work.pub \cap work.priv = {}
    BY <1>1, <1>2, WorkDisjoint DEF Disjoint
  <2>2. work'.pub \cap work'.priv = {}
    BY <1>3, <1>8, <2>1
  <2> QED BY <1>1, <1>2, <1>7, <2>2 DEF Disjoint, ExistingSubnets
<1>16. work.nats = {} /\ work.rts = {}
  BY <1>1 DEF Tidy, InOrder
<1>17. Filled(work, pc)'
  <2>1. Cardinality(work'.pub) <= WantedPub' /\ Cardinality(work'.priv) <= config'.priv
    BY <1>9, <1>10, <1>11, <1>12, <1>13
  <2>2. Filled(work, pc)
    BY <1>1, WorkFilled
  <2> QED BY <1>1, <1>2, <1>3, <1>16, <2>1, <2>2 DEF Filled, GroupsDone, ExistingSubnets
<1>18. InOrder' /\ Routing'
  BY <1>1, <1>3, <1>7, <1>16 DEF InOrder, Routing
<1>19. Current'.bastion = Current.bastion
  BY <1>3, <1>7
<1> QED BY <1>1, <1>6, <1>14, <1>15, <1>17, <1>18, <1>19, EnteredTidy

(* A security group takes the name after those of the list.                *)
LEMMA AuthorizeIngressTidy ==
  ASSUME IInv, AllEarned, Apart, Tidy, AuthorizeIngress PROVE Tidy'
<1>1. /\ UNCHANGED <<cloud, config, stack, workFresh, keys>>
      /\ pc = "CreatingSecurityGroups" /\ pc' = pc /\ made # NoId /\ made' = NoId
  BY DEF AuthorizeIngress, Goto, Creation, kube
<1>2. config.exSgs = {}
  BY <1>1 DEF IInv, AtPc, HalfMade, MayMake
<1>3. /\ work'.vpc = work.vpc /\ work'.igw = work.igw
      /\ work'.pub = work.pub /\ work'.priv = work.priv
      /\ work'.nats = work.nats /\ work'.rts = work.rts
      /\ work'.sgs = work.sgs \cup {made}
      /\ work'.bsg = work.bsg /\ work'.bastion = work.bastion
  BY WorkFacts DEF AuthorizeIngress, Object
<1>4. /\ made \in Ids /\ made \notin Recorded(work) /\ cloud[made].kind = "sg"
      /\ cloud[made].slot = Cardinality(work.sgs) + 1 /\ MissingSgs
  BY <1>1, MadeFacts DEF Tidy, MadeFits
<1>5. made \in Recorded(work')
  BY <1>1, <1>3 DEF Recorded
<1>6. OwnKinds(Current)' /\ AllKnown(Current)'
  BY <1>1, <1>3, <1>4, <1>5, UnbornStays, PlacedTidy
<1>7. Current' = work' /\ Current = work
  BY <1>1 DEF Current
<1>8. PICK q, c : q = Cardinality(work.sgs) /\ c = config.sgs
  OBVIOUS
<1>9. q \in Nat /\ c \in Nat /\ q < c /\ Cardinality(work'.sgs) = q + 1
  <2>1. PICK n, S : n = made /\ S = work.sgs
    OBVIOUS
  <2>2. n \in Ids \ S /\ S \in SUBSET Ids
    BY <1>4, <2>1, WorkFacts DEF Recorded, Object
  <2>3. Cardinality(S \cup {n}) = Cardinality(S) + 1
    BY <2>2, OneMore
  <2> QED BY <1>3, <1>4, <1>8, <2>1, <2>3, WorkCounts, ConfigCounts DEF MissingSgs
<1>10. OwnSlots(Current)'
  <2>1. /\ \A i \in Own(work.pub) : cloud[i].slot \in 1 .. Cardinality(work.pub)
        /\ \A i \in Own(work.priv) :
             cloud[i].slot \in WantedPub + 1 .. WantedPub + Cardinality(work.priv)
        /\ \A i \in Own(work.sgs) : cloud[i].slot \in 1 .. q
        /\ \A i \in Own({work.bsg}) : cloud[i].slot = 0
    BY <1>7, <1>8 DEF Tidy, OwnSlots
  <2>2. \A i \in Own(work'.sgs) : cloud[i].slot \in 1 .. q + 1
    <3>1. \A i \in Own(work'.sgs) : i \in Own(work.sgs) \/ i = made
      BY <1>3 DEF Own
    <3> QED BY <1>4, <1>8, <1>9, <2>1, <3>1
  <2>3. /\ \A i \in Own(work'.pub) : cloud'[i].slot \in 1 .. Cardinality(work'.pub)
        /\ \A i \in Own(work'.priv) :
             cloud'[i].slot \in WantedPub + 1 .. WantedPub + Cardinality(work'.priv)
        /\ \A i \in Own(work'.sgs) : cloud'[i].slot \in 1 .. Cardinality(work'.sgs)
        /\ \A i \in Own({work'.bsg}) : cloud'[i].slot = 0
    BY <1>1, <1>3, <1>9, <2>1, <2>2
  <2>4. WantedPub' = WantedPub
    BY <1>1 DEF WantedPub
  <2> QED BY <1>7, <2>3, <2>4 DEF OwnSlots, Own
<1>11. Disjoint(Current)'
  BY <1>1, <1>3, <1>7, WorkDisjoint DEF Disjoint, ExistingSubnets
<1>12. Filled(work, pc)'
  <2>1. Cardinality(work'.sgs) <= config'.sgs
    BY <1>1, <1>8, <1>9
  <2>2. Filled(work, pc)
    BY <1>1, WorkFilled
  <2> QED BY <1>1, <1>3, <2>1, <2>2
          DEF Filled, SubnetsDone, NatsDone, TablesDone, ExistingSubnets, WantedPub, NeedsNAT
<1>13. InOrder' /\ Routing'
  <2>1. work.pub \cup work.priv # {}
    BY <1>1 DEF AllEarned, PhasesBehind, HasNetwork
  <2> QED BY <1>1, <1>3, <1>7, <2>1 DEF InOrder, Routing
<1>14. Current'.bastion = Current.bastion
  BY <1>3, <1>7
<1> QED BY <1>1, <1>6, <1>10, <1>11, <1>12, <1>13, <1>14, EnteredTidy

(* The kinds, and what is known, when a resource is entered as it is made. *)
LEMMA ListedTidy ==
  ASSUME IInv, Tidy, pc # "idle", pc' # "idle", Unused # {},
         NEW kind, kind # "none", NEW state, NEW slot, NEW tagged, NEW uses,
         cloud' = Created(kind, state, slot, tagged, uses), made' = NoId,
         made # NoId => /\ kind = "nat" /\ made \in uses /\ cloud[made].kind = "eip",
         work'.vpc = work.vpc, work'.igw = work.igw, work'.pub = work.pub,
         work'.priv = work.priv, work'.rts = work.rts, work'.sgs = work.sgs,
         IF kind = "nat" THEN work'.nats = work.nats \cup {NewId} ELSE work'.nats = work.nats,
         IF kind = "sg" THEN work.bsg = NoId /\ work'.bsg = NewId ELSE work'.bsg = work.bsg,
         IF kind = "instance" THEN work.bastion = NoId /\ work'.bastion = NewId
                              ELSE work'.bastion = work.bastion,
         kind \in {"nat", "sg", "instance"}
  PROVE  OwnKinds(Current)' /\ AllKnown(Current)'
<1>1. PICK o, q, n : o = work /\ o \in Object /\ q = work' /\ n = NewId
  BY WorkFacts
<1>2. Current' = q /\ Current = o
  BY <1>1 DEF Current
<1>3. /\ Kept /\ n \in Ids /\ cloud[n].kind = "none"
      /\ cloud'[n] = [kind |-> kind, state |-> state, slot |-> slot,
                      tagged |-> tagged, uses |-> uses, assoc |-> {}]
      /\ \A i \in Ids \ {n} : cloud'[i] = cloud[i]
  BY <1>1, CreatedKeeps
<1>4. /\ q.vpc = o.vpc /\ q.igw = o.igw /\ q.pub = o.pub /\ q.priv = o.priv
      /\ q.rts = o.rts /\ q.sgs = o.sgs
      /\ IF kind = "nat" THEN q.nats = o.nats \cup {n} ELSE q.nats = o.nats
      /\ IF kind = "sg" THEN o.bsg = NoId /\ q.bsg = n ELSE q.bsg = o.bsg
      /\ IF kind = "instance" THEN o.bastion = NoId /\ q.bastion = n ELSE q.bastion = o.bastion
  BY <1>1
<1>5. OwnKinds(Current)'
  <2>1. /\ More({q.vpc}, {o.vpc}, "vpc") /\ More({q.igw}, {o.igw}, "igw")
        /\ More(q.pub \cup q.priv, o.pub \cup o.priv, "subnet")
        /\ More(q.nats, o.nats, "nat") /\ More(q.rts, o.rts, "rt")
        /\ More(q.sgs \cup {q.bsg}, o.sgs \cup {o.bsg}, "sg")
        /\ More({q.bastion}, {o.bastion}, "instance")
    BY <1>3, <1>4 DEF More, Own
  <2>2. OwnKinds(Current)
    BY DEF Tidy
  <2> QED BY <1>2, <1>3, <2>1, <2>2, KindsGrow
<1>6. AllKnown(Current)'
  <2>1. n # NoId /\ n \in Recorded(q)
    BY <1>3, <1>4, IdsFacts DEF Recorded
  <2>2. \A i \in Ids : i \in Recorded(o) => i \in Recorded(q)
    BY <1>4, IdsFacts DEF Recorded
  <2>3. made # NoId => n \in q.nats /\ made \in EipOf(n)'
    <3> SUFFICES ASSUME made # NoId PROVE n \in q.nats /\ made \in EipOf(n)'
      OBVIOUS
    <3>1. kind = "nat" /\ made \in uses /\ cloud[made].kind = "eip" /\ made \in Ids
      BY DEF IInv, TypeOK
    <3>2. made # n
      BY <1>3, <3>1
    <3>3. cloud'[made].kind = "eip" /\ made \in cloud'[n].uses
      BY <1>3, <3>1, <3>2
    <3> QED BY <1>4, <3>1, <3>3 DEF EipOf
  <2>4. /\ \A i \in Ids \ Foreign :
             i \in Recorded(Current) \cup {made} =>
               \/ i \in Recorded(Current') \cup {made'}
               \/ \E m \in Current'.nats : i \in EipOf(m)'
               \/ cloud'[i].kind = "rt" /\ cloud'[i].tagged /\ cloud'[i].assoc = {}
    BY <1>2, <2>2, <2>3, IdsFacts
  <2>5. /\ \A i \in Ids \ Foreign :
             cloud[i].kind = "none" /\ cloud'[i].kind # "none" =>
               i \in Recorded(Current') \cup {made'}
        /\ Current.nats \subseteq Current'.nats
    BY <1>2, <1>3, <1>4, <2>1
  <2>6. AllKnown(Current)
    BY DEF Tidy
  <2> QED BY <1>3, <2>4, <2>5, <2>6, MadeIsNew, KnownGrows
<1> QED BY <1>5, <1>6

LEMMA CreateNatGatewayTidy == ASSUME IInv, Apart, Tidy, CreateNatGateway PROVE Tidy'
<1>1. PICK u : /\ made \in u
               /\ cloud' = Created("nat", "pending", 0, TRUE, u)
               /\ work.pub # {}
  BY DEF CreateNatGateway
<1>2. /\ UNCHANGED <<config, stack, workFresh, keys>>
      /\ pc = "CreatingNATGateway" /\ pc' = pc /\ made # NoId /\ made' = NoId
      /\ Unused # {}
  BY DEF CreateNatGateway, Goto, Creation, kube
<1>3. config.exNats = {}
  BY <1>2 DEF IInv, AtPc, HalfMade, MayMake
<1>4. /\ work'.vpc = work.vpc /\ work'.igw = work.igw
      /\ work'.pub = work.pub /\ work'.priv = work.priv
      /\ work'.nats = work.nats \cup {NewId} /\ work'.rts = work.rts
      /\ work'.sgs = work.sgs
      /\ work'.bsg = work.bsg /\ work'.bastion = work.bastion
  BY WorkFacts DEF CreateNatGateway, Object
<1>5. /\ made \in Ids /\ cloud[made].kind = "eip" /\ MissingNats
  BY <1>2, MadeFacts DEF Tidy, MadeFits
<1>6. OwnKinds(Current)' /\ AllKnown(Current)'
  BY <1>1, <1>2, <1>4, <1>5, ListedTidy
<1>7. Current' = work' /\ Current = work
  BY <1>2 DEF Current
<1>8. Kept /\ NewId \in Ids /\ cloud[NewId].kind = "none"
  BY <1>1, <1>2, CreatedKeeps
<1>9. OwnSlots(Current)'
  BY <1>2, <1>4, <1>7, <1>8, SlotsStay DEF Tidy
<1>10. Disjoint(Current)'
  BY <1>2, <1>4, <1>7, WorkDisjoint DEF Disjoint, ExistingSubnets
<1>11. Cardinality(work'.nats) <= Cardinality(work'.pub)
  <2>1. PICK n, S : n = NewId /\ S = work.nats
    OBVIOUS
  <2>2. n \in Ids \ S /\ S \in SUBSET Ids
    <3>1. n \notin Recorded(work)
      BY <1>8, <2>1, WorkFacts DEF Born
    <3> QED BY <1>8, <2>1, <3>1, WorkFacts DEF Recorded, Object
  <2>3. Cardinality(S \cup {n}) = Cardinality(S) + 1
    BY <2>2, OneMore
  <2>4. PICK p, q : p = Cardinality(work.pub) /\ q = Cardinality(work.nats)
    OBVIOUS
  <2>5. p \in Nat /\ q \in Nat /\ p # 0 /\ (q < p \/ q < 1)
    BY <1>1, <1>5, <2>4, WorkCounts DEF MissingNats, WantedNats
  <2> QED BY <1>4, <2>1, <2>3, <2>4, <2>5
<1>12. Filled(work, pc)'
  <2>1. Filled(work, pc)
    BY <1>2, WorkFilled
  <2> QED BY <1>2, <1>4, <1>11, <2>1
          DEF Filled, SubnetsDone, TablesDone, GroupsDone, ExistingSubnets, WantedPub, NeedsNAT
<1>13. InOrder' /\ Routing'
  BY <1>1, <1>2, <1>4, <1>7 DEF InOrder, Routing
<1>14. Current'.bastion = Current.bastion
  BY <1>4, <1>7
<1> QED BY <1>1, <1>2, <1>4, <1>6, <1>9, <1>10, <1>12, <1>13, <1>14, EnteredTidy

LEMMA CreateBastionSecurityGroupTidy ==
  ASSUME IInv, AllEarned, Apart, Tidy, Unhindered, CreateBastionSecurityGroup PROVE Tidy'
<1>1. pc = "CreatingBastionSecurityGroup"
  BY DEF CreateBastionSecurityGroup
<1>2. config.bastion /\ made = NoId /\ work.bsg = NoId
  BY <1>1 DEF IInv, AtPc, HalfMade, MayMake, OneToMake, Tidy, InOrder
<1>3. ~Clash("sg", 0, work.vpc)
  <2>1. PICK slot : slot = 0
    OBVIOUS
  <2>2. ~Clash("sg", slot, work.vpc)
    BY <1>1, <1>2, <2>1, NoGroupClash
  <2> QED BY <2>1, <2>2
<1>4. PICK u : cloud' = Created("sg", "available", 0, TRUE, u)
  BY <1>3 DEF CreateBastionSecurityGroup
<1>5. /\ UNCHANGED <<config, stack, workFresh, keys>> /\ Unused # {}
      /\ pc' = "write" /\ made' = NoId
      /\ work' = [work EXCEPT !.bsg = NewId, !.phase = "CreatingBastionInstance"]
  BY <1>3 DEF CreateBastionSecurityGroup, Save, Creation, kube
<1>6. /\ work'.vpc = work.vpc /\ work'.igw = work.igw
      /\ work'.pub = work.pub /\ work'.priv = work.priv
      /\ work'.nats = work.nats /\ work'.rts = work.rts /\ work'.sgs = work.sgs
      /\ work'.bsg = NewId /\ work'.bastion = work.bastion
  BY <1>5, WorkFacts DEF Object
<1>7. OwnKinds(Current)' /\ AllKnown(Current)'
  BY <1>1, <1>2, <1>4, <1>5, <1>6, ListedTidy
<1>8. Current' = work' /\ Current = work
  BY <1>1, <1>5 DEF Current
<1>9. /\ Kept /\ NewId \in Ids /\ cloud'[NewId].slot = 0
  <2>1. PICK r : r = [kind |-> "sg", state |-> "available", slot |-> 0, tagged |-> TRUE,
                      uses |-> u, assoc |-> {}]
    OBVIOUS
  <2>2. Kept /\ NewId \in Ids /\ cloud'[NewId] = r
    BY <1>4, <1>5, <2>1, CreatedKeeps
  <2>3. r.slot = 0
    BY <2>1
  <2> QED BY <2>2, <2>3
<1>10. OwnSlots(Current)'
  <2>1. \A i \in work.pub \cup work.priv \cup work.sgs : cloud'[i].slot = cloud[i].slot
    <3>1. \A i \in work.pub \cup work.priv \cup work.sgs : i \in Ids /\ i \in Recorded(work)
      BY WorkFacts DEF Recorded, Object
    <3> QED BY <1>9, <3>1, WorkFacts DEF Kept, Born
  <2>2. /\ \A i \in Own(work.pub) : cloud[i].slot \in 1 .. Cardinality(work.pub)
        /\ \A i \in Own(work.priv) :
             cloud[i].slot \in WantedPub + 1 .. WantedPub + Cardinality(work.priv)
        /\ \A i \in Own(work.sgs) : cloud[i].slot \in 1 .. Cardinality(work.sgs)
    BY <1>8 DEF Tidy, OwnSlots
  <2>3. WantedPub' = WantedPub
    BY <1>5 DEF WantedPub
  <2>4. /\ \A i \in Own(work'.pub) : cloud'[i].slot \in 1 .. Cardinality(work'.pub)
        /\ \A i \in Own(work'.priv) :
             cloud'[i].slot \in WantedPub + 1 .. WantedPub + Cardinality(work'.priv)
        /\ \A i \in Own(work'.sgs) : cloud'[i].slot \in 1 .. Cardinality(work'.sgs)
        /\ \A i \in Own({work'.bsg}) : cloud'[i].slot = 0
    BY <1>6, <1>9, <2>1, <2>2 DEF Own
  <2> QED BY <1>8, <2>3, <2>4 DEF OwnSlots, Own
<1>11. Disjoint(Current)'
  BY <1>1, <1>5, <1>6, <1>8, WorkDisjoint DEF Disjoint, ExistingSubnets
<1>12. Filled(work, "write")'
  BY <1>1, <1>5, <1>6, SavedStaysFilled DEF FillingPcs
<1>13. Current'.pub \cup Current'.priv = {} => Current'.nats = {} /\ Current'.rts = {}
  BY <1>6, <1>8 DEF Tidy, InOrder
<1>14. Current'.bastion = Current.bastion
  BY <1>6, <1>8
<1> QED BY <1>1, <1>5, <1>7, <1>10, <1>11, <1>12, <1>13, <1>14, SavedTidy

LEMMA RunInstanceTidy == ASSUME IInv, Apart, Tidy, RunInstance PROVE Tidy'
<1>1. pc = "RunInstance"
  BY DEF RunInstance
<1>2. made = NoId /\ work.bastion = NoId
  BY <1>1 DEF IInv, AtPc, HalfMade, MayMake, OneToMake
<1>3. PICK t, u : cloud' = Created("instance", "pending", 0, t, u)
  BY DEF RunInstance
<1>5. /\ UNCHANGED <<config, stack, workFresh, keys>> /\ Unused # {}
      /\ pc' = "write" /\ made' = NoId
      /\ work' = [work EXCEPT !.bastion = NewId, !.phase = "WaitingBastionInstance"]
  BY DEF RunInstance, Save, Creation, kube
<1>6. /\ work'.vpc = work.vpc /\ work'.igw = work.igw
      /\ work'.pub = work.pub /\ work'.priv = work.priv
      /\ work'.nats = work.nats /\ work'.rts = work.rts /\ work'.sgs = work.sgs
      /\ work'.bsg = work.bsg /\ work'.bastion = NewId
  BY <1>5, WorkFacts DEF Object
<1>7. OwnKinds(Current)' /\ AllKnown(Current)'
  BY <1>1, <1>2, <1>3, <1>5, <1>6, ListedTidy
<1>8. Current' = work' /\ Current = work
  BY <1>1, <1>5 DEF Current
<1>9. Kept
  BY <1>3, <1>5, CreatedKeeps
<1>10. OwnSlots(Current)'
  BY <1>5, <1>6, <1>8, <1>9, SlotsStay DEF Tidy
<1>11. Disjoint(Current)'
  BY <1>1, <1>5, <1>6, <1>8, WorkDisjoint DEF Disjoint, ExistingSubnets
<1>12. Filled(work, "write")'
  BY <1>1, <1>5, <1>6, SavedStaysFilled DEF FillingPcs
<1>13. Current'.pub \cup Current'.priv = {} => Current'.nats = {} /\ Current'.rts = {}
  BY <1>6, <1>8 DEF Tidy, InOrder
<1> QED BY <1>1, <1>5, <1>7, <1>10, <1>11, <1>12, <1>13, SavedTidy

-----------------------------------------------------------------------------
(* The route tables: each subnet goes into one.                            *)

LEMMA TablesAreApart ==
  ASSUME IInv, Apart, Tidy, Unhindered, pc = "CreatingRouteTables", made # NoId
  PROVE  Targets \cap Held(made) = {}
<1> SUFFICES ASSUME NEW s \in Targets, NEW r \in Ids, Live(r), cloud[r].kind = "rt",
                    r # made, s \in cloud[r].assoc
             PROVE  FALSE
  BY DEF Held, LiveOf
<1>1. config.exRts = {}
  BY DEF IInv, AtPc, HalfMade, MayMake
<1>2. Routing /\ MissingRts
  BY DEF Tidy, MadeFits
<1>3. PICK T : T = Served(work)
  OBVIOUS
<1>4. Targets = IF work.rts = {} THEN work.pub
                ELSE IF ~config.ha THEN work.priv
                ELSE IF work.priv \subseteq T THEN {}
                ELSE {Pick(work.priv \ T)}
  BY <1>3 DEF Targets, Served
<1>5. s \in work.pub \cup work.priv
  BY <1>4, PickIn
<1>6. CASE r \in Foreign
  <2>1. /\ cloud[r].kind = Preexisting[r].kind
        /\ cloud[r].assoc \subseteq Preexisting[r].assoc
    BY <1>6 DEF Apart, AsFound, SameKind
  <2>2. s \in Foreign
    BY <1>6, <2>1, PreexistingAssumption DEF Foreign
  <2>3. s \in ExistingSubnets
    BY <1>5, <2>2 DEF Apart, OnlyNamed
  <2>4. Preexisting[r].kind = "rt" /\ s \in Preexisting[r].assoc
    BY <2>1
  <2> QED BY <1>1, <1>6, <2>3, <2>4 DEF Unhindered
<1>7. CASE r \notin Foreign
  <2>1. r \in work.rts
    BY <1>7, WhereOwnIs
  <2>2. s \in T
    BY <1>3, <2>1 DEF Served
  <2>3. CASE config.ha
    <3>1. s = Pick(work.priv \ T) /\ ~(work.priv \subseteq T)
      BY <1>4, <2>1, <2>3
    <3> QED BY <2>2, <3>1, PickIn
  <2>4. CASE ~config.ha
    <3>1. s \in work.priv
      BY <1>4, <2>1, <2>4
    <3>2. routed # {}
      BY <1>1, <1>2, <1>3, <2>1, <2>2, <3>1 DEF Routing
    <3>3. work.nats \ routed = {}
      BY <1>1, <1>2, <2>4, <3>2 DEF Routing
    <3> QED BY <1>2, <2>1, <3>3 DEF MissingRts, Unrouted
  <2> QED BY <2>3, <2>4
<1> QED BY <1>6, <1>7

LEMMA NoTableFails ==
  ASSUME IInv, Apart, Tidy, Calm, Calm' PROVE ~RouteTableFails
<1> SUFFICES ASSUME RouteTableFails PROVE FALSE
  OBVIOUS
<1>1. Targets \cap Held(made) = {}
  BY TablesAreApart DEF RouteTableFails, Calm, Undisturbed
<1>2. Fault
  BY <1>1 DEF RouteTableFails
<1> QED BY <1>2 DEF Fault, Calm, Undisturbed

LEMMA RecordRouteTableTidy ==
  ASSUME IInv, AllEarned, Apart, Tidy, Unhindered, RecordRouteTable PROVE Tidy'
<1>1. /\ UNCHANGED <<config, stack, workFresh, keys>>
      /\ pc = "CreatingRouteTables" /\ pc' = pc /\ made # NoId /\ made' = NoId
      /\ MissingRts
  BY DEF RecordRouteTable, Creation, kube
<1>2. config.exRts = {}
  BY <1>1 DEF IInv, AtPc, HalfMade, MayMake
<1>3. /\ made \in Ids /\ made \notin Recorded(work) /\ cloud[made].kind = "rt"
      /\ cloud[made].tagged /\ cloud[made].assoc = {}
  BY <1>1, MadeFacts DEF Tidy, MadeFits
<1>4. PICK T : T = Targets
  OBVIOUS
<1>5. /\ cloud' = [cloud EXCEPT ![made] = [cloud[made] EXCEPT !.assoc = @ \cup T]]
      /\ work' = IF work.rts # {} /\ T = {} THEN work
                 ELSE [work EXCEPT !.rts = @ \cup {made}]
      /\ routed' = IF work.rts = {} THEN routed
                   ELSE IF config.ha THEN routed \cup {Pick(Unrouted)}
                   ELSE work.nats
  BY <1>4 DEF RecordRouteTable, Associated
<1>6. /\ work'.vpc = work.vpc /\ work'.igw = work.igw
      /\ work'.pub = work.pub /\ work'.priv = work.priv
      /\ work'.nats = work.nats
      /\ work'.rts = IF work.rts # {} /\ T = {} THEN work.rts ELSE work.rts \cup {made}
      /\ work'.sgs = work.sgs /\ work'.bsg = work.bsg /\ work'.bastion = work.bastion
  BY <1>5, WorkFacts DEF Object
<1>7. /\ cloud'[made].assoc = T /\ cloud'[made].kind = "rt" /\ cloud'[made].tagged
      /\ \A i \in Ids \ {made} : cloud'[i] = cloud[i]
      /\ Kept /\ \A i \in Ids : cloud[i].kind = "none" => cloud'[i].kind = "none"
  <2>1. cloud \in [Ids -> Resource]
    BY DEF IInv, TypeOK
  <2>2. PICK n : n = made
    OBVIOUS
  <2>3. cloud' = [cloud EXCEPT ![n] = [cloud[n] EXCEPT !.assoc = @ \cup T]]
    BY <1>5, <2>2
  <2>4. /\ cloud'[n].assoc = T /\ cloud'[n].kind = cloud[n].kind
        /\ cloud'[n].tagged = cloud[n].tagged /\ cloud'[n].slot = cloud[n].slot
        /\ \A i \in Ids \ {n} : cloud'[i] = cloud[i]
    BY <1>3, <2>1, <2>2, <2>3 DEF Resource
  <2>5. cloud[n].kind = "rt" /\ cloud[n].tagged
    BY <1>3, <2>2
  <2>6. Kept
    BY <2>2, <2>4 DEF Kept
  <2>7. \A i \in Ids : cloud[i].kind = "none" => cloud'[i].kind = "none"
    BY <2>4, <2>5
  <2> QED BY <2>2, <2>4, <2>5, <2>6, <2>7
<1>8. Current' = work' /\ Current = work
  BY <1>1 DEF Current
<1>9. OwnKinds(Current)' /\ AllKnown(Current)'
  <2>1. PICK o, q, n : o = work /\ o \in Object /\ q = work' /\ n = made
    BY WorkFacts
  <2>2. Current' = q /\ Current = o
    BY <1>8, <2>1
  <2>3. OwnKinds(Current)'
    <3>1. /\ More({q.vpc}, {o.vpc}, "vpc") /\ More({q.igw}, {o.igw}, "igw")
          /\ More(q.pub \cup q.priv, o.pub \cup o.priv, "subnet")
          /\ More(q.nats, o.nats, "nat") /\ More(q.rts, o.rts, "rt")
          /\ More(q.sgs \cup {q.bsg}, o.sgs \cup {o.bsg}, "sg")
          /\ More({q.bastion}, {o.bastion}, "instance")
      BY <1>3, <1>6, <1>7, <2>1 DEF More, Own
    <3>2. OwnKinds(Current)
      BY DEF Tidy
    <3> QED BY <1>7, <2>2, <3>1, <3>2, KindsGrow
  <2>4. AllKnown(Current)'
    <3>1. \A i \in Ids : i \in Recorded(o) => i \in Recorded(q)
      BY <1>6, <2>1 DEF Recorded
    <3>2. n \in Recorded(q) \/ (cloud'[n].kind = "rt" /\ cloud'[n].tagged /\ cloud'[n].assoc = {})
      BY <1>1, <1>6, <1>7, <2>1 DEF Recorded
    <3>3. /\ \A i \in Ids \ Foreign :
               i \in Recorded(Current) \cup {made} =>
                 \/ i \in Recorded(Current') \cup {made'}
                 \/ \E m \in Current'.nats : i \in EipOf(m)'
                 \/ cloud'[i].kind = "rt" /\ cloud'[i].tagged /\ cloud'[i].assoc = {}
      BY <2>1, <2>2, <3>1, <3>2
    <3>4. /\ \A i \in Ids \ Foreign :
               cloud[i].kind = "none" /\ cloud'[i].kind # "none" =>
                 i \in Recorded(Current') \cup {made'}
          /\ Current.nats \subseteq Current'.nats
      BY <1>6, <1>7, <2>1, <2>2
    <3>5. AllKnown(Current)
      BY DEF Tidy
    <3> QED BY <1>7, <3>3, <3>4, <3>5, MadeIsNew, KnownGrows
  <2> QED BY <2>3, <2>4
<1>10. OwnSlots(Current)'
  BY <1>1, <1>6, <1>7, <1>8, SlotsStay DEF Tidy
<1>11. Disjoint(Current)'
  BY <1>1, <1>6, <1>8, WorkDisjoint DEF Disjoint, ExistingSubnets
<1>12. Filled(work, pc)'
  <2>1. Filled(work, pc)
    BY <1>1, WorkFilled
  <2> QED BY <1>1, <1>6, <2>1
          DEF Filled, SubnetsDone, NatsDone, GroupsDone, ExistingSubnets, WantedPub, NeedsNAT
<1>13. InOrder'
  <2>1. work.pub \cup work.priv # {}
    BY <1>1 DEF AllEarned, PhasesBehind, HasNetwork
  <2> QED BY <1>1, <1>6, <1>8, <2>1 DEF InOrder
<1>14. Routing'
  <2>1. /\ work.rts = {} => routed = {}
        /\ work.rts # {} /\ routed = {} => Served(work) \cap work.priv = {}
        /\ routed # {} => Cardinality(work.rts) > 1
        /\ routed # {} /\ ~config.ha => work.nats \subseteq routed
    BY <1>1, <1>2 DEF Tidy, Routing
  <2>2. PICK o, q, n : o = work /\ o \in Object /\ q = work' /\ n = made
    BY WorkFacts
  <2>3. n \notin o.rts /\ o.rts \in SUBSET Ids /\ n \in Ids
    BY <1>3, <2>2 DEF Recorded, Object
  <2>4. Cardinality(o.rts \cup {n}) = Cardinality(o.rts) + 1
    BY <2>3, OneMore
  <2>5. Cardinality(o.rts) \in Nat /\ (Cardinality(o.rts) = 0 <=> o.rts = {})
    BY <2>3, Countable, NoneIsEmpty
  <2>6. CASE work.rts = {}
    <3>1. routed' = {} /\ work'.rts = {made} /\ T = work.pub
      BY <1>4, <1>5, <1>6, <2>1, <2>6 DEF Targets
    <3>2. Served(work)' = work.pub
      BY <1>7, <3>1 DEF Served
    <3>3. work.pub \cap work.priv = {}
      <4>1. Disjoint(work)
        BY <1>1, WorkDisjoint
      <4>2. ExistingSubnets # {} => config.exPub \cap config.exPriv = {}
        BY <1>2 DEF Unhindered
      <4> QED BY <4>1, <4>2 DEF Disjoint
    <3> QED BY <1>1, <1>6, <3>1, <3>2, <3>3 DEF Routing
  <2>7. CASE work.rts # {}
    <3>1. Unrouted # {} /\ work.priv # {} /\ work.nats # {}
      BY <1>1, <2>7 DEF MissingRts, Unrouted
    <3>2. routed' # {} /\ (~config.ha => work.nats \subseteq routed')
      BY <1>5, <2>7, <3>1
    <3>3. Cardinality(work'.rts) > 1
      <4>1. CASE routed # {}
        <5>1. Cardinality(o.rts) > 1
          BY <2>1, <2>2, <4>1
        <5>2. q.rts = o.rts \/ q.rts = o.rts \cup {n}
          BY <1>6, <2>2
        <5>3. PICK k : k = Cardinality(o.rts)
          OBVIOUS
        <5>4. Cardinality(q.rts) \in {k, k + 1}
          BY <2>4, <5>2, <5>3
        <5>5. k \in Nat /\ k > 1
          BY <2>5, <5>1, <5>3
        <5>6. Cardinality(q.rts) > 1
          BY <5>4, <5>5
        <5> QED BY <2>2, <5>6
      <4>2. CASE routed = {}
        <5>1. Served(work) \cap work.priv = {}
          BY <2>1, <2>7, <4>2
        <5>2. T # {}
          <6>1. PICK S : S = Served(work)
            OBVIOUS
          <6>2. T = IF ~config.ha THEN work.priv
                    ELSE IF work.priv \subseteq S THEN {}
                    ELSE {Pick(work.priv \ S)}
            BY <1>4, <2>7, <6>1 DEF Targets, Served
          <6>3. ~(work.priv \subseteq S)
            BY <3>1, <5>1, <6>1
          <6> QED BY <3>1, <6>2, <6>3
        <5>3. q.rts = o.rts \cup {n} /\ o.rts # {}
          BY <1>6, <2>2, <2>7, <5>2
        <5> QED BY <2>2, <2>4, <2>5, <5>3
      <4> QED BY <4>1, <4>2
    <3>4. work'.rts # {} /\ work'.nats = work.nats /\ config'.ha = config.ha
      BY <1>1, <1>6, <2>7
    <3> QED BY <3>2, <3>3, <3>4 DEF Routing
  <2> QED BY <2>6, <2>7
<1>15. Current'.bastion = Current.bastion
  BY <1>6, <1>8
<1> QED BY <1>1, <1>9, <1>10, <1>11, <1>12, <1>13, <1>14, <1>15, EnteredTidy

-----------------------------------------------------------------------------
(* The bastion's key.                                                      *)

(* Nothing moves but the point of the reconcile and the key.               *)
LEMMA KeyTidy ==
  ASSUME IInv, Tidy, pc \in {"CreatingBastionInstance", "StoreKey"},
         pc' \in {"StoreKey", "RunInstance"},
         UNCHANGED <<cloud, config, stack, work, workFresh, made, routed>>,
         KeyIsKept'
  PROVE  Tidy'
<1>1. Current' = Current /\ Current = work
  BY DEF Current
<1>2. made = NoId
  BY DEF IInv, AtPc, HalfMade, MayMake
<1>3. OwnKinds(Current)' /\ OwnSlots(Current)' /\ AllKnown(Current)' /\ Disjoint(Current)'
  BY <1>1, <1>2, SameIsStill, MadeIsNew, ListsStay DEF Tidy, SameLists
<1>4. Filled(stack, "idle")' 
  BY StackStays
<1>5. Filled(Current, pc)'
  <2>1. Filled(work, pc)
    BY WorkFilled
  <2> QED BY <1>1, <2>1 DEF Filled, SubnetsDone, NatsDone, TablesDone, GroupsDone,
                            ExistingSubnets, WantedPub, NeedsNAT
<1>6. MadeFits' /\ InOrder' /\ Routing' /\ EmptyHanded'
  BY <1>1, <1>2 DEF Tidy, MadeFits, InOrder, Routing, EmptyHanded
<1>7. pc' # "idle" => workFresh'
  BY DEF Tidy
<1> QED BY <1>3, <1>4, <1>5, <1>6, <1>7 DEF Tidy

LEMMA PrepareBastionTidy == ASSUME IInv, Tidy, PrepareBastion PROVE Tidy'
<1>1. pc = "CreatingBastionInstance"
  BY DEF PrepareBastion
<1>2. CASE work.pub = {}
  <2>1. made = NoId
    BY <1>1 DEF IInv, AtPc, HalfMade, MayMake
  <2>2. /\ UNCHANGED <<cloud, config, stack, workFresh, keys>>
        /\ pc' = "write" /\ made' = NoId
        /\ work' = [work EXCEPT !.phase = "Failed", !.ready = FALSE]
    BY <1>2 DEF PrepareBastion, Abort, Save, kube, keys
  <2>3. /\ work'.vpc = work.vpc /\ work'.igw = work.igw /\ work'.pub = work.pub
        /\ work'.priv = work.priv /\ work'.nats = work.nats /\ work'.rts = work.rts
        /\ work'.sgs = work.sgs /\ work'.bsg = work.bsg /\ work'.bastion = work.bastion
    BY <2>2, WorkFacts DEF Object
  <2>4. Filled(work, "write")'
    BY <1>1, <2>2, <2>3, SavedStaysFilled DEF FillingPcs
  <2> QED BY <1>1, <2>1, <2>2, <2>3, <2>4, SameSavedTidy
<1>3. CASE work.pub # {}
  <2>1. /\ pc' = IF config.ownKey \/ keypair THEN "RunInstance" ELSE "StoreKey"
        /\ keypair' = (keypair \/ ~config.ownKey)
        /\ UNCHANGED <<cloud, config, stack, work, workFresh, made, routed, secret>>
    BY <1>3 DEF PrepareBastion, kube
  <2>2. keypair => secret
    BY <1>1 DEF Tidy, KeyIsKept
  <2>3. Current' = Current
    BY <1>1, <2>1 DEF Current
  <2>4. KeyIsKept
    BY DEF Tidy
  <2>5. ~config.ownKey => keypair' /\ (pc' = "RunInstance" => secret')
    BY <2>1, <2>2 DEF IInv, TypeOK
  <2>6. keypair' => secret' \/ pc' = "StoreKey"
    BY <2>1, <2>2 DEF IInv, TypeOK
  <2>7. KeyIsKept'
    BY <2>1, <2>3, <2>4, <2>5, <2>6 DEF KeyIsKept
  <2> QED BY <1>1, <2>1, <2>7, KeyTidy
<1> QED BY <1>2, <1>3

LEMMA StoreKeyTidy == ASSUME IInv, Tidy, StoreKey PROVE Tidy'
<1>1. /\ pc = "StoreKey" /\ pc' = "RunInstance" /\ secret' = TRUE
      /\ UNCHANGED <<cloud, config, stack, work, workFresh, made, routed>>
  BY DEF StoreKey, kube
<1>2. KeyIsKept'
  BY <1>1 DEF KeyIsKept
<1> QED BY <1>1, <1>2, KeyTidy

-----------------------------------------------------------------------------
(* A reconcile begins, and ends.                                           *)

(* What a phase says of the subnets and what they hold.                    *)
LEMMA PhaseOrder ==
  ASSUME NEW o \in Object, NEW p \in CreationPhases, p = DetermineCurrentPhase(o)
  PROVE  /\ p = "CreatingSubnets" => o.pub \cup o.priv = {}
         /\ p = "CreatingNATGateway" => o.pub \cup o.priv # {}
         /\ p = "CreatingRouteTables" => o.rts = {}
         /\ p = "CreatingBastionSecurityGroup" => config.bastion
<1>1. ASSUME p = "CreatingSubnets" PROVE o.pub \cup o.priv = {}
  BY <1>1 DEF DetermineCurrentPhase
<1>2. ASSUME p = "CreatingNATGateway" PROVE o.pub \cup o.priv # {}
  BY <1>2 DEF DetermineCurrentPhase
<1>3. ASSUME p = "CreatingRouteTables" PROVE o.rts = {}
  BY <1>3 DEF DetermineCurrentPhase
<1>4. ASSUME p = "CreatingBastionSecurityGroup" PROVE config.bastion
  BY <1>4 DEF DetermineCurrentPhase
<1> QED BY <1>1, <1>2, <1>3, <1>4

LEMMA ResumeTidy ==
  ASSUME IInv, Tidy, pc \in {"idle", "addFinalizer"}, workFresh',
         UNCHANGED <<cloud, config, keys>>, NEW o \in Object, Resume(o), stack' = o,
         Provenance(o), o.phase # "Deleting",
         o.vpc = Current.vpc, o.igw = Current.igw, o.pub = Current.pub,
         o.priv = Current.priv, o.nats = Current.nats, o.rts = Current.rts,
         o.sgs = Current.sgs, o.bsg = Current.bsg, o.bastion = Current.bastion
  PROVE  Tidy'
<1>1. PICK p \in CreationPhases \cup {"Pending"} :
        /\ work' = [o EXCEPT !.phase = p]
        /\ pc' = "write" \/ (pc' = p /\ p = DetermineCurrentPhase(o) /\ p \in CreationPhases)
  <2>1. CASE pc' = "write" /\ work' = [o EXCEPT !.phase = "Pending"]
    BY <2>1
  <2>2. CASE /\ DetermineCurrentPhase(o) \notin {"Failed", "Ready"}
             /\ pc' = DetermineCurrentPhase(o)
             /\ work' = [o EXCEPT !.phase = DetermineCurrentPhase(o)]
    BY <2>2, PhaseIsAPhase
  <2> QED BY <2>1, <2>2 DEF Resume
<1>2. made' = NoId /\ routed' = {}
  BY DEF Resume
<1>3. made = NoId
  BY DEF IInv, AtPc, HalfMade, MayMake
<1>4. /\ work'.vpc = o.vpc /\ work'.igw = o.igw /\ work'.pub = o.pub
      /\ work'.priv = o.priv /\ work'.nats = o.nats /\ work'.rts = o.rts
      /\ work'.sgs = o.sgs /\ work'.bsg = o.bsg /\ work'.bastion = o.bastion
      /\ work'.phase = p
  BY <1>1 DEF Object
<1>5. pc' # "idle" /\ pc' \notin {"StoreKey", "RunInstance"}
  BY <1>1 DEF CreationPhases
<1>6. Current' = work' /\ SameLists
  BY <1>4, <1>5 DEF Current, SameLists
<1>7. OwnKinds(Current)' /\ OwnSlots(Current)' /\ AllKnown(Current)' /\ Disjoint(Current)'
  BY <1>2, <1>3, <1>6, SameIsStill, MadeIsNew, ListsStay DEF Tidy
<1>8. Filled(stack, "idle")' /\ Filled(Current, pc)'
  <2>1. PICK c, q, r : c = Current /\ q = work' /\ r = pc /\ Filled(c, r)
    BY DEF Tidy
  <2>2. /\ q.pub = c.pub /\ q.priv = c.priv /\ q.nats = c.nats /\ q.rts = c.rts
        /\ q.sgs = c.sgs
        /\ o.pub = c.pub /\ o.priv = c.priv /\ o.nats = c.nats /\ o.rts = c.rts
        /\ o.sgs = c.sgs
    BY <1>4, <2>1
  <2>3. PICK l : l = pc'
    OBVIOUS
  <2>4. Filled(o, "idle")' /\ Filled(q, l)'
    BY <2>1, <2>2, FilledStays
  <2>5. Filled(stack, "idle")'
    BY <2>4 DEF Filled, SubnetsDone, NatsDone, TablesDone, GroupsDone
  <2>6. Filled(Current, pc)'
    BY <1>6, <2>1, <2>3, <2>4 DEF Filled, SubnetsDone, NatsDone, TablesDone, GroupsDone
  <2> QED BY <2>5, <2>6
<1>9. MadeFits'
  BY <1>2 DEF MadeFits
<1>10. pc' \in CreationPhases =>
         /\ pc' = "CreatingSubnets" => o.pub \cup o.priv = {}
         /\ pc' = "CreatingNATGateway" => o.pub \cup o.priv # {}
         /\ pc' = "CreatingRouteTables" => o.rts = {}
         /\ pc' = "CreatingBastionSecurityGroup" => config.bastion
  <2>1. CASE pc' = "write"
    BY <2>1
  <2>2. CASE pc' = p /\ p = DetermineCurrentPhase(o) /\ p \in CreationPhases
    BY <2>2, PhaseOrder
  <2> QED BY <1>1, <2>1, <2>2
<1>11. InOrder'
  <2>1. o.pub \cup o.priv = {} => o.nats = {} /\ o.rts = {}
    BY DEF Tidy, InOrder
  <2> QED BY <1>1, <1>4, <1>6, <1>10, <2>1 DEF InOrder, CreationPhases
<1>12. Routing'
  BY <1>1, <1>2, <1>4, <1>10 DEF Routing, CreationPhases
<1>13. KeyIsKept'
  <2>1. KeyIsKept
    BY DEF Tidy
  <2> QED BY <1>4, <1>5, <1>6, <2>1 DEF KeyIsKept, keys
<1>14. EmptyHanded'
  <2>1. work' = [stack' EXCEPT !.phase = p] /\ p = work'.phase
    BY <1>1, <1>4
  <2> QED BY <1>2, <2>1 DEF EmptyHanded
<1> QED BY <1>7, <1>8, <1>9, <1>11, <1>12, <1>13, <1>14 DEF Tidy

(* The copies a calm reconcile works with are of a standing object.        *)
LEMMA NotDeleting ==
  ASSUME IInv, Calm, Tidy
  PROVE  /\ stack.phase # "Deleting" /\ ~stack.deleting
         /\ pc # "idle" => work.phase # "Deleting" /\ ~work.deleting
BY DEF IInv, Marked, InFlight, Calm, Tidy

LEMMA BeginTidy == ASSUME IInv, Tidy, Calm, Begin, cacheFresh, cache = stack PROVE Tidy'
<1>1. /\ pc = "idle" /\ workFresh' /\ ~cache.deleting
      /\ UNCHANGED <<cloud, config, stack, keys>>
  BY NotDeleting DEF Begin, kube
<1>2. stack \in Object /\ Provenance(stack) /\ stack.phase # "Deleting"
  BY CopiesFacts, NotDeleting
<1>3. Current = stack /\ made = NoId
  BY <1>1 DEF Current, IInv, AtPc, HalfMade, MayMake
<1>4. CASE Resume(cache)
  <2>1. PICK o \in Object : o = stack
    BY <1>2
  <2> QED BY <1>1, <1>2, <1>3, <1>4, <2>1, ResumeTidy
<1>5. CASE pc' = "addFinalizer" /\ work' = cache /\ UNCHANGED <<made, routed>>
  <2>1. Current' = stack
    BY <1>5 DEF Current
  <2>2. SameLists
    BY <1>3, <2>1 DEF SameLists
  <2>3. OwnKinds(Current)' /\ OwnSlots(Current)' /\ AllKnown(Current)' /\ Disjoint(Current)'
    BY <1>1, <1>5, <2>2, SameIsStill, MadeIsNew, ListsStay DEF Tidy
  <2>4. Filled(stack, "idle")'
    BY <1>1, StackStays
  <2>5. Filled(Current, pc)'
    BY <1>1, <1>5, <2>1, <2>4 DEF Filled, SubnetsDone, NatsDone, TablesDone, GroupsDone
  <2>6. MadeFits' /\ Routing' /\ EmptyHanded'
    BY <1>3, <1>5 DEF MadeFits, Routing, EmptyHanded
  <2>7. InOrder' /\ KeyIsKept'
    BY <1>1, <1>3, <1>5, <2>1 DEF Tidy, InOrder, KeyIsKept, keys
  <2> QED BY <1>1, <2>3, <2>4, <2>5, <2>6, <2>7 DEF Tidy
<1> QED BY <1>1, <1>4, <1>5 DEF Begin

LEMMA AddFinalizerTidy == ASSUME IInv, Tidy, Calm, AddFinalizer PROVE Tidy'
<1>1. PICK o : o = [work EXCEPT !.finalizer = TRUE]
  OBVIOUS
<1>2. /\ pc = "addFinalizer" /\ workFresh /\ workFresh' = workFresh
      /\ UNCHANGED <<cloud, config, keys>>
      /\ stack' = o /\ Resume(o)
  BY <1>1 DEF AddFinalizer
<1>3. /\ o \in Object /\ o.phase = work.phase
      /\ o.vpc = work.vpc /\ o.igw = work.igw /\ o.pub = work.pub
      /\ o.priv = work.priv /\ o.nats = work.nats /\ o.rts = work.rts
      /\ o.sgs = work.sgs /\ o.bsg = work.bsg /\ o.bastion = work.bastion
  BY <1>1, WorkFacts DEF Object
<1>4. Current = work
  BY <1>2 DEF Current
<1>5. Provenance(o)
  BY <1>3, WorkFacts DEF Provenance
<1>6. o.phase # "Deleting"
  BY <1>2, <1>3, NotDeleting
<1> QED BY <1>2, <1>3, <1>4, <1>5, <1>6, ResumeTidy

(* A write, or a panic with nothing in hand: the object says it all.       *)
LEMMA ReturnTidy ==
  ASSUME IInv, Tidy, pc # "StoreKey", made = NoId, Return,
         UNCHANGED <<cloud, config, keys>>,
         Filled(stack, "idle")',
         stack'.vpc = work.vpc, stack'.igw = work.igw, stack'.pub = work.pub,
         stack'.priv = work.priv, stack'.nats = work.nats, stack'.rts = work.rts,
         stack'.sgs = work.sgs, stack'.bsg = work.bsg, stack'.bastion = work.bastion,
         pc # "idle"
  PROVE  Tidy'
<1>1. pc' = "idle" /\ made' = NoId
  BY DEF Return
<1>2. Current' = stack' /\ Current = work
  BY <1>1 DEF Current
<1>3. SameLists
  BY <1>2 DEF SameLists
<1>4. OwnKinds(Current)' /\ OwnSlots(Current)' /\ AllKnown(Current)' /\ Disjoint(Current)'
  BY <1>1, <1>3, SameIsStill, MadeIsNew, ListsStay DEF Tidy
<1>5. Filled(Current, pc)'
  BY <1>1, <1>2 DEF Filled, SubnetsDone, NatsDone, TablesDone, GroupsDone
<1>6. MadeFits' /\ Routing' /\ EmptyHanded'
  BY <1>1 DEF MadeFits, Routing, EmptyHanded
<1>7. InOrder' /\ KeyIsKept'
  BY <1>1, <1>2 DEF Tidy, InOrder, KeyIsKept, keys
<1>8. pc' # "idle" => workFresh'
  BY <1>1
<1> QED BY <1>4, <1>5, <1>6, <1>7, <1>8 DEF Tidy

LEMMA WriteStatusTidy == ASSUME IInv, Tidy, WriteStatus PROVE Tidy'
<1>1. /\ pc = "write" /\ stack' = work /\ Return /\ UNCHANGED <<cloud, config, keys>>
  BY DEF WriteStatus
<1>2. made = NoId
  BY <1>1 DEF IInv, AtPc, HalfMade, MayMake
<1>3. Filled(stack, "idle")'
  <2>1. Filled(work, pc)
    BY <1>1, WorkFilled
  <2> QED BY <1>1, <2>1 DEF Filled, SubnetsDone, NatsDone, TablesDone, GroupsDone,
                            ExistingSubnets, WantedPub, NeedsNAT
<1> QED BY <1>1, <1>2, <1>3, ReturnTidy

LEMMA PanicTidy == ASSUME IInv, Tidy, NoPublicSubnetPanic PROVE Tidy'
<1>1. /\ pc = "CreatingNATGateway" /\ work.pub = {} /\ Return
      /\ UNCHANGED <<cloud, config, stack, keys>>
  BY DEF NoPublicSubnetPanic
<1>2. PICK p : made = NoId /\ work = [stack EXCEPT !.phase = p]
  BY <1>1 DEF Tidy, EmptyHanded
<1>3. /\ stack.vpc = work.vpc /\ stack.igw = work.igw /\ stack.pub = work.pub
      /\ stack.priv = work.priv /\ stack.nats = work.nats /\ stack.rts = work.rts
      /\ stack.sgs = work.sgs /\ stack.bsg = work.bsg /\ stack.bastion = work.bastion
  BY <1>2, CopiesFacts DEF Object
<1>4. Filled(stack, "idle")'
  BY <1>1, StackStays
<1> QED BY <1>1, <1>2, <1>3, <1>4, ReturnTidy

-----------------------------------------------------------------------------
(* Every step of a calm stack leaves it tidy.                              *)

LEMMA CreateStepTidy ==
  ASSUME IInv, AllEarned, Apart, Tidy, Calm, Calm', [Next]_vars, CreateStep PROVE Tidy'
<1>1. ~CreateCallFails /\ ~QuotaExceeded /\ ~RouteTableFails /\ Unhindered
  BY CalmSteps, NoTableFails DEF Calm, Undisturbed
<1> QED
  BY <1>1, ChecksTidy, SubnetsCreatedTidy, NatsCreatedTidy, SecurityGroupsCreatedTidy,
     RouteTablesCreatedTidy, UseExistingVpcTidy, UseExistingIgwTidy, UseExistingSubnetsTidy,
     UseExistingNatsTidy, UseExistingRouteTablesTidy, UseExistingSecurityGroupsTidy,
     CallsTidy, CreateSubnetTidy, CreateSecurityGroupTidy, ModifyVpcTidy,
     AttachInternetGatewayTidy, RecordSubnetTidy, AuthorizeIngressTidy,
     CreateNatGatewayTidy, CreateBastionSecurityGroupTidy, RunInstanceTidy,
     RecordRouteTableTidy, PrepareBastionTidy, StoreKeyTidy, PanicTidy
  DEF CreateStep

LEMMA TidyStays ==
  ASSUME IInv, AllEarned, Apart, Tidy, Calm, Calm', [Next]_vars PROVE Tidy'
<1>1. /\ ~DeleteStep /\ ~RequestDelete /\ ~WriteLost /\ ~Crash
      /\ Begin => cacheFresh /\ cache = stack
  BY CalmSteps
<1> QED BY <1>1, CreateStepTidy, BeginTidy, AddFinalizerTidy, WriteStatusTidy, EnvironmentTidy
        DEF Next, Reconcile

LEMMA TidyAtFirst == Init => Tidy
<1> SUFFICES ASSUME Init PROVE Tidy
  OBVIOUS
<1>1. /\ pc = "idle" /\ Current = stack /\ made = NoId /\ ~keypair
      /\ stack = [NoObject EXCEPT !.exists = TRUE]
  BY DEF Init, Current
<1>2. /\ stack.vpc = NoId /\ stack.igw = NoId /\ stack.pub = {} /\ stack.priv = {}
      /\ stack.nats = {} /\ stack.rts = {} /\ stack.sgs = {} /\ stack.bsg = NoId
      /\ stack.bastion = NoId
  BY <1>1 DEF NoObject
<1>3. \A i \in Ids \ Foreign : cloud[i].kind = "none"
  BY DEF Init, CloudInit, Unborn
<1>4. OwnKinds(Current) /\ OwnSlots(Current)
  BY <1>1, <1>2 DEF OwnKinds, OwnSlots, Own
<1>5. AllKnown(Current) /\ Disjoint(Current)
  BY <1>1, <1>2, <1>3 DEF AllKnown, Disjoint
<1>6. Filled(stack, "idle") /\ Filled(Current, pc)
  BY <1>1, <1>2 DEF Filled
<1>7. MadeFits /\ InOrder /\ Routing /\ KeyIsKept /\ EmptyHanded
  BY <1>1, <1>2 DEF MadeFits, InOrder, Routing, KeyIsKept, EmptyHanded
<1> QED BY <1>1, <1>4, <1>5, <1>6, <1>7 DEF Tidy

LEMMA AlwaysTidy == Spec => []TidyWhenCalm
<1>1. IInv /\ AllEarned /\ Apart /\ TidyWhenCalm /\ [Next]_vars => TidyWhenCalm'
  BY CalmBefore, TidyStays DEF TidyWhenCalm
<1>2. Init => TidyWhenCalm
  BY TidyAtFirst DEF TidyWhenCalm
<1> QED BY <1>1, <1>2, Invariant, AlwaysEarned, AlwaysApart, PTL DEF Spec

-----------------------------------------------------------------------------
(* Ready is said of a copy whose phase is Ready.                           *)

LEMMA NoObjectIsUnready == ~NoObject.ready
BY DEF NoObject

LEMMA CreationSaysReady ==
  ASSUME IInv, AllEarned, ReadyIsSaid, CreateStep
  PROVE  work'.ready => work'.phase = "Ready"
<1>1. work \in Object
  BY WorkFacts
<1>2. pc \in CreatingPcs
  BY DEF CreateStep, CreatingPcs, CreationPhases, UseExistingVpc, CreateVpc, ModifyVpc,
         CheckVPCReady, UseExistingIgw, CreateInternetGateway, AttachInternetGateway,
         UseExistingSubnets, CreateSubnet, RecordSubnet, SubnetsCreated, CheckSubnetsReady,
         UseExistingNats, AllocateAddress, NoPublicSubnetPanic, CreateNatGateway,
         NatsCreated, CheckNATGatewaysReady, UseExistingRouteTables, CreateRouteTable,
         RecordRouteTable, RouteTableFails, RouteTablesCreated, UseExistingSecurityGroups,
         CreateSecurityGroup, AuthorizeIngress, SecurityGroupsCreated,
         CreateBastionSecurityGroup, PrepareBastion, StoreKey, RunInstance,
         CheckBastionReady, QuotaExceeded, CreateCallFails
<1>3. ~work.ready
  BY <1>2 DEF AllEarned, PhasesBehind, ReadyIsSaid
<1>4. ASSUME Abort PROVE ~work'.ready
  BY <1>1, <1>4 DEF Abort, Save, Object
<1>5. CASE \/ UseExistingVpc \/ ModifyVpc \/ UseExistingIgw \/ UseExistingSubnets
           \/ RecordSubnet \/ SubnetsCreated \/ UseExistingNats \/ CreateNatGateway
           \/ NatsCreated \/ AuthorizeIngress \/ RunInstance
  BY <1>1, <1>3, <1>5
  DEF UseExistingVpc, ModifyVpc, UseExistingIgw, UseExistingSubnets, RecordSubnet,
      SubnetsCreated, UseExistingNats, CreateNatGateway, NatsCreated, AuthorizeIngress,
      RunInstance, Save, Object
<1>6. CASE \/ AttachInternetGateway \/ CreateSubnet \/ RecordRouteTable \/ RouteTableFails
           \/ CreateSecurityGroup \/ CreateBastionSecurityGroup \/ PrepareBastion
           \/ QuotaExceeded \/ CreateCallFails
  BY <1>1, <1>3, <1>4, <1>6
  DEF AttachInternetGateway, CreateSubnet, RecordRouteTable, RouteTableFails,
      CreateSecurityGroup, CreateBastionSecurityGroup, PrepareBastion, QuotaExceeded,
      CreateCallFails, Save, Object
<1>7. CASE \/ CreateVpc \/ CreateInternetGateway \/ AllocateAddress \/ CreateRouteTable
           \/ StoreKey \/ NoPublicSubnetPanic
  <2>1. work' \in {work, NoObject}
    BY <1>7 DEF CreateVpc, CreateInternetGateway, AllocateAddress, CreateRouteTable,
                StoreKey, NoPublicSubnetPanic, Return
  <2> QED BY <1>3, <2>1, NoObjectIsUnready
<1>8. CASE CheckVPCReady \/ CheckSubnetsReady \/ CheckNATGatewaysReady \/ CheckBastionReady
  <2>1. PICK S, next : Wait(S, next)
    BY <1>8 DEF CheckVPCReady, CheckSubnetsReady, CheckNATGatewaysReady, CheckBastionReady
  <2> QED BY <1>1, <1>3, <2>1 DEF Wait, Save, Object
<1>9. CASE \/ UseExistingRouteTables \/ RouteTablesCreated
           \/ UseExistingSecurityGroups \/ SecurityGroupsCreated
  <2>1. PICK o, p : work' = Enter(o, p) /\ o \in Object /\ ~o.ready
    <3>1. /\ [work EXCEPT !.rts = config.exRts] \in Object
          /\ ~[work EXCEPT !.rts = config.exRts].ready
          /\ [work EXCEPT !.sgs = config.exSgs] \in Object
          /\ ~[work EXCEPT !.sgs = config.exSgs].ready
      BY <1>1, <1>3, ConfigNames, IdsFacts DEF Object
    <3> QED BY <1>1, <1>3, <1>9, <3>1
            DEF UseExistingRouteTables, RouteTablesCreated, UseExistingSecurityGroups,
                SecurityGroupsCreated, Save
  <2> QED BY <2>1 DEF Enter, Object
<1> QED BY <1>5, <1>6, <1>7, <1>8, <1>9 DEF CreateStep

LEMMA DeletionSaysReady ==
  ASSUME IInv, ReadyIsSaid, DeleteStep PROVE ~work'.ready
<1>1. work \in Object
  BY WorkFacts
<1>2. pc \in DeletingPcs
  BY DEF DeleteStep, RetainResources, DeleteBastion, TerminateOrphan, DeleteKeyPair,
         DeleteBastionSG, DeleteRouteTable, DeleteNat, DeleteSubnet, DeleteIgw,
         DeleteSecurityGroup, DeleteOrphanRt, DeleteVpc, DeleteCallFails, RemoveFinalizer,
         DeletingPcs, DeletePhases
<1>3. ~work.ready
  BY <1>2 DEF IInv, InFlight, ReadyIsSaid
<1>4. CASE ~RemoveFinalizer
  BY <1>1, <1>3, <1>4
  DEF DeleteStep, RetainResources, DeleteBastion, TerminateOrphan, DeleteKeyPair,
      DeleteBastionSG, DeleteRouteTable, DeleteNat, DeleteSubnet, DeleteIgw,
      DeleteSecurityGroup, DeleteOrphanRt, DeleteVpc, DeleteCallFails, DeleteOrWait,
      Retry, Save, Object
<1>5. CASE RemoveFinalizer
  BY <1>5, NoObjectIsUnready DEF RemoveFinalizer, Return
<1> QED BY <1>4, <1>5

LEMMA ResumeSaysReady ==
  ASSUME NEW o \in Object, ~o.ready, Resume(o) PROVE ~work'.ready
BY DEF Resume, Object

LEMMA WorkSaysReady ==
  ASSUME IInv, AllEarned, ReadyIsSaid, [Next]_vars
  PROVE  work'.ready => work'.phase = "Ready"
<1>1. CASE CreateStep
  BY <1>1, CreationSaysReady
<1>2. CASE DeleteStep
  BY <1>2, DeletionSaysReady
<1>3. CASE Begin
  <2>1. PICK o \in Object : o = cache
    BY CopiesFacts
  <2>2. CASE o.deleting
    BY <1>3, <2>1, <2>2 DEF Begin, Object
  <2>3. CASE ~o.deleting
    <3>1. ~o.ready
      BY <1>3, <2>1, <2>3 DEF Begin, Settled, ReadyIsSaid
    <3> QED BY <1>3, <2>1, <2>3, <3>1, ResumeSaysReady DEF Begin
  <2> QED BY <2>2, <2>3
<1>4. CASE AddFinalizer
  <2>1. PICK o : o = [work EXCEPT !.finalizer = TRUE]
    OBVIOUS
  <2>2. ~work.ready
    BY <1>4 DEF AddFinalizer, AllEarned, PhasesBehind, ReadyIsSaid, CreatingPcs
  <2>3. o \in Object /\ ~o.ready
    BY <2>1, <2>2, WorkFacts DEF Object
  <2>4. Resume(o)
    BY <1>4, <2>1 DEF AddFinalizer
  <2> QED BY <2>3, <2>4, ResumeSaysReady
<1>5. CASE WriteStatus \/ WriteLost \/ Crash
  BY <1>5, NoObjectIsUnready DEF WriteStatus, WriteLost, Crash, Return
<1>6. CASE Resync \/ RequestDelete \/ SyncCache \/ CloudStep \/ UNCHANGED vars
  BY <1>6 DEF Resync, RequestDelete, SyncCache, CloudStep, vars, ReadyIsSaid
<1> QED BY <1>1, <1>2, <1>3, <1>4, <1>5, <1>6 DEF Next, Reconcile

LEMMA CopiesSayReady ==
  ASSUME IInv, AllEarned, ReadyIsSaid, [Next]_vars
  PROVE  /\ stack'.ready => stack'.phase = "Ready"
         /\ cache'.ready => cache'.phase = "Ready"
<1>1. stack'.ready => stack'.phase = "Ready"
  <2>1. CASE AddFinalizer
    <3>1. ~work.ready
      BY <2>1 DEF AddFinalizer, AllEarned, PhasesBehind, ReadyIsSaid, CreatingPcs
    <3> QED BY <2>1, <3>1, WorkFacts DEF AddFinalizer, Object
  <2>2. CASE WriteStatus
    BY <2>2 DEF WriteStatus, ReadyIsSaid
  <2>3. CASE RemoveFinalizer
    BY <2>3 DEF RemoveFinalizer, NoObject
  <2>4. CASE RequestDelete
    BY <2>4, CopiesFacts DEF RequestDelete, NoObject, Object, ReadyIsSaid
  <2>5. CASE UNCHANGED stack
    BY <2>5 DEF ReadyIsSaid
  <2> QED BY <2>1, <2>2, <2>3, <2>4, <2>5, ObjectSteps
<1>2. cache' \in {cache, stack}
  <2>1. CASE CreateStep
    BY <2>1
    DEF CreateStep, Creation, kube, UseExistingVpc, CreateVpc, ModifyVpc, CheckVPCReady, Wait,
        UseExistingIgw, CreateInternetGateway, AttachInternetGateway, UseExistingSubnets,
        CreateSubnet, RecordSubnet, SubnetsCreated, CheckSubnetsReady, UseExistingNats,
        AllocateAddress, NoPublicSubnetPanic, CreateNatGateway, NatsCreated,
        CheckNATGatewaysReady, UseExistingRouteTables, CreateRouteTable, RecordRouteTable,
        RouteTableFails, RouteTablesCreated, UseExistingSecurityGroups, CreateSecurityGroup,
        AuthorizeIngress, SecurityGroupsCreated, CreateBastionSecurityGroup, PrepareBastion,
        StoreKey, RunInstance, CheckBastionReady, QuotaExceeded, CreateCallFails
  <2>2. CASE DeleteStep
    BY <2>2
    DEF DeleteStep, Deletion, kube, RetainResources, DeleteBastion, TerminateOrphan,
        DeleteKeyPair, DeleteBastionSG, DeleteRouteTable, DeleteNat, DeleteSubnet, DeleteIgw,
        DeleteSecurityGroup, DeleteOrphanRt, DeleteVpc, RemoveFinalizer, DeleteCallFails
  <2>3. CASE \/ Begin \/ Resync \/ AddFinalizer \/ WriteStatus \/ WriteLost
             \/ RequestDelete \/ SyncCache \/ CloudStep \/ Crash \/ UNCHANGED vars
    BY <2>3 DEF Begin, Resync, AddFinalizer, WriteStatus, WriteLost, RequestDelete,
                SyncCache, CloudStep, Crash, kube, vars
  <2> QED BY <2>1, <2>2, <2>3 DEF Next, Reconcile
<1> QED BY <1>1, <1>2 DEF ReadyIsSaid

LEMMA AlwaysSaid == Spec => []ReadyIsSaid
<1>1. IInv /\ AllEarned /\ ReadyIsSaid /\ [Next]_vars => ReadyIsSaid'
  BY WorkSaysReady, CopiesSayReady DEF ReadyIsSaid
<1>2. Init => ReadyIsSaid
  BY DEF Init, NoObject, ReadyIsSaid
<1> QED BY <1>1, <1>2, Invariant, AlwaysEarned, PTL DEF Spec

LEMMA SecretStays == ASSUME [Next]_vars PROVE secret => secret'
<1>1. CASE CreateStep
  BY <1>1
  DEF CreateStep, Creation, keys, UseExistingVpc, CreateVpc, ModifyVpc, CheckVPCReady, Wait,
      UseExistingIgw, CreateInternetGateway, AttachInternetGateway, UseExistingSubnets,
      CreateSubnet, RecordSubnet, SubnetsCreated, CheckSubnetsReady, UseExistingNats,
      AllocateAddress, NoPublicSubnetPanic, CreateNatGateway, NatsCreated,
      CheckNATGatewaysReady, UseExistingRouteTables, CreateRouteTable, RecordRouteTable,
      RouteTableFails, RouteTablesCreated, UseExistingSecurityGroups, CreateSecurityGroup,
      AuthorizeIngress, SecurityGroupsCreated, CreateBastionSecurityGroup, PrepareBastion,
      StoreKey, RunInstance, CheckBastionReady, QuotaExceeded, CreateCallFails
<1>2. CASE DeleteStep
  BY <1>2
  DEF DeleteStep, Deletion, keys, RetainResources, DeleteBastion, TerminateOrphan,
      DeleteKeyPair, DeleteBastionSG, DeleteRouteTable, DeleteNat, DeleteSubnet, DeleteIgw,
      DeleteSecurityGroup, DeleteOrphanRt, DeleteVpc, RemoveFinalizer, DeleteCallFails
<1>3. CASE \/ Begin \/ Resync \/ AddFinalizer \/ WriteStatus \/ WriteLost
           \/ RequestDelete \/ SyncCache \/ CloudStep \/ Crash \/ UNCHANGED vars
  BY <1>3 DEF Begin, Resync, AddFinalizer, WriteStatus, WriteLost, RequestDelete,
              SyncCache, CloudStep, Crash, keys, vars
<1> QED BY <1>1, <1>2, <1>3 DEF Next, Reconcile

(* The object as it was, and as it was but for its deletion mark.          *)
LEMMA ReadyStaysTidy ==
  ASSUME [Next]_vars, Undisturbed, ReadyIsTidy,
         stack'.ready => stack.ready,
         stack'.pub = stack.pub, stack'.priv = stack.priv, stack'.nats = stack.nats,
         stack'.rts = stack.rts, stack'.sgs = stack.sgs
  PROVE  ReadyIsTidy'
<1> SUFFICES ASSUME stack'.ready PROVE Filled(stack, "idle")' /\ ReadyKeyIsStored'
  BY DEF ReadyIsTidy
<1>1. Filled(stack, "idle") /\ ReadyKeyIsStored /\ stack.ready
  BY DEF ReadyIsTidy
<1>2. config' = config
  BY ConfigStays
<1>3. Filled(stack, "idle")'
  BY <1>1, <1>2 DEF Filled, SubnetsDone, NatsDone, TablesDone, GroupsDone, ExistingSubnets,
                    WantedPub, NeedsNAT
<1>4. ReadyKeyIsStored'
  BY <1>1, <1>2, SecretStays DEF ReadyKeyIsStored
<1> QED BY <1>3, <1>4

LEMMA WrittenIsTidy ==
  ASSUME IInv, AllEarned, ReadyIsSaid, TidyWhenCalm, WriteStatus, Undisturbed, work.ready
  PROVE  Filled(stack, "idle")' /\ ReadyKeyIsStored'
<1>1. /\ pc = "write" /\ workFresh /\ stack' = work /\ UNCHANGED <<config, keys>>
  BY DEF WriteStatus
<1>2. work.phase = "Ready" /\ ~work.deleting
  BY DEF ReadyIsSaid, IInv, InFlight
<1>3. stack.exists /\ ~stack.deleting
  BY <1>1, <1>2 DEF IInv, InFlight
<1>4. Tidy
  BY <1>3 DEF TidyWhenCalm, Calm
<1>5. Filled(work, pc)
  BY <1>1, <1>4, WorkFilled
<1>6. Filled(stack, "idle")'
  BY <1>1, <1>5 DEF Filled, SubnetsDone, NatsDone, TablesDone, GroupsDone, ExistingSubnets,
                    WantedPub, NeedsNAT
<1>7. config.bastion => work.bastion # NoId
  BY <1>2 DEF AllEarned, Earned, HasBastion
<1>8. config.bastion /\ ~config.ownKey => secret
  BY <1>1, <1>4, <1>7 DEF Tidy, KeyIsKept, Current
<1>9. ReadyKeyIsStored'
  BY <1>1, <1>8 DEF ReadyKeyIsStored, keys
<1> QED BY <1>6, <1>9

LEMMA StepReadyTidy ==
  ASSUME IInv, AllEarned, ReadyIsSaid, TidyWhenCalm, ReadyIsTidy, [Next]_vars
  PROVE  ReadyIsTidy'
<1> SUFFICES ASSUME Undisturbed', stack'.ready PROVE ReadyIsTidy'
  BY DEF ReadyIsTidy
<1>1. Undisturbed
  BY UndisturbedBefore
<1>2. CASE AddFinalizer
  <2>1. ~work.ready
    BY <1>2 DEF AddFinalizer, AllEarned, PhasesBehind, ReadyIsSaid, CreatingPcs
  <2>2. ~stack'.ready
    BY <1>2, <2>1, WorkFacts DEF AddFinalizer, Object
  <2> QED BY <2>2
<1>3. CASE WriteStatus
  <2>1. work.ready
    BY <1>3 DEF WriteStatus
  <2> QED BY <1>1, <1>3, <2>1, WrittenIsTidy DEF ReadyIsTidy
<1>4. CASE RemoveFinalizer
  BY <1>4, NoObjectIsUnready DEF RemoveFinalizer
<1>5. CASE RequestDelete
  <2>1. stack' = [stack EXCEPT !.deleting = TRUE]
    BY <1>5, NoObjectIsUnready DEF RequestDelete
  <2>2. /\ stack'.ready = stack.ready
        /\ stack'.pub = stack.pub /\ stack'.priv = stack.priv /\ stack'.nats = stack.nats
        /\ stack'.rts = stack.rts /\ stack'.sgs = stack.sgs
    BY <2>1, CopiesFacts DEF Object
  <2> QED BY <1>1, <2>2, ReadyStaysTidy
<1>6. CASE UNCHANGED stack
  BY <1>1, <1>6, ReadyStaysTidy
<1> QED BY <1>2, <1>3, <1>4, <1>5, <1>6, ObjectSteps

LEMMA AlwaysReadyTidy == Spec => []ReadyIsTidy
<1>1. IInv /\ AllEarned /\ ReadyIsSaid /\ TidyWhenCalm /\ ReadyIsTidy /\ [Next]_vars
        => ReadyIsTidy'
  BY StepReadyTidy
<1>2. Init => ReadyIsTidy
  BY DEF Init, NoObject, ReadyIsTidy
<1> QED BY <1>1, <1>2, Invariant, AlwaysEarned, AlwaysSaid, AlwaysTidy, PTL DEF Spec

-----------------------------------------------------------------------------
(* The theorems.                                                           *)

(* As long as no call, write or read has failed, the quota has room and    *)
(* nothing of the user's is in the way, whatever the operator has created  *)
(* for a standing stack can be found: the object or the copy in flight     *)
(* records it, or it is the address behind a recorded gateway or a table   *)
(* with the stack's tag.  The controller's order of create, record and     *)
(* write leaks nothing by itself, for any spec.                            *)
THEOREM NothingLost == Spec => []NothingLostWithoutFault
<1>1. IInv /\ Untouched /\ TidyWhenCalm => NothingLostWithoutFault
  <2> SUFFICES ASSUME IInv, Untouched, TidyWhenCalm, Calm,
                      NEW i \in Ids \ Foreign, Live(i)
               PROVE  i \in Accounted
    BY DEF NothingLostWithoutFault, Calm
  <2>1. AllKnown(Current)
    BY DEF TidyWhenCalm, Tidy
  <2>2. cloud[i].kind # "none"
    BY LivesWhenBorn DEF Calm
  <2>3. PICK known : known = Recorded(stack) \cup Recorded(work) \cup {made}
    OBVIOUS
  <2>4. Accounted = known \cup (UNION {EipOf(n) : n \in known \ {NoId}})
                      \cup {j \in LiveOf("rt") : cloud[j].tagged}
    BY <2>3 DEF Accounted
  <2>5. Recorded(Current) \cup {made} \subseteq known
    BY <2>3 DEF Current
  <2>6. CASE i \in Recorded(Current) \cup {made}
    BY <2>4, <2>5, <2>6
  <2>7. CASE \E n \in Current.nats : i \in EipOf(n)
    <3>1. PICK n \in Current.nats : i \in EipOf(n)
      BY <2>7
    <3>2. n \in known /\ n # NoId
      BY <2>5, <3>1, CurrentIsObject, IdsFacts DEF Recorded, Object
    <3> QED BY <2>4, <3>1, <3>2
  <2>8. CASE cloud[i].kind = "rt" /\ cloud[i].tagged
    <3>1. i \in LiveOf("rt")
      BY <2>8 DEF LiveOf
    <3>2. PICK tables : tables = {j \in LiveOf("rt") : cloud[j].tagged}
      OBVIOUS
    <3>3. i \in tables
      BY <2>8, <3>1, <3>2
    <3>4. tables \subseteq Accounted
      BY <3>2 DEF Accounted
    <3> QED BY <3>3, <3>4
  <2> QED BY <2>1, <2>2, <2>6, <2>7, <2>8 DEF AllKnown
<1> QED BY <1>1, Invariant, AlwaysUntouched, AlwaysTidy, PTL

(* A stack that nothing has disturbed reports ready only with every subnet,*)
(* gateway, table and group its spec counts, and with the bastion's key in *)
(* the Secret: DetermineCurrentPhase only asks whether each list is empty, *)
(* but then no list is written half filled.                                *)
THEOREM ReadyComplete == Spec => []CompleteWithoutFault
<1>1. IInv /\ AllEarned /\ ReadyIsSaid /\ ReadyIsTidy => CompleteWithoutFault
  <2> SUFFICES ASSUME IInv, AllEarned, ReadyIsSaid, ReadyIsTidy, Undisturbed
               PROVE  ReadyIsComplete /\ ReadyKeyIsStored
    BY DEF CompleteWithoutFault
  <2>1. CASE ~stack.ready
    BY <2>1 DEF ReadyIsComplete, ReadyKeyIsStored
  <2>2. CASE stack.ready
    <3>1. PICK o \in Object : o = stack
      BY CopiesFacts
    <3>2. Filled(o, "idle") /\ ReadyKeyIsStored
      BY <2>2, <3>1 DEF ReadyIsTidy
    <3>3. HasNetwork(o) /\ o.rts # {} /\ HasGroups(o)
      BY <2>2, <3>1 DEF ReadyIsSaid, AllEarned, Earned
    <3>4. o.sgs = {} => Cardinality(o.sgs) = config.sgs
      <4>1. o.sgs \in SUBSET Ids /\ config.sgs \in Nat
        BY ConfigCounts DEF Object
      <4>2. o.sgs = {} => config.sgs = 0
        BY <3>3, <4>1 DEF HasGroups
      <4> QED BY <4>1, <4>2, NoneIsEmpty
    <3>5. /\ ExistingSubnets = {} => SubnetsDone(o)
          /\ NeedsNAT /\ config.exNats = {} => NatsDone(o)
          /\ config.exRts = {} => TablesDone(o)
          /\ config.exSgs = {} => Cardinality(o.sgs) = config.sgs
      BY <3>2, <3>3, <3>4 DEF Filled, HasNetwork, GroupsDone
    <3>6. ReadyIsComplete
      BY <3>1, <3>5 DEF ReadyIsComplete, SubnetsDone, NatsDone, TablesDone
    <3> QED BY <3>2, <3>6
  <2> QED BY <2>1, <2>2
<1> QED BY <1>1, Invariant, AlwaysEarned, AlwaysSaid, AlwaysReadyTidy, PTL
=============================================================================
