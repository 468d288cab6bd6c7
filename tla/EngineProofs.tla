----------------------------- MODULE EngineProofs -----------------------------
(* What the engines of the tool and of the server never do, for all        *)
(* manifests and any number of processes.                                  *)
EXTENDS Engine, FiniteSetTheorems, SequenceTheorems, TLAPS

-----------------------------------------------------------------------------
(* The scripts.                                                            *)

LEMMA Names ==
  /\ "vpcId" \in Slots /\ "subnetId" \in Slots /\ "publicSubnetId" \in Slots
  /\ "internetGatewayId" \in Slots /\ "routeTableId" \in Slots /\ "securityGroupId" \in Slots
  /\ "bastionSecurityGroupId" \in Slots /\ "instanceId" \in Slots /\ "bastionInstanceId" \in Slots
  /\ "dns" \in Parts /\ "attachment" \in Parts /\ "publicIp" \in Parts
  /\ "route" \in Parts /\ "association" \in Parts /\ "ingress" \in Parts
BY DEF Slots, Parts

LEMMA MakeFacts ==
  ASSUME NEW s \in Slots
  PROVE  /\ Make(s) \in Steps
         /\ Make(s).op = "make" /\ Make(s).on = "fails" /\ Make(s).slot = s
BY DEF Make, Step, Steps, Parts

LEMMA SetFacts ==
  ASSUME NEW s \in Slots, NEW part \in Parts
  PROVE  /\ Set(s, part) \in Steps /\ Set(s, part).op = "set"
         /\ TrySet(s, part) \in Steps /\ TrySet(s, part).op = "set"
         /\ Drop(s, part) \in Steps /\ Drop(s, part).op = "drop" /\ Drop(s, part).slot = s
BY DEF Set, TrySet, Drop, Step, Steps

LEMMA DeleteFacts ==
  ASSUME NEW s \in Slots
  PROVE  /\ Delete(s) \in Steps /\ Delete(s).op = "remove" /\ Delete(s).on = "fails"
         /\ Delete(s).slot = s /\ TryDelete(s).slot = s /\ Describe(s).slot = s
         /\ TryDelete(s) \in Steps /\ TryDelete(s).op = "remove"
         /\ Describe(s) \in Steps /\ Describe(s).op = "describe"
BY DEF Delete, TryDelete, Describe, Step, Steps, Parts

LEMMA ImageFacts == FindImage \in Steps /\ FindImage.op = "image"
BY DEF FindImage, Step, Steps, Parts, Slots

(* What the scripts of all creations have in common.                       *)
WellMade(steps) ==
  /\ steps \in Seq(Steps)
  /\ \A k \in DOMAIN steps :
       steps[k].op # "remove" /\ (steps[k].op = "make" => steps[k].on = "fails")
  /\ \A j, k \in DOMAIN steps :
       steps[j].op = "image" /\ j < k /\ steps[k].op = "make" => steps[k].slot = "bastionInstanceId"

LEMMA OneCall ==
  ASSUME NEW s \in Slots
  PROVE  WellMade(<<Make(s)>>) /\ MakesOf(<<Make(s)>>) = {s}
<1> DEFINE a == Make(s)
<1>1. a \in Steps /\ a.op = "make" /\ a.on = "fails" /\ a.slot = s
  BY MakeFacts
<1> HIDE DEF a
<1>2. WellMade(<<a>>)
  BY <1>1 DEF WellMade
<1>3. MakesOf(<<a>>) = {s}
  BY <1>1 DEF MakesOf
<1> QED BY <1>2, <1>3 DEF a

LEMMA TwoCalls ==
  ASSUME NEW s \in Slots, NEW b \in Steps, b.op \notin {"make", "image", "remove"}
  PROVE  /\ WellMade(<<Make(s), b>>) /\ MakesOf(<<Make(s), b>>) = {s}
         /\ \A k \in DOMAIN <<Make(s), b>> : <<Make(s), b>>[k].op # "image"
<1> DEFINE a == Make(s)
<1>1. a \in Steps /\ a.op = "make" /\ a.on = "fails" /\ a.slot = s
  BY MakeFacts
<1> HIDE DEF a
<1>2. WellMade(<<a, b>>)
  BY <1>1 DEF WellMade
<1>3. MakesOf(<<a, b>>) = {s}
  BY <1>1 DEF MakesOf
<1>4. \A k \in DOMAIN <<a, b>> : <<a, b>>[k].op # "image"
  BY <1>1
<1> QED BY <1>2, <1>3, <1>4 DEF a

LEMMA ThreeCalls ==
  ASSUME NEW a \in Steps, NEW b \in Steps, NEW c \in Steps,
         \A x \in {a, b, c} : x.op \notin {"image", "remove"} /\ (x.op = "make" => x.on = "fails")
  PROVE  WellMade(<<a, b, c>>) /\ \A k \in 1..3 : <<a, b, c>>[k].op # "image"
<1>1. <<a, b, c>> \in Seq(Steps) /\ DOMAIN <<a, b, c>> = 1..3
  OBVIOUS
<1>2. \A k \in 1..3 : <<a, b, c>>[k] \in {a, b, c}
  OBVIOUS
<1> QED BY <1>1, <1>2 DEF WellMade

LEMMA BastionCalls ==
  ASSUME NEW a \in Steps, NEW b \in Steps, NEW c \in Steps, NEW d \in Steps,
         \A x \in {a, b} : x.op \notin {"image", "remove"} /\ (x.op = "make" => x.on = "fails"),
         c.op = "image", d.op = "make", d.on = "fails", d.slot = "bastionInstanceId"
  PROVE  WellMade(<<a, b, c, d>>)
<1> DEFINE s == <<a, b, c, d>>
<1>1. s \in Seq(Steps) /\ DOMAIN s = 1..4 /\ s[1] = a /\ s[2] = b /\ s[3] = c /\ s[4] = d
  OBVIOUS
<1> HIDE DEF s
<1>2. \A k \in DOMAIN s : k = 1 \/ k = 2 \/ k = 3 \/ k = 4
  BY <1>1
<1>3. \A k \in DOMAIN s : s[k].op # "remove" /\ (s[k].op = "make" => s[k].on = "fails")
  BY <1>1, <1>2
<1>4. \A k \in DOMAIN s : s[k].op = "image" => k = 3
  BY <1>1, <1>2
<1>5. \A k \in DOMAIN s : 3 < k => k = 4
  BY <1>1, <1>2
<1>6. WellMade(s)
  BY <1>1, <1>3, <1>4, <1>5 DEF WellMade
<1> QED BY <1>6 DEF s

(* A script of which the first part looks for no image.                    *)
LEMMA Joined ==
  ASSUME NEW a, WellMade(a), \A k \in DOMAIN a : a[k].op # "image",
         NEW b, WellMade(b)
  PROVE  /\ WellMade(a \o b)
         /\ (\A k \in DOMAIN b : b[k].op # "image") => \A k \in DOMAIN (a \o b) : (a \o b)[k].op # "image"
<1> DEFINE s == a \o b
<1>1. a \in Seq(Steps) /\ b \in Seq(Steps)
  BY DEF WellMade
<1>2. s \in Seq(Steps) /\ DOMAIN s = 1..Len(a) + Len(b) /\ Len(a) \in Nat /\ Len(b) \in Nat
  BY <1>1
<1>3. \A k \in DOMAIN s : \/ k \in DOMAIN a /\ s[k] = a[k]
                          \/ k - Len(a) \in DOMAIN b /\ s[k] = b[k - Len(a)]
  BY <1>1
<1> HIDE DEF s
<1>4. \A k \in DOMAIN s : s[k].op # "remove" /\ (s[k].op = "make" => s[k].on = "fails")
  BY <1>3 DEF WellMade
<1>5. \A k \in DOMAIN s : s[k].op = "image" => k - Len(a) \in DOMAIN b /\ s[k] = b[k - Len(a)]
  BY <1>3
<1>6. ASSUME NEW j \in DOMAIN s, NEW k \in DOMAIN s, s[j].op = "image", j < k, s[k].op = "make"
      PROVE  s[k].slot = "bastionInstanceId"
  <2>1. j - Len(a) \in DOMAIN b /\ b[j - Len(a)].op = "image"
    BY <1>5, <1>6
  <2>2. k - Len(a) \in DOMAIN b /\ s[k] = b[k - Len(a)]
    BY <1>1, <1>2, <1>3, <1>6, <2>1
  <2>3. j - Len(a) < k - Len(a)
    BY <1>2, <1>6
  <2> QED BY <1>6, <2>1, <2>2, <2>3 DEF WellMade
<1>7. WellMade(s)
  BY <1>2, <1>4, <1>6 DEF WellMade
<1>8. (\A k \in DOMAIN b : b[k].op # "image") => \A k \in DOMAIN s : s[k].op # "image"
  BY <1>3
<1> QED BY <1>7, <1>8 DEF s

(* Which script is which.                                                  *)
LEMMA CreationScripts ==
  /\ createResource("VPC") = createVPC
  /\ createResource("Subnet") = createSubnet
  /\ createResource("InternetGateway") = createInternetGateway
  /\ createResource("SecurityGroup") = createSecurityGroup
  /\ createResource("EC2Instance") = createEC2Instance
  /\ createResource("ComputeStack") = createComputeStack(FALSE)
  /\ createResource("ComputeStackWithBastion") = createComputeStack(TRUE)
  /\ createResource("S3Bucket") = <<>> /\ createResource("SetupEKS") = <<>>
BY Zenon DEF createResource

LEMMA MainSlots ==
  /\ MainSlot("VPC") = "vpcId" /\ MainSlot("Subnet") = "subnetId"
  /\ MainSlot("InternetGateway") = "internetGatewayId"
  /\ MainSlot("SecurityGroup") = "securityGroupId"
  /\ MainSlot("EC2Instance") = "instanceId"
  /\ \A kind \in {"S3Bucket", "SetupEKS", "ComputeStack", "ComputeStackWithBastion"} :
       MainSlot(kind) = "instanceId"
BY Zenon DEF MainSlot

LEMMA NetworkScripts ==
  /\ WellMade(createVPC) /\ MakesOf(createVPC) = {"vpcId"}
  /\ WellMade(createInternetGateway) /\ MakesOf(createInternetGateway) = {"internetGatewayId"}
  /\ \A steps \in {createVPC, createInternetGateway} :
       \A k \in DOMAIN steps : steps[k].op # "image"
<1>1. TrySet("vpcId", "dns") \in Steps /\ TrySet("vpcId", "dns").op = "set"
  BY Names, SetFacts
<1>2. /\ Set("internetGatewayId", "attachment") \in Steps
      /\ Set("internetGatewayId", "attachment").op = "set"
  BY Names, SetFacts
<1>3. "vpcId" \in Slots /\ "internetGatewayId" \in Slots
  BY Names
<1>4. /\ WellMade(createVPC) /\ MakesOf(createVPC) = {"vpcId"}
      /\ \A k \in DOMAIN createVPC : createVPC[k].op # "image"
  BY <1>1, <1>3, TwoCalls DEF createVPC
<1> QED BY <1>2, <1>3, <1>4, TwoCalls DEF createInternetGateway

LEMMA SimpleScripts ==
  ASSUME NEW kind \in Kinds \ Stacks
  PROVE  WellMade(createResource(kind)) /\ MadeSlots(kind) \subseteq {MainSlot(kind)}
<1>1. CASE kind = "VPC"
  BY <1>1, NetworkScripts, CreationScripts, MainSlots DEF MadeSlots
<1>2. CASE kind = "Subnet"
  BY <1>2, OneCall, CreationScripts, MainSlots DEF createSubnet, MadeSlots, Slots
<1>3. CASE kind = "InternetGateway"
  BY <1>3, NetworkScripts, CreationScripts, MainSlots DEF MadeSlots
<1>4. CASE kind = "SecurityGroup"
  <2>1. /\ TrySet("securityGroupId", "ingress") \in Steps
        /\ TrySet("securityGroupId", "ingress").op = "set"
    BY Names, SetFacts
  <2>2. "securityGroupId" \in Slots
    BY DEF Slots
  <2> QED
    BY <1>4, <2>1, <2>2, TwoCalls, CreationScripts, MainSlots DEF createSecurityGroup, MadeSlots
<1>5. CASE kind = "EC2Instance"
  BY <1>5, OneCall, CreationScripts, MainSlots DEF createEC2Instance, MadeSlots, Slots
<1>6. CASE kind \in {"S3Bucket", "SetupEKS"}
  <2>1. createResource(kind) = <<>>
    BY <1>6, CreationScripts
  <2>2. WellMade(<<>>)
    BY DEF WellMade
  <2>3. MakesOf(<<>>) = {}
    BY DEF MakesOf
  <2> QED BY <2>1, <2>2, <2>3 DEF MadeSlots
<1> QED BY <1>1, <1>2, <1>3, <1>4, <1>5, <1>6 DEF Kinds, Stacks

LEMMA StackScripts ==
  ASSUME NEW bastion \in BOOLEAN
  PROVE  WellMade(createComputeStack(bastion))
<1> DEFINE subnet == <<Describe("vpcId"), Make("publicSubnetId"), TrySet("publicSubnetId", "publicIp")>>
           routes == <<Make("routeTableId"), TrySet("routeTableId", "route"),
                       TrySet("routeTableId", "association")>>
           host   == IF bastion
                     THEN <<Make("bastionSecurityGroupId"), TrySet("bastionSecurityGroupId", "ingress"),
                            FindImage, Make("bastionInstanceId")>>
                     ELSE <<>>
           NoImage(a) == WellMade(a) /\ \A k \in DOMAIN a : a[k].op # "image"
<1>1. NoImage(createVPC) /\ NoImage(createInternetGateway)
  BY NetworkScripts
<1>2. NoImage(subnet)
  <2>1. /\ Describe("vpcId") \in Steps /\ Describe("vpcId").op = "describe"
        /\ Make("publicSubnetId") \in Steps
        /\ Make("publicSubnetId").op = "make" /\ Make("publicSubnetId").on = "fails"
        /\ TrySet("publicSubnetId", "publicIp") \in Steps
        /\ TrySet("publicSubnetId", "publicIp").op = "set"
    BY Names, DeleteFacts, MakeFacts, SetFacts
  <2> QED BY <2>1, ThreeCalls
<1>3. NoImage(routes)
  <2>1. /\ Make("routeTableId") \in Steps
        /\ Make("routeTableId").op = "make" /\ Make("routeTableId").on = "fails"
        /\ TrySet("routeTableId", "route") \in Steps /\ TrySet("routeTableId", "route").op = "set"
        /\ TrySet("routeTableId", "association") \in Steps
        /\ TrySet("routeTableId", "association").op = "set"
    BY Names, MakeFacts, SetFacts
  <2> QED BY <2>1, ThreeCalls
<1>4. WellMade(host)
  <2>1. WellMade(<<>>)
    BY DEF WellMade
  <2>2. /\ \A s \in {"bastionSecurityGroupId", "bastionInstanceId"} :
             Make(s) \in Steps /\ Make(s).op = "make" /\ Make(s).on = "fails" /\ Make(s).slot = s
        /\ TrySet("bastionSecurityGroupId", "ingress") \in Steps
        /\ TrySet("bastionSecurityGroupId", "ingress").op = "set"
    BY Names, MakeFacts, SetFacts
  <2>3. WellMade(<<Make("bastionSecurityGroupId"), TrySet("bastionSecurityGroupId", "ingress"),
                   FindImage, Make("bastionInstanceId")>>)
    BY <2>2, ImageFacts, BastionCalls
  <2> QED BY <2>1, <2>3
<1> HIDE DEF subnet, routes, host
<1>5. NoImage(createVPC \o createInternetGateway)
  BY <1>1, Joined
<1>6. NoImage((createVPC \o createInternetGateway) \o subnet)
  BY <1>2, <1>5, Joined
<1>7. NoImage(((createVPC \o createInternetGateway) \o subnet) \o routes)
  BY <1>3, <1>6, Joined
<1>8. WellMade((((createVPC \o createInternetGateway) \o subnet) \o routes) \o host)
  BY <1>4, <1>7, Joined
<1> QED BY <1>8 DEF createComputeStack, subnet, routes, host

LEMMA CreationFacts ==
  ASSUME NEW kind \in Kinds
  PROVE  /\ WellMade(createResource(kind))
         /\ kind \notin Stacks => MadeSlots(kind) \subseteq {MainSlot(kind)}
         /\ MainSlot(kind) \in Slots
<1>1. CASE kind \in Stacks
  <2>1. WellMade(createResource(kind))
    BY <1>1, StackScripts, CreationScripts DEF Stacks
  <2>2. MainSlot(kind) = "instanceId"
    BY <1>1, MainSlots DEF Stacks
  <2> QED BY <1>1, <2>1, <2>2, Names
<1>2. CASE kind \notin Stacks
  <2>1. MainSlot(kind) \in Slots
    BY <1>2, MainSlots, Names DEF Kinds, Stacks
  <2> QED BY <1>2, <2>1, SimpleScripts
<1> QED BY <1>1, <1>2
(* The scripts of all deletions.                                           *)
Undoes(slots, steps) ==
  /\ steps \in Seq(Steps)
  /\ \A k \in DOMAIN steps : steps[k].op \notin {"make", "image"} /\ steps[k].slot \in slots

LEMMA UndoesJoined ==
  ASSUME NEW slots, NEW a, NEW b, Undoes(slots, a), Undoes(slots, b)
  PROVE  Undoes(slots, a \o b)
<1>1. a \in Seq(Steps) /\ b \in Seq(Steps)
  BY DEF Undoes
<1>2. a \o b \in Seq(Steps) /\ DOMAIN (a \o b) = 1..Len(a) + Len(b)
  BY <1>1
<1>3. \A k \in DOMAIN (a \o b) : \/ k \in DOMAIN a /\ (a \o b)[k] = a[k]
                                 \/ k - Len(a) \in DOMAIN b /\ (a \o b)[k] = b[k - Len(a)]
  BY <1>1
<1> QED BY <1>2, <1>3 DEF Undoes

LEMMA UndoesFew ==
  ASSUME NEW a \in Steps, NEW b \in Steps, NEW c \in Steps, NEW slots,
         \A x \in {a, b, c} : x.op \notin {"make", "image"} /\ x.slot \in slots
  PROVE  Undoes(slots, <<>>) /\ Undoes(slots, <<a>>) /\ Undoes(slots, <<a, b>>) /\ Undoes(slots, <<a, b, c>>)
<1>1. Undoes(slots, <<>>)
  BY DEF Undoes
<1>2. Undoes(slots, <<a>>)
  BY DEF Undoes
<1>3. Undoes(slots, <<a, b>>)
  BY DEF Undoes
<1>4. Undoes(slots, <<a, b, c>>)
  BY DEF Undoes
<1> QED BY <1>1, <1>2, <1>3, <1>4

LEMMA UndoesTwo ==
  ASSUME NEW a \in Steps, NEW b \in Steps, NEW slots,
         a.op \notin {"make", "image"}, a.slot \in slots,
         b.op \notin {"make", "image"}, b.slot \in slots
  PROVE  Undoes(slots, <<a>>) /\ Undoes(slots, <<a, b>>)
<1>1. \A x \in {a, b, a} : x.op \notin {"make", "image"} /\ x.slot \in slots
  OBVIOUS
<1> QED BY <1>1, UndoesFew

LEMMA StackDeletion ==
  ASSUME NEW ids
  PROVE  Undoes(DOMAIN ids, deleteComputeStack(ids))
<1> DEFINE instance == IfRecorded("bastionInstanceId", ids, <<TryDelete("bastionInstanceId")>>)
           group    == IfRecorded("bastionSecurityGroupId", ids, <<TryDelete("bastionSecurityGroupId")>>)
           table    == IfRecorded("routeTableId", ids,
                         <<Describe("routeTableId"), Drop("routeTableId", "association"),
                           TryDelete("routeTableId")>>)
           subnet   == IfRecorded("publicSubnetId", ids, <<TryDelete("publicSubnetId")>>)
           gateway  == IfRecorded("internetGatewayId", ids,
                         <<Drop("internetGatewayId", "attachment"), TryDelete("internetGatewayId")>>)
           vpc      == IfRecorded("vpcId", ids, <<TryDelete("vpcId")>>)
<1>1. PICK slots : slots = DOMAIN ids
  OBVIOUS
<1>2. \A s \in Slots : TryDelete(s) \in Steps /\ TryDelete(s).op = "remove" /\ TryDelete(s).slot = s
  BY DeleteFacts
<1>3. Undoes(slots, <<>>)
  BY DEF Undoes
<1>4. \A s \in Slots : s \in slots => Undoes(slots, <<TryDelete(s)>>)
  <2>1. \A a \in Steps : a.op = "remove" /\ a.slot \in slots => Undoes(slots, <<a>>)
    BY UndoesFew
  <2> QED BY <1>2, <2>1
<1>5. /\ Undoes(slots, instance) /\ Undoes(slots, group)
      /\ Undoes(slots, subnet) /\ Undoes(slots, vpc)
  BY <1>1, <1>3, <1>4, Names DEF IfRecorded
<1>6. Undoes(slots, table)
  <2>1. PICK a \in Steps, b \in Steps, c \in Steps :
          /\ a = Describe("routeTableId") /\ b = Drop("routeTableId", "association")
          /\ c = TryDelete("routeTableId")
          /\ \A x \in {a, b, c} : x.op \notin {"make", "image"} /\ x.slot = "routeTableId"
    BY Names, SetFacts, DeleteFacts
  <2>2. "routeTableId" \in slots => Undoes(slots, <<a, b, c>>)
    BY <2>1, UndoesFew
  <2> QED BY <1>1, <1>3, <2>1, <2>2 DEF IfRecorded
<1>7. Undoes(slots, gateway)
  <2>1. PICK a \in Steps, b \in Steps :
          /\ a = Drop("internetGatewayId", "attachment") /\ b = TryDelete("internetGatewayId")
          /\ \A x \in {a, b} : x.op \notin {"make", "image"} /\ x.slot = "internetGatewayId"
    BY Names, SetFacts, DeleteFacts
  <2>2. "internetGatewayId" \in slots => Undoes(slots, <<a, b>>)
    BY <2>1, UndoesTwo
  <2> QED BY <1>1, <1>3, <2>1, <2>2 DEF IfRecorded
<1> HIDE DEF instance, group, table, subnet, gateway, vpc
<1>8. Undoes(slots, ((((instance \o group) \o table) \o subnet) \o gateway) \o vpc)
  BY <1>5, <1>6, <1>7, UndoesJoined
<1> QED BY <1>1, <1>8 DEF deleteComputeStack, instance, group, table, subnet, gateway, vpc

LEMMA OneDeletion ==
  ASSUME NEW s \in Slots, NEW slots, s \in slots
  PROVE  /\ Undoes(slots, deleteOne(s))
         /\ \E k \in DOMAIN deleteOne(s) : deleteOne(s)[k] = Delete(s)
<1> DEFINE drop == Drop(s, "attachment")
           del  == Delete(s)
<1>1. /\ drop \in Steps /\ drop.op = "drop" /\ drop.slot = s
      /\ del \in Steps /\ del.op = "remove" /\ del.slot = s
  BY Names, SetFacts, DeleteFacts
<1>2. deleteOne(s) = IF s = "internetGatewayId" THEN <<drop, del>> ELSE <<del>>
  BY DEF deleteOne
<1> HIDE DEF drop, del
<1>3. deleteOne(s) = <<del>> \/ deleteOne(s) = <<drop, del>>
  BY <1>2
<1>4. Undoes(slots, <<del>>) /\ Undoes(slots, <<drop, del>>)
  BY <1>1, UndoesTwo
<1>5. /\ 1 \in DOMAIN <<del>> /\ <<del>>[1] = del
      /\ 2 \in DOMAIN <<drop, del>> /\ <<drop, del>>[2] = del
  OBVIOUS
<1>6. \E k \in DOMAIN deleteOne(s) : deleteOne(s)[k] = del
  BY <1>3, <1>5
<1> QED BY <1>3, <1>4, <1>6 DEF del

LEMMA DeletionScript ==
  ASSUME NEW kind \in Kinds, NEW ids
  PROVE  /\ Undoes(DOMAIN ids, deleteResource(kind, ids))
         /\ kind \notin Stacks /\ MainSlot(kind) \in DOMAIN ids =>
              \E k \in DOMAIN deleteResource(kind, ids) :
                deleteResource(kind, ids)[k] = Delete(MainSlot(kind))
<1>1. PICK s \in Slots : s = MainSlot(kind)
  BY CreationFacts
<1> DEFINE slots == DOMAIN ids
<1>2. Undoes(slots, <<>>)
  BY DEF Undoes
<1>3. Undoes(slots, deleteComputeStack(ids))
  BY StackDeletion
<1>4. s \in slots => /\ Undoes(slots, deleteOne(s))
                     /\ \E k \in DOMAIN deleteOne(s) : deleteOne(s)[k] = Delete(s)
  BY OneDeletion
<1>5. deleteResource(kind, ids) =
        IF kind \in Stacks THEN deleteComputeStack(ids)
        ELSE IF s \in slots THEN deleteOne(s) ELSE <<>>
  BY <1>1 DEF deleteResource, IfRecorded
<1> QED BY <1>1, <1>2, <1>3, <1>4, <1>5

-----------------------------------------------------------------------------
(* The rest of a script.                                                   *)
LEMMA RestFacts ==
  ASSUME NEW steps \in Seq(Steps), steps # <<>>
  PROVE  /\ Head(steps) \in Steps /\ Tail(steps) \in Seq(Steps)
         /\ 1 \in DOMAIN steps /\ steps[1] = Head(steps)
         /\ \A k \in DOMAIN Tail(steps) :
              k \in Int /\ k + 1 \in DOMAIN steps /\ 1 < k + 1 /\ Tail(steps)[k] = steps[k + 1]
         /\ \A k \in DOMAIN steps :
              k = 1 \/ (k - 1 \in DOMAIN Tail(steps) /\ Tail(steps)[k - 1] = steps[k])
OBVIOUS

LEMMA MakesOfRest ==
  ASSUME NEW steps \in Seq(Steps), steps # <<>>
  PROVE  /\ MakesOf(Tail(steps)) \subseteq MakesOf(steps)
         /\ Head(steps).op # "make" => MakesOf(steps) \subseteq MakesOf(Tail(steps))
         /\ Head(steps).op = "make" =>
              /\ MakesOf(steps) \subseteq MakesOf(Tail(steps)) \cup {Head(steps).slot}
              /\ Head(steps).slot \in MakesOf(steps)
<1>1. \A s : s \in MakesOf(steps) <=> \E k \in DOMAIN steps : steps[k].op = "make" /\ steps[k].slot = s
  BY DEF MakesOf
<1>2. \A s : s \in MakesOf(Tail(steps)) <=>
              \E k \in DOMAIN Tail(steps) : Tail(steps)[k].op = "make" /\ Tail(steps)[k].slot = s
  BY DEF MakesOf
<1>3. ASSUME NEW s \in MakesOf(Tail(steps))
      PROVE  s \in MakesOf(steps)
  <2>1. PICK k \in DOMAIN Tail(steps) : Tail(steps)[k].op = "make" /\ Tail(steps)[k].slot = s
    BY <1>2, <1>3
  <2>2. k + 1 \in DOMAIN steps /\ steps[k + 1] = Tail(steps)[k]
    BY RestFacts
  <2> QED BY <1>1, <2>1, <2>2
<1>4. ASSUME NEW s \in MakesOf(steps)
      PROVE  s \in MakesOf(Tail(steps)) \/ (Head(steps).op = "make" /\ Head(steps).slot = s)
  <2>1. PICK k \in DOMAIN steps : steps[k].op = "make" /\ steps[k].slot = s
    BY <1>1, <1>4
  <2>2. k = 1 \/ (k - 1 \in DOMAIN Tail(steps) /\ Tail(steps)[k - 1] = steps[k])
    BY RestFacts
  <2>3. k = 1 => steps[k] = Head(steps)
    BY RestFacts
  <2> QED BY <1>2, <2>1, <2>2, <2>3
<1>5. Head(steps).op = "make" => Head(steps).slot \in MakesOf(steps)
  BY <1>1, RestFacts
<1> QED BY <1>3, <1>4, <1>5

LEMMA CreatesOn ==
  ASSUME NEW kind, NEW ids, NEW new, NEW steps \in Seq(Steps), steps # <<>>,
         Creates(kind, ids, steps),
         IF Head(steps).op = "make" THEN DOMAIN new = DOMAIN ids \cup {Head(steps).slot}
         ELSE DOMAIN new = DOMAIN ids
  PROVE  Creates(kind, new, Tail(steps))
<1>1. \A k \in DOMAIN Tail(steps) :
        /\ Tail(steps)[k].op # "remove"
        /\ Tail(steps)[k].op = "make" => Tail(steps)[k].on = "fails"
  BY RestFacts DEF Creates
<1>2. \A j, k \in DOMAIN Tail(steps) :
        Tail(steps)[j].op = "image" /\ j < k /\ Tail(steps)[k].op = "make"
          => Tail(steps)[k].slot = "bastionInstanceId"
  <2> SUFFICES ASSUME NEW j \in DOMAIN Tail(steps), NEW k \in DOMAIN Tail(steps),
                      Tail(steps)[j].op = "image", j < k, Tail(steps)[k].op = "make"
               PROVE  Tail(steps)[k].slot = "bastionInstanceId"
    OBVIOUS
  <2>1. /\ j + 1 \in DOMAIN steps /\ k + 1 \in DOMAIN steps /\ j + 1 < k + 1
        /\ steps[j + 1].op = "image" /\ steps[k + 1].op = "make" /\ Tail(steps)[k] = steps[k + 1]
    BY RestFacts
  <2> QED BY <2>1 DEF Creates
<1>3. /\ DOMAIN new \cup MakesOf(Tail(steps)) \subseteq MadeSlots(kind)
      /\ MadeSlots(kind) \ {"bastionInstanceId"} \subseteq DOMAIN new \cup MakesOf(Tail(steps))
  BY MakesOfRest DEF Creates
<1> QED BY <1>1, <1>2, <1>3 DEF Creates

(* Without a bastion the rest is left out.                                 *)
LEMMA CreatesAll ==
  ASSUME NEW kind, NEW ids, NEW steps \in Seq(Steps), steps # <<>>,
         Creates(kind, ids, steps), Head(steps).op = "image"
  PROVE  Creates(kind, ids, <<>>)
<1>1. MakesOf(steps) \subseteq {"bastionInstanceId"}
  <2>1. ASSUME NEW k \in DOMAIN steps, steps[k].op = "make"
        PROVE  steps[k].slot = "bastionInstanceId"
    <3>1. 1 \in DOMAIN steps /\ steps[1].op = "image" /\ 1 < k
      BY <2>1, RestFacts
    <3> QED BY <2>1, <3>1 DEF Creates
  <2> QED BY <2>1 DEF MakesOf
<1>2. MakesOf(<<>>) = {}
  BY DEF MakesOf
<1> QED BY <1>1, <1>2 DEF Creates

LEMMA CreatesAtFirst ==
  ASSUME NEW kind \in Kinds, NEW ids, DOMAIN ids = {}
  PROVE  Creates(kind, ids, createResource(kind))
BY CreationFacts DEF Creates, WellMade, MadeSlots

-----------------------------------------------------------------------------
(* What a step does to the process that takes it, and to the resources.    *)

LEMMA Nobody == DOMAIN NoIds = {} /\ IsRecord(NoIds)
BY DEF NoIds, IsRecord

(* The five variables of a process take new values of their types.         *)
Puts(p, c, q, l, steps, ids) ==
  /\ command' = [command EXCEPT ![p] = c] /\ queue' = [queue EXCEPT ![p] = q]
  /\ pc' = [pc EXCEPT ![p] = l] /\ script' = [script EXCEPT ![p] = steps]
  /\ state' = [state EXCEPT ![p] = ids]
  /\ c \in {"none", "apply", "delete"} /\ q \in Seq(DOMAIN manifest)
  /\ l \in {"idle", "load", "run", "save", "write", "drop"} /\ steps \in Seq(Steps)
  /\ l = "idle" <=> c = "none"
  /\ l = "idle" <=> q = <<>>
  /\ l = "run" <=> steps # <<>>
  /\ IsRecord(ids)

(* The process is done with the document.                                  *)
Ended(p) ==
  \/ Puts(p, "none", <<>>, "idle", <<>>, NoIds)
  \/ Puts(p, command[p], Tail(queue[p]), "load", <<>>, NoIds)

Phase(p, steps) ==
  IF steps # <<>> THEN "run" ELSE IF command[p] = "apply" THEN "save" ELSE "drop"

(* Or it goes on with it.                                                  *)
Went(p, steps, ids) == Puts(p, command[p], queue[p], Phase(p, steps), steps, ids)

LEMMA OthersFollow ==
  ASSUME NEW S, NEW q \in Seq(S), q # <<>>, Len(q) # 1
  PROVE  Tail(q) \in Seq(S) /\ Tail(q) # <<>>
<1>1. PICK n \in Nat : n = Len(q)
  OBVIOUS
<1>2. n # 0 /\ n # 1
  BY <1>1
<1>3. n > 1
  BY <1>2
<1>4. Len(Tail(q)) = n - 1 /\ Tail(q) \in Seq(S)
  BY <1>1, <1>3
<1>5. PICK t \in Seq(S) : t = Tail(q)
  BY <1>4
<1>6. Len(t) # 0
  BY <1>3, <1>4, <1>5
<1>7. t # <<>>
  BY <1>6
<1> QED BY <1>4, <1>5, <1>7

LEMMA FinishPuts ==
  ASSUME NEW p, Finish(p)
  PROVE  Puts(p, "none", <<>>, "idle", <<>>, NoIds)
<1>1. IsRecord(NoIds)
  BY Nobody
<1>2. <<>> \in Seq(DOMAIN manifest) /\ <<>> \in Seq(Steps)
  OBVIOUS
<1>3. "idle" = "idle" <=> "none" = "none"
  OBVIOUS
<1>4. "idle" = "idle" <=> <<>> = <<>>
  OBVIOUS
<1>5. "idle" = "run" <=> <<>> # <<>>
  OBVIOUS
<1>6. /\ command' = [command EXCEPT ![p] = "none"] /\ queue' = [queue EXCEPT ![p] = <<>>]
      /\ pc' = [pc EXCEPT ![p] = "idle"] /\ script' = [script EXCEPT ![p] = <<>>]
      /\ state' = [state EXCEPT ![p] = NoIds]
  BY DEF Finish
<1> QED BY <1>1, <1>2, <1>3, <1>4, <1>5, <1>6, Zenon DEF Puts

LEMMA DocumentEnds ==
  ASSUME TypeOK, NEW p \in Processes, pc[p] # "idle",
         Finish(p) \/ NextDocument(p) \/ DocumentFails(p)
  PROVE  Ended(p)
<1>1. Finish(p) => Puts(p, "none", <<>>, "idle", <<>>, NoIds)
  BY FinishPuts
<1>2. queue[p] \in Seq(DOMAIN manifest) /\ queue[p] # <<>> /\ command[p] # "none"
  BY DEF TypeOK, ProcsOK
<1>3. Len(queue[p]) # 1 => Tail(queue[p]) \in Seq(DOMAIN manifest) /\ Tail(queue[p]) # <<>>
  BY <1>2, OthersFollow
<1>4. command = [command EXCEPT ![p] = command[p]] /\ command[p] \in {"none", "apply", "delete"}
  BY DEF TypeOK, ProcsOK
<1>5. NextDocument(p) /\ Len(queue[p]) # 1 =>
        Puts(p, command[p], Tail(queue[p]), "load", <<>>, NoIds)
  BY <1>2, <1>3, <1>4, Nobody DEF NextDocument, Puts
<1>6. NextDocument(p) => Ended(p)
  BY <1>1, <1>5 DEF NextDocument, Ended
<1> QED BY <1>1, <1>6 DEF Ended, DocumentFails

LEMMA GoesOn ==
  ASSUME TypeOK, NEW p \in Processes, pc[p] # "idle", NEW steps \in Seq(Steps), NEW ids, IsRecord(ids),
         Continue(p, steps), state' = [state EXCEPT ![p] = ids]
  PROVE  Went(p, steps, ids)
<1>1. /\ command[p] \in {"apply", "delete"} /\ queue[p] \in Seq(DOMAIN manifest) /\ queue[p] # <<>>
      /\ command = [command EXCEPT ![p] = command[p]] /\ queue = [queue EXCEPT ![p] = queue[p]]
  BY DEF TypeOK, ProcsOK
<1> QED BY <1>1 DEF Continue, Went, Puts, Phase

LEMMA PutsKeepsTypes ==
  ASSUME TypeOK, manifest' = manifest, NEW p \in Processes, NEW c, NEW q, NEW l, NEW steps, NEW ids,
         Puts(p, c, q, l, steps, ids)
  PROVE  /\ ProcsOK'
         /\ command'[p] = c /\ queue'[p] = q /\ pc'[p] = l /\ script'[p] = steps /\ state'[p] = ids
         /\ \A r \in Processes \ {p} :
              /\ command'[r] = command[r] /\ queue'[r] = queue[r] /\ pc'[r] = pc[r]
              /\ script'[r] = script[r] /\ state'[r] = state[r]
<1>1. ProcsOK
  BY DEF TypeOK
<1>2. /\ command'[p] = c /\ queue'[p] = q /\ pc'[p] = l /\ script'[p] = steps /\ state'[p] = ids
      /\ \A r \in Processes \ {p} :
           /\ command'[r] = command[r] /\ queue'[r] = queue[r] /\ pc'[r] = pc[r]
           /\ script'[r] = script[r] /\ state'[r] = state[r]
  BY <1>1 DEF ProcsOK, Puts
<1>3. /\ command' \in [Processes -> {"none", "apply", "delete"}]
      /\ queue' \in [Processes -> Seq(DOMAIN manifest)]
      /\ pc' \in [Processes -> {"idle", "load", "run", "save", "write", "drop"}]
      /\ script' \in [Processes -> Seq(Steps)]
      /\ state' = [r \in Processes |-> state'[r]]
  BY <1>1 DEF ProcsOK, Puts
<1>4. \A r \in Processes :
        /\ (pc'[r] = "idle") = (command'[r] = "none")
        /\ (pc'[r] = "idle") = (queue'[r] = <<>>)
        /\ (pc'[r] = "run") = (script'[r] # <<>>)
        /\ IsRecord(state'[r])
  BY <1>1, <1>2 DEF ProcsOK, Puts
<1> QED BY <1>2, <1>3, <1>4 DEF ProcsOK

(* Resources are made once, and what is gone does not come back.           *)
Ages ==
  \A i \in Ids : cloud[i].status # "none" =>
    /\ cloud'[i].doc = cloud[i].doc /\ cloud'[i].slot = cloud[i].slot
    /\ cloud'[i].network = cloud[i].network /\ cloud'[i].status # "none"
    /\ cloud'[i].status = "available" => cloud[i].status = "available"

(* A process that the step is not about, and whose file it leaves alone    *)
(* if that matters.                                                        *)
LEMMA Undisturbed ==
  ASSUME IInv, Ages, manifest' = manifest, NEW r \in Processes,
         command'[r] = command[r], queue'[r] = queue[r], pc'[r] = pc[r],
         script'[r] = script[r], state'[r] = state[r],
         \/ met' \/ pc[r] \in {"idle", "load"}
         \/ ~met /\ files'[Doc(r)] = files[Doc(r)]
  PROVE  AtPc(r)'
<1>1. CASE pc[r] \in {"idle", "load"}
  BY <1>1 DEF IInv, AtPc
<1>2. CASE pc[r] \notin {"idle", "load"}
  <2>1. Doc(r)' = Doc(r)
    BY DEF Doc
  <2>2. AtPc(r) /\ IsRecord(state[r])
    BY DEF IInv, TypeOK, ProcsOK
  <2>3. MadeFor(Doc(r), state[r])'
    BY <1>2, <2>1, <2>2 DEF AtPc, MadeFor, IsRecord, Ages
  <2>4. command[r] = "delete" => Deletes(manifest[Doc(r)], state[r], script[r])'
    BY <1>2, <2>1, <2>2 DEF AtPc, Deletes, MadeFor, IsRecord, Ages, Live
  <2>5. command[r] = "apply" => Creates(manifest[Doc(r)], state[r], script[r])'
    BY <1>2, <2>1, <2>2 DEF AtPc
  <2>6. ~met' => KnowsFile(r)'
    BY <1>2, <2>1, <2>2 DEF AtPc, KnowsFile
  <2> QED BY <1>2, <2>2, <2>3, <2>4, <2>5, <2>6 DEF AtPc
<1> QED BY <1>1, <1>2

LEMMA FileUndisturbed ==
  ASSUME IInv, Ages, manifest' = manifest, NEW d \in DOMAIN manifest, files'[d] = files[d]
  PROVE  OnFile(d)'
<1>1. OnFile(d) /\ IsRecord(files[d].ids)
  BY DEF IInv, TypeOK, FilesOK
<1>2. MadeFor(d, files[d].ids)'
  BY <1>1 DEF OnFile, MadeFor, IsRecord, Ages
<1> QED BY <1>1, <1>2 DEF OnFile

-----------------------------------------------------------------------------
(* A step of a process keeps the invariant if it keeps what it is about.   *)
LEMMA ProcessStep ==
  ASSUME IInv, NEW p \in Processes, pc[p] # "idle",
         NEW c, NEW q, NEW l, NEW steps, NEW ids, Puts(p, c, q, l, steps, ids),
         manifest' = manifest, met' = met, faults' = faults \/ Fault,
         Ages, CloudOK', FilesOK',
         \A d \in DOMAIN manifest : files'[d] = files[d] \/ (d = Doc(p) /\ OnFile(d)'),
         AtPc(p)'
  PROVE  IInv'
<1>1. TypeOK'
  <2>1. faults' \in 0..MaxFaults
    BY BoundsAssumption DEF IInv, TypeOK, Fault
  <2>2. ProcsOK'
    BY PutsKeepsTypes DEF IInv
  <2> QED BY <2>1, <2>2 DEF IInv, TypeOK
<1>2. /\ command'[p] = c
      /\ \A r \in Processes \ {p} :
           /\ command'[r] = command[r] /\ queue'[r] = queue[r] /\ pc'[r] = pc[r]
           /\ script'[r] = script[r] /\ state'[r] = state[r]
  BY PutsKeepsTypes DEF IInv
<1>3. p \in Running /\ \A r \in Processes : r \in Running <=> pc[r] # "idle"
  BY DEF IInv, TypeOK, ProcsOK, Running
<1>4. Alone'
  <2>1. Running' \subseteq Running
    BY <1>2, <1>3 DEF Running
  <2> QED BY <2>1 DEF IInv, Alone
<1>5. ASSUME NEW r \in Processes
      PROVE  AtPc(r)'
  <2>1. CASE r = p
    BY <2>1
  <2>2. CASE r # p
    <3>1. met \/ pc[r] = "idle"
      BY <1>3, <2>2 DEF IInv, Alone
    <3> QED BY <1>2, <2>2, <3>1, Undisturbed
  <2> QED BY <2>1, <2>2
<1>6. ASSUME NEW d \in DOMAIN manifest'
      PROVE  OnFile(d)'
  <2>1. CASE files'[d] = files[d]
    BY <2>1, FileUndisturbed
  <2> QED BY <2>1
<1> QED BY <1>1, <1>4, <1>5, <1>6 DEF IInv

LEMMA DocIsListed ==
  ASSUME TypeOK, NEW p \in Processes, pc[p] # "idle"
  PROVE  /\ Doc(p) \in DOMAIN manifest /\ manifest[Doc(p)] \in Kinds
         /\ command[p] \in {"apply", "delete"}
<1>1. queue[p] \in Seq(DOMAIN manifest) /\ queue[p] # <<>>
  BY DEF TypeOK, ProcsOK
<1>2. PICK q \in Seq(DOMAIN manifest) : q = queue[p]
  BY <1>1
<1>3. Head(q) \in DOMAIN manifest
  BY <1>1, <1>2
<1>4. Doc(p) \in DOMAIN manifest
  BY <1>2, <1>3 DEF Doc
<1> QED BY <1>4, ManifestAssumption DEF TypeOK, ProcsOK

LEMMA CloudStays ==
  ASSUME TypeOK, UNCHANGED <<manifest, cloud>>
  PROVE  Ages /\ CloudOK'
BY DEF TypeOK, CloudOK, Ages

LEMMA FilesStay ==
  ASSUME TypeOK, UNCHANGED <<manifest, files>>
  PROVE  FilesOK' /\ \A d \in DOMAIN manifest : files'[d] = files[d]
BY DEF TypeOK, FilesOK

(* The process ends, or turns to the next document.                        *)
LEMMA EndKeeps ==
  ASSUME IInv, NEW p \in Processes, pc[p] # "idle", Ended(p),
         UNCHANGED <<manifest, met, cloud>>, faults' = faults \/ Fault,
         FilesOK',
         \A d \in DOMAIN manifest : files'[d] = files[d] \/ (d = Doc(p) /\ OnFile(d)')
  PROVE  IInv'
<1>1. PICK c, q, l, steps, ids :
        Puts(p, c, q, l, steps, ids) /\ l \in {"idle", "load"} /\ ids = NoIds
  BY DEF Ended
<1>2. pc'[p] = l /\ state'[p] = NoIds
  BY <1>1, PutsKeepsTypes DEF IInv
<1>3. AtPc(p)'
  BY <1>1, <1>2, Nobody DEF AtPc
<1> QED BY <1>1, <1>3, CloudStays, ProcessStep DEF IInv

(* The process goes on with its document, or begins with it.               *)
LEMMA WentKeeps ==
  ASSUME IInv, NEW p \in Processes, pc[p] # "idle", NEW steps, NEW ids, Went(p, steps, ids),
         UNCHANGED <<manifest, met, files>>, faults' = faults \/ Fault,
         Ages, CloudOK',
         NEW d \in DOMAIN manifest, d = Doc(p), MadeFor(d, ids)',
         command[p] = "apply" => Creates(manifest[d], ids, steps),
         command[p] = "delete" => Deletes(manifest[d], ids, steps)',
         ~met => /\ command[p] = "apply" => files[d].content = "none"
                 /\ command[p] = "delete" => files[d] = File("whole", ids)
  PROVE  IInv'
<1>1. /\ command'[p] = command[p] /\ queue'[p] = queue[p] /\ pc'[p] = Phase(p, steps)
      /\ script'[p] = steps /\ state'[p] = ids
  BY PutsKeepsTypes DEF IInv, Went
<1>2. command[p] \in {"apply", "delete"}
  BY DocIsListed DEF IInv
<1>3. AtPc(p)'
  <2>1. Doc(p)' = d
    BY <1>1 DEF Doc
  <2>2. MadeFor(Doc(p), state[p])'
    BY <1>1, <2>1 DEF MadeFor
  <2>3. command[p] = "delete" => Deletes(manifest[Doc(p)], state[p], script[p])'
    BY <1>1, <2>1 DEF Deletes
  <2>4. command[p] = "apply" => Creates(manifest[Doc(p)], state[p], script[p])'
    BY <1>1, <2>1
  <2>5. ~met' => KnowsFile(p)'
    BY <1>1, <1>2, <2>1 DEF KnowsFile, Phase
  <2> QED BY <1>1, <1>2, <2>2, <2>3, <2>4, <2>5 DEF AtPc, Phase
<1> QED BY <1>3, FilesStay, ProcessStep DEF IInv, Went

-----------------------------------------------------------------------------
(* The calls.                                                              *)

LEMMA Calling ==
  ASSUME IInv, NEW p \in Processes, pc[p] = "run"
  PROVE  /\ script[p] \in Seq(Steps) /\ script[p] # <<>> /\ IsRecord(state[p])
         /\ Head(script[p]) \in Steps /\ Tail(script[p]) \in Seq(Steps)
         /\ MadeFor(Doc(p), state[p])
         /\ Doc(p) \in DOMAIN manifest /\ manifest[Doc(p)] \in Kinds
         /\ command[p] \in {"apply", "delete"}
         /\ command[p] = "apply" => Creates(manifest[Doc(p)], state[p], script[p])
         /\ command[p] = "delete" => Deletes(manifest[Doc(p)], state[p], script[p])
         /\ ~met => /\ command[p] = "apply" => files[Doc(p)].content = "none"
                    /\ command[p] = "delete" => files[Doc(p)] = File("whole", state[p])
<1>1. script[p] \in Seq(Steps) /\ script[p] # <<>> /\ IsRecord(state[p])
  BY DEF IInv, TypeOK, ProcsOK
<1>2. PICK steps \in Seq(Steps) : steps = script[p]
  BY <1>1
<1>3. Head(steps) \in Steps /\ Tail(steps) \in Seq(Steps)
  BY <1>1, <1>2, RestFacts
<1>4. AtPc(p)
  BY DEF IInv
<1>5. /\ MadeFor(Doc(p), state[p])
      /\ command[p] = "apply" => Creates(manifest[Doc(p)], state[p], script[p])
      /\ command[p] = "delete" => Deletes(manifest[Doc(p)], state[p], script[p])
      /\ ~met => KnowsFile(p)
  BY <1>4 DEF AtPc
<1> QED BY <1>1, <1>2, <1>3, <1>5, DocIsListed DEF IInv, KnowsFile

(* A call is done that did not make anything, and that deleted what it was *)
(* to delete.                                                              *)
LEMMA ProceedKeeps ==
  ASSUME IInv, NEW p \in Processes, pc[p] = "run", Proceed(p),
         UNCHANGED <<state, manifest, met, files>>, faults' = faults \/ Fault,
         Ages, CloudOK',
         command[p] = "apply" => Head(script[p]).op # "make",
         \A s \in DOMAIN state[p] :
           Head(script[p]) = Delete(s) => cloud'[state[p][s]].status # "available"
  PROVE  IInv'
<1>1. PICK d \in DOMAIN manifest : d = Doc(p)
  BY Calling
<1>2. PICK steps \in Seq(Steps) : steps = script[p]
  BY Calling
<1>3. PICK ids : ids = state[p]
  OBVIOUS
<1>4. /\ steps # <<>> /\ IsRecord(ids) /\ Tail(steps) \in Seq(Steps)
  BY <1>2, <1>3, Calling
<1>5. state' = [state EXCEPT ![p] = ids]
  BY <1>3 DEF IInv, TypeOK, ProcsOK
<1>6. Went(p, Tail(steps), ids)
  BY <1>2, <1>4, <1>5, GoesOn DEF Proceed, IInv
<1>7. MadeFor(d, ids)'
  <2>1. MadeFor(d, ids)
    BY <1>1, <1>3, Calling
  <2> QED BY <1>4, <2>1 DEF MadeFor, Ages, IsRecord
<1>8. command[p] = "apply" => Creates(manifest[d], ids, Tail(steps))
  <2>1. command[p] = "apply" => Creates(manifest[d], ids, steps) /\ Head(steps).op # "make"
    BY <1>1, <1>2, <1>3, Calling
  <2> QED BY <1>4, <2>1, CreatesOn
<1>9. command[p] = "delete" => Deletes(manifest[d], ids, Tail(steps))'
  <2> SUFFICES ASSUME command[p] = "delete"
               PROVE  Deletes(manifest[d], ids, Tail(steps))'
    OBVIOUS
  <2>1. Deletes(manifest[d], ids, steps) /\ MadeFor(d, ids)
    BY <1>1, <1>2, <1>3, Calling
  <2>2. \A k \in DOMAIN Tail(steps) :
          Tail(steps)[k].op \notin {"make", "image"} /\ Tail(steps)[k].slot \in DOMAIN ids
    BY <1>4, <2>1, RestFacts DEF Deletes
  <2>3. ASSUME manifest[d] \notin Stacks, NEW s \in DOMAIN ids, ids[s] \in Live'
        PROVE  \E k \in DOMAIN Tail(steps) : Tail(steps)[k] = Delete(s)
    <3>1. ids[s] \in Live
      BY <1>4, <2>1, <2>3 DEF Live, Ages, MadeFor, IsRecord
    <3>2. PICK k \in DOMAIN steps : steps[k] = Delete(s)
      BY <2>1, <2>3, <3>1 DEF Deletes
    <3>3. Head(steps) # Delete(s)
      BY <1>2, <1>3, <2>3 DEF Live
    <3>4. k # 1
      BY <1>4, <3>2, <3>3, RestFacts
    <3> QED BY <1>4, <3>2, <3>4, RestFacts
  <2> QED BY <2>2, <2>3 DEF Deletes
<1>10. ~met => /\ command[p] = "apply" => files[d].content = "none"
               /\ command[p] = "delete" => files[d] = File("whole", ids)
  BY <1>1, <1>3, Calling
<1> QED BY <1>1, <1>6, <1>7, <1>8, <1>9, <1>10, WentKeeps

LEMMA CallFailsKeeps ==
  ASSUME IInv, NEW p \in Processes, pc[p] = "run", CallFails(p), faults' = faults \/ Fault
  PROVE  IInv'
<1>1. UNCHANGED <<manifest, met, files, cloud>>
  BY DEF CallFails, Remains
<1>2. Ages /\ CloudOK' /\ FilesOK' /\ \A d \in DOMAIN manifest : files'[d] = files[d]
  BY <1>1, CloudStays, FilesStay DEF IInv
<1>3. CASE DocumentFails(p) \/ Finish(p)
  BY <1>1, <1>2, <1>3, DocumentEnds, EndKeeps DEF IInv
<1>4. CASE Head(script[p]).on = "ignored" /\ Proceed(p) /\ UNCHANGED state
  <2>1. command[p] = "apply" => Head(script[p]).op # "make"
    <3>1. PICK steps \in Seq(Steps) : steps = script[p]
      BY Calling
    <3>2. steps # <<>> /\ steps[1] = Head(steps) /\ 1 \in DOMAIN steps
      BY <3>1, Calling, RestFacts
    <3> QED BY <1>4, <3>1, <3>2, Calling DEF Creates
  <2>2. \A s \in DOMAIN state[p] : Head(script[p]) # Delete(s)
    BY <1>4, Calling, DeleteFacts DEF IsRecord
  <2> QED BY <1>1, <1>2, <1>4, <2>1, <2>2, ProceedKeeps
<1> QED BY <1>3, <1>4 DEF CallFails

(* The calls that change one resource.                                     *)
LEMMA OneAges ==
  ASSUME TypeOK, manifest' = manifest, NEW i \in Ids, cloud[i].status # "none",
         NEW st, NEW parts, cloud' = [cloud EXCEPT ![i] = [cloud[i] EXCEPT !.status = st, !.parts = parts]],
         st = cloud[i].status \/ st \in {"deleting", "gone"}, parts \subseteq Parts
  PROVE  /\ Ages /\ CloudOK' /\ cloud'[i].status = st
<1>1. CloudOK
  BY DEF TypeOK
<1>2. /\ cloud'[i] = [cloud[i] EXCEPT !.status = st, !.parts = parts]
      /\ \A j \in Ids \ {i} : cloud'[j] = cloud[j]
      /\ cloud'[i].status = st /\ cloud'[i].doc = cloud[i].doc
      /\ cloud'[i].slot = cloud[i].slot /\ cloud'[i].network = cloud[i].network
  BY <1>1 DEF CloudOK
<1>3. Ages
  BY <1>1, <1>2 DEF Ages, CloudOK
<1>4. CloudOK'
  <2>1. cloud'[i] \in [status : {"none", "available", "deleting", "gone"}, slot : Slots \cup {""},
                       doc : DOMAIN manifest \cup {""}, parts : SUBSET Parts,
                       network : Ids \cup {0}]
    <3>1. PICK statuses, slots, docs, subsets, ids :
            /\ statuses = {"none", "available", "deleting", "gone"} /\ slots = Slots \cup {""}
            /\ docs = DOMAIN manifest \cup {""} /\ subsets = SUBSET Parts /\ ids = Ids \cup {0}
      OBVIOUS
    <3>2. PICK old : old = cloud[i]
      OBVIOUS
    <3>3. old \in [status : statuses, slot : slots, doc : docs, parts : subsets, network : ids]
      BY <1>1, <3>1, <3>2 DEF CloudOK
    <3>4. st \in statuses /\ parts \in subsets
      BY <3>1, <3>2, <3>3
    <3>5. cloud'[i] = [old EXCEPT !.status = st, !.parts = parts]
      BY <1>2, <3>2
    <3>6. [old EXCEPT !.status = st, !.parts = parts]
            \in [status : statuses, slot : slots, doc : docs, parts : subsets, network : ids]
      BY <3>3, <3>4
    <3> QED BY <3>1, <3>5, <3>6
  <2>2. cloud' = [j \in Ids |-> cloud'[j]]
    BY <1>1 DEF CloudOK
  <2> QED BY <1>1, <1>2, <2>1, <2>2 DEF CloudOK
<1> QED BY <1>2, <1>3, <1>4

LEMMA OneChanges ==
  ASSUME IInv, NEW p \in Processes, SetCall(p) \/ DropCall(p) \/ RemoveCall(p)
  PROVE  \E i \in Ids : \E st : \E parts \in SUBSET Parts :
           /\ i = Target(p) /\ cloud[i].status # "none"
           /\ cloud' = [cloud EXCEPT ![i] = [cloud[i] EXCEPT !.status = st, !.parts = parts]]
           /\ Head(script[p]).op # "remove" => st = cloud[i].status
           /\ Head(script[p]).op # "set" => parts \subseteq cloud[i].parts
           /\ Head(script[p]).op = "drop" => Part(p) \notin parts
           /\ Head(script[p]).op = "remove" =>
                st \in {"deleting", "gone"} /\ (st = "deleting" => Slot(p) \in Instances)
<1>1. pc[p] = "run"
  BY DEF SetCall, DropCall, RemoveCall, Call
<1>2. Slot(p) \in Slots /\ Part(p) \in Parts
  BY <1>1, Calling DEF Slot, Part, Steps
<1>3. PICK i \in Ids : i = Target(p) /\ cloud[i].status # "none"
  BY DEF SetCall, DropCall, RemoveCall, Live, Described
<1>4. CloudOK
  BY DEF IInv, TypeOK
<1>5. cloud[i].parts \subseteq Parts
  BY <1>4 DEF CloudOK
<1>6. CASE SetCall(p)
  <2> DEFINE parts == cloud[i].parts \cup {Part(p)}
  <2>1. cloud' = [cloud EXCEPT ![i] = [cloud[i] EXCEPT !.status = cloud[i].status, !.parts = parts]]
    BY <1>3, <1>4, <1>6 DEF SetCall, CloudOK
  <2>2. parts \in SUBSET Parts /\ Head(script[p]).op = "set"
    BY <1>2, <1>5, <1>6 DEF SetCall, Call
  <2> HIDE DEF parts
  <2> QED BY <1>3, <2>1, <2>2
<1>7. CASE DropCall(p)
  <2> DEFINE parts == cloud[i].parts \ {Part(p)}
  <2>1. cloud' = [cloud EXCEPT ![i] = [cloud[i] EXCEPT !.status = cloud[i].status, !.parts = parts]]
    BY <1>3, <1>4, <1>7 DEF DropCall, CloudOK
  <2>2. /\ parts \in SUBSET Parts /\ parts \subseteq cloud[i].parts /\ Part(p) \notin parts
        /\ Head(script[p]).op = "drop"
    BY <1>2, <1>5, <1>7 DEF DropCall, Call
  <2> HIDE DEF parts
  <2> QED BY <1>3, <2>1, <2>2
<1>8. CASE RemoveCall(p)
  <2>1. PICK st \in {"deleting", "gone"} :
          /\ cloud' = [cloud EXCEPT ![i].status = st]
          /\ st = "deleting" => Slot(p) \in Instances
    BY <1>3, <1>8 DEF RemoveCall
  <2>2. cloud' = [cloud EXCEPT ![i] = [cloud[i] EXCEPT !.status = st, !.parts = cloud[i].parts]]
    BY <1>3, <1>4, <2>1 DEF CloudOK
  <2>3. Head(script[p]).op = "remove"
    BY <1>8 DEF RemoveCall, Call
  <2> QED BY <1>3, <1>5, <2>1, <2>2, <2>3
<1> QED BY <1>6, <1>7, <1>8

LEMMA ChangeKeeps ==
  ASSUME IInv, NEW p \in Processes, SetCall(p) \/ DropCall(p) \/ RemoveCall(p)
  PROVE  IInv'
<1>1. /\ pc[p] = "run" /\ Proceed(p) /\ UNCHANGED <<state, manifest, met, files, faults>>
      /\ Head(script[p]).op \in {"set", "drop", "remove"}
  BY DEF SetCall, DropCall, RemoveCall, Call, Remains
<1>2. PICK i \in Ids : \E st : \E parts \in SUBSET Parts :
        /\ i = Target(p) /\ cloud[i].status # "none"
        /\ cloud' = [cloud EXCEPT ![i] = [cloud[i] EXCEPT !.status = st, !.parts = parts]]
        /\ IF Head(script[p]).op = "remove" THEN st \in {"deleting", "gone"} ELSE st = cloud[i].status
  BY OneChanges
<1> PICK st : \E parts \in SUBSET Parts :
      /\ i = Target(p) /\ cloud[i].status # "none"
      /\ cloud' = [cloud EXCEPT ![i] = [cloud[i] EXCEPT !.status = st, !.parts = parts]]
      /\ IF Head(script[p]).op = "remove" THEN st \in {"deleting", "gone"} ELSE st = cloud[i].status
  BY <1>2
<1>3. Ages /\ CloudOK' /\ cloud'[i].status = st
  BY <1>1, <1>2, OneAges DEF IInv
<1>4. ASSUME NEW s \in DOMAIN state[p], Head(script[p]) = Delete(s)
      PROVE  cloud'[state[p][s]].status # "available"
  <2>1. Delete(s).op = "remove" /\ Delete(s).slot = s
    BY DEF Delete, Step
  <2>2. Slot(p) = s /\ Target(p) = state[p][s]
    BY <1>4, <2>1 DEF Slot, Target
  <2> QED BY <1>2, <1>3, <1>4, <2>1, <2>2
<1> QED BY <1>1, <1>3, <1>4, ProceedKeeps

LEMMA LookKeeps ==
  ASSUME IInv, NEW p \in Processes, DescribeCall(p) \/ ImageCall(p)
  PROVE  IInv'
<1>1. /\ pc[p] = "run" /\ UNCHANGED <<state, manifest, met, files, cloud, faults>>
      /\ Head(script[p]).op \in {"describe", "image"}
      /\ Proceed(p) \/ (Head(script[p]).op = "image" /\ Continue(p, <<>>))
  BY DEF DescribeCall, ImageCall, Call, Remains
<1>2. Ages /\ CloudOK'
  BY <1>1, CloudStays DEF IInv
<1>3. CASE Proceed(p)
  <2>1. \A s \in DOMAIN state[p] : Head(script[p]) # Delete(s)
    BY <1>1, Calling, DeleteFacts DEF IsRecord
  <2> QED BY <1>1, <1>2, <1>3, <2>1, ProceedKeeps
<1>4. CASE Head(script[p]).op = "image" /\ Continue(p, <<>>)
  <2>1. PICK d \in DOMAIN manifest : d = Doc(p)
    BY <1>1, Calling
  <2>2. PICK steps \in Seq(Steps) : steps = script[p]
    BY <1>1, Calling
  <2>3. PICK ids : ids = state[p]
    OBVIOUS
  <2>4. command[p] = "apply"
    <3>1. steps # <<>> /\ steps[1] = Head(steps) /\ 1 \in DOMAIN steps
      BY <1>1, <2>2, Calling, RestFacts
    <3> QED BY <1>1, <1>4, <2>2, <3>1, Calling DEF Deletes
  <2>5. Creates(manifest[d], ids, <<>>)
    BY <1>1, <1>4, <2>1, <2>2, <2>3, <2>4, Calling, CreatesAll
  <2>6. IsRecord(ids) /\ MadeFor(d, ids)
    BY <1>1, <2>1, <2>3, Calling
  <2>7. MadeFor(d, ids)'
    BY <1>1, <2>6 DEF MadeFor
  <2>8. state' = [state EXCEPT ![p] = ids] /\ <<>> \in Seq(Steps)
    BY <1>1, <2>3 DEF IInv, TypeOK, ProcsOK
  <2>9. Went(p, <<>>, ids)
    BY <1>1, <1>4, <2>6, <2>8, GoesOn DEF IInv
  <2>10. ~met => files[d].content = "none"
    BY <1>1, <2>1, <2>4, Calling
  <2> QED BY <1>1, <1>2, <2>1, <2>4, <2>5, <2>7, <2>9, <2>10, WentKeeps
<1> QED BY <1>1, <1>3, <1>4

(* What CreateCall makes, and what the process knows then.                 *)
MakesOne(p, d, steps, ids, s, n, i, after) ==
  /\ d = Doc(p) /\ steps = script[p] /\ ids = state[p] /\ s = Slot(p) /\ n = Network(p)
  /\ steps # <<>> /\ Head(steps).op = "make" /\ Head(steps).slot = s
  /\ IsRecord(ids) /\ MadeFor(d, ids)
  /\ cloud[i].status = "none" /\ cloud'[i] = Resource("available", s, d, {}, n)
  /\ \A j \in Ids \ {i} : cloud'[j] = cloud[j]
  /\ DOMAIN after = DOMAIN ids \cup {s} /\ after[s] = i
  /\ \A x \in DOMAIN ids \ {s} : after[x] = ids[x]
  /\ IsRecord(after) /\ Went(p, Tail(steps), after)

LEMMA OneIsMade ==
  ASSUME IInv, NEW p \in Processes, CreateCall(p)
  PROVE  /\ Ages /\ CloudOK'
         /\ \E d \in DOMAIN manifest, steps \in Seq(Steps), s \in Slots, n \in Ids \cup {0}, i \in Ids :
              \E ids, after : MakesOne(p, d, steps, ids, s, n, i, after)
<1>1. /\ pc[p] = "run" /\ Proceed(p) /\ UNCHANGED <<manifest, met, files, faults>>
      /\ Head(script[p]).op = "make"
  BY DEF CreateCall, Call, Remains
<1>2. PICK d \in DOMAIN manifest : d = Doc(p)
  BY <1>1, Calling
<1>3. PICK steps \in Seq(Steps) : steps = script[p]
  BY <1>1, Calling
<1>4. PICK ids : ids = state[p]
  OBVIOUS
<1>5. PICK s \in Slots : s = Slot(p)
  BY <1>1, Calling DEF Slot, Steps
<1>6. PICK n \in Ids \cup {0} : n = Network(p)
  BY <1>1, Calling DEF Network, IsRecord
<1>7. /\ IsRecord(ids) /\ MadeFor(d, ids) /\ steps # <<>> /\ Head(steps).slot = s
      /\ Head(steps).op = "make" /\ Tail(steps) \in Seq(Steps)
  BY <1>1, <1>2, <1>3, <1>4, <1>5, Calling DEF Slot
<1> DEFINE new(i) == [x \in DOMAIN ids \cup {s} |-> IF x = s THEN i ELSE ids[x]]
<1>8. PICK i \in Fresh :
        /\ cloud' = [cloud EXCEPT ![i] = Resource("available", s, d, {}, n)]
        /\ state' = [state EXCEPT ![p] = new(i)]
  <2>1. PICK i \in Fresh :
          /\ cloud' = [cloud EXCEPT ![i] = Resource("available", Slot(p), Doc(p), {}, Network(p))]
          /\ state' = [state EXCEPT ![p] = [x \in DOMAIN state[p] \cup {Slot(p)} |->
                                              IF x = Slot(p) THEN i ELSE state[p][x]]]
    BY DEF CreateCall, IInv, TypeOK, ProcsOK
  <2>2. state' = [state EXCEPT ![p] = new(i)]
    BY <1>4, <1>5, <2>1
  <2>3. cloud' = [cloud EXCEPT ![i] = Resource("available", s, d, {}, n)]
    BY <1>2, <1>5, <1>6, <2>1
  <2> QED BY <2>2, <2>3
<1>9. i \in Ids /\ cloud[i].status = "none" /\ CloudOK
  BY DEF Fresh, Unused, IInv, TypeOK
<1>10. /\ cloud'[i] = Resource("available", s, d, {}, n)
       /\ \A j \in Ids \ {i} : cloud'[j] = cloud[j]
  BY <1>8, <1>9 DEF CloudOK
<1>11. Ages
  BY <1>9, <1>10 DEF Ages
<1>12. CloudOK'
  <2> DEFINE Type == [status : {"none", "available", "deleting", "gone"}, slot : Slots \cup {""},
                       doc : DOMAIN manifest \cup {""}, parts : SUBSET Parts,
                       network : Ids \cup {0}]
  <2>1. Resource("available", s, d, {}, n) \in Type
    BY DEF Resource
  <2>2. cloud \in [Ids -> Type] /\ CloudOK' = (cloud' \in [Ids -> Type])
    BY <1>1, <1>9 DEF CloudOK
  <2> HIDE DEF Type
  <2> QED BY <1>8, <1>9, <2>1, <2>2
<1>13. PICK after : after = new(i)
  OBVIOUS
<1>14. DOMAIN after = DOMAIN ids \cup {s} /\ after[s] = i /\ \A x \in DOMAIN ids \ {s} : after[x] = ids[x]
  BY <1>13
<1> HIDE DEF new
<1>15. IsRecord(after)
  BY <1>7, <1>9, <1>14 DEF IsRecord
<1>16. Went(p, Tail(steps), after)
  BY <1>1, <1>3, <1>7, <1>8, <1>13, <1>15, GoesOn DEF Proceed, IInv
<1>17. MakesOne(p, d, steps, ids, s, n, i, after)
  BY <1>2, <1>3, <1>4, <1>5, <1>6, <1>7, <1>9, <1>10, <1>14, <1>15, <1>16 DEF MakesOne
<1> QED BY <1>9, <1>11, <1>12, <1>17

LEMMA CreateKeeps ==
  ASSUME IInv, NEW p \in Processes, CreateCall(p)
  PROVE  IInv'
<1>1. pc[p] = "run" /\ UNCHANGED <<manifest, met, files, faults>>
  BY DEF CreateCall, Call, Remains
<1>2. Ages /\ CloudOK'
  BY OneIsMade
<1>3. PICK d \in DOMAIN manifest, steps \in Seq(Steps), s \in Slots, n \in Ids \cup {0}, i \in Ids :
        \E ids, after : MakesOne(p, d, steps, ids, s, n, i, after)
  BY OneIsMade
<1> PICK ids, after : MakesOne(p, d, steps, ids, s, n, i, after)
  BY <1>3
<1>4. MadeFor(d, after)'
  <2>1. cloud'[i].doc = d /\ cloud'[i].slot = s /\ cloud'[i].status # "none"
    BY DEF MakesOne, Resource
  <2> QED BY <1>2, <2>1 DEF MakesOne, MadeFor, IsRecord, Ages
<1>5. command[p] = "apply"
  <2>1. steps[1] = Head(steps) /\ 1 \in DOMAIN steps
    BY RestFacts DEF MakesOne
  <2> QED BY <1>1, <2>1, Calling DEF MakesOne, Deletes
<1>6. Creates(manifest[d], after, Tail(steps))
  <2>1. Creates(manifest[d], ids, steps)
    BY <1>1, <1>5, Calling DEF MakesOne
  <2> QED BY <2>1, CreatesOn DEF MakesOne
<1>7. ~met => files[d].content = "none"
  BY <1>1, <1>5, Calling DEF MakesOne
<1>8. d = Doc(p) /\ Went(p, Tail(steps), after)
  BY DEF MakesOne
<1> QED BY <1>1, <1>2, <1>4, <1>5, <1>6, <1>7, <1>8, WentKeeps

-----------------------------------------------------------------------------
(* The beginning of the work on a document, and its end.                   *)

LEMMA BeginCreationKeeps ==
  ASSUME IInv, NEW p \in Processes, BeginCreation(p)
  PROVE  IInv'
<1>1. /\ pc[p] = "load" /\ command[p] = "apply" /\ UNCHANGED <<state, manifest, met, files, cloud, faults>>
      /\ files[Doc(p)].content = "none" /\ Continue(p, createResource(manifest[Doc(p)]))
  BY DEF BeginCreation, LoadState, Remains
<1>2. PICK d \in DOMAIN manifest : d = Doc(p) /\ manifest[d] \in Kinds
  BY <1>1, DocIsListed DEF IInv
<1>3. PICK kind \in Kinds : kind = manifest[d]
  BY <1>2
<1>4. PICK ids : ids = state[p] /\ DOMAIN ids = {}
  BY <1>1 DEF IInv, AtPc
<1>5. /\ createResource(kind) \in Seq(Steps) /\ Creates(kind, ids, createResource(kind))
  BY <1>4, CreationFacts, CreatesAtFirst DEF WellMade
<1>6. PICK steps \in Seq(Steps) : steps = createResource(kind)
  BY <1>5
<1>7. state' = [state EXCEPT ![p] = ids] /\ IsRecord(ids) /\ MadeFor(d, ids)'
  BY <1>1, <1>4 DEF IInv, TypeOK, ProcsOK, IsRecord, MadeFor
<1>8. Continue(p, steps)
  BY <1>1, <1>2, <1>3, <1>6
<1>9. Went(p, steps, ids)
  BY <1>1, <1>7, <1>8, GoesOn DEF IInv
<1>10. Ages /\ CloudOK'
  BY <1>1, CloudStays DEF IInv
<1> QED BY <1>1, <1>2, <1>3, <1>5, <1>6, <1>7, <1>9, <1>10, WentKeeps

LEMMA BeginDeletionKeeps ==
  ASSUME IInv, NEW p \in Processes, BeginDeletion(p)
  PROVE  IInv'
<1>1. /\ pc[p] = "load" /\ command[p] = "delete" /\ UNCHANGED <<manifest, met, files, cloud, faults>>
      /\ files[Doc(p)].content = "whole"
      /\ Continue(p, deleteResource(manifest[Doc(p)], files[Doc(p)].ids))
      /\ state' = [state EXCEPT ![p] = files[Doc(p)].ids]
  BY DEF BeginDeletion, LoadState, Remains
<1>2. PICK d \in DOMAIN manifest : d = Doc(p) /\ manifest[d] \in Kinds
  BY <1>1, DocIsListed DEF IInv
<1>3. PICK kind \in Kinds : kind = manifest[d]
  BY <1>2
<1>4. PICK ids : ids = files[d].ids
  OBVIOUS
<1>5. /\ IsRecord(ids) /\ MadeFor(d, ids) /\ DOMAIN ids \subseteq MadeSlots(kind)
      /\ files[d] = File("whole", ids)
  BY <1>1, <1>2, <1>3, <1>4 DEF IInv, TypeOK, FilesOK, OnFile
<1>6. /\ Undoes(DOMAIN ids, deleteResource(kind, ids))
      /\ kind \notin Stacks /\ MainSlot(kind) \in DOMAIN ids =>
           \E k \in DOMAIN deleteResource(kind, ids) : deleteResource(kind, ids)[k] = Delete(MainSlot(kind))
  BY DeletionScript
<1>7. PICK steps \in Seq(Steps) : steps = deleteResource(kind, ids)
  BY <1>6 DEF Undoes
<1>8. Deletes(kind, ids, steps)'
  <2>1. \A k \in DOMAIN steps : steps[k].op \notin {"make", "image"} /\ steps[k].slot \in DOMAIN ids
    BY <1>6, <1>7 DEF Undoes
  <2>2. ASSUME kind \notin Stacks, NEW s \in DOMAIN ids
        PROVE  \E k \in DOMAIN steps : steps[k] = Delete(s)
    <3>1. s = MainSlot(kind)
      BY <1>5, <2>2, CreationFacts
    <3> QED BY <1>6, <1>7, <2>2, <3>1
  <2> QED BY <2>1, <2>2 DEF Deletes
<1>9. Continue(p, steps) /\ state' = [state EXCEPT ![p] = ids]
  BY <1>1, <1>2, <1>3, <1>4, <1>7
<1>10. Went(p, steps, ids)
  BY <1>1, <1>5, <1>9, GoesOn DEF IInv
<1>11. Ages /\ CloudOK' /\ MadeFor(d, ids)'
  BY <1>1, <1>5, CloudStays DEF IInv, MadeFor
<1> QED BY <1>1, <1>2, <1>3, <1>5, <1>8, <1>10, <1>11, WentKeeps

(* The document is done with before any call, or its file is not saved.    *)
LEMMA GiveUpKeeps ==
  ASSUME IInv, NEW p \in Processes,
         \/ Unreadable(p) \/ Skip(p) \/ NotSupported(p) \/ FileFails(p) \/ Crash(p)
  PROVE  IInv'
<1>1. /\ pc[p] # "idle" /\ UNCHANGED <<manifest, met, files, cloud>>
      /\ faults' = faults \/ Fault
      /\ Finish(p) \/ NextDocument(p) \/ DocumentFails(p)
  BY DEF Unreadable, Skip, NotSupported, FileFails, Crash, LoadState, Remains
<1>2. Ended(p)
  BY <1>1, DocumentEnds DEF IInv
<1>3. FilesOK' /\ \A d \in DOMAIN manifest : files'[d] = files[d]
  BY <1>1, FilesStay DEF IInv
<1> QED BY <1>1, <1>2, <1>3, EndKeeps

(* One state file changes.                                                 *)
LEMMA OneFile ==
  ASSUME TypeOK, manifest' = manifest, NEW d \in DOMAIN manifest, NEW file,
         files' = [files EXCEPT ![d] = file],
         file = File(file.content, file.ids),
         file.content \in {"none", "torn", "whole"}, IsRecord(file.ids)
  PROVE  FilesOK' /\ files'[d] = file /\ \A e \in DOMAIN manifest \ {d} : files'[e] = files[e]
<1>1. FilesOK
  BY DEF TypeOK
<1>2. DOMAIN files = DOMAIN manifest
  BY <1>1 DEF FilesOK
<1>3. /\ files'[d] = file
      /\ \A e \in DOMAIN manifest \ {d} : files'[e] = files[e]
      /\ files' = [e \in DOMAIN manifest |-> files'[e]]
  BY <1>1, <1>2 DEF FilesOK
<1> QED BY <1>1, <1>2, <1>3 DEF FilesOK

LEMMA Tears ==
  ASSUME IInv, NEW p \in Processes, Truncate(p)
  PROVE  /\ pc[p] = "save" /\ command[p] = "apply"
         /\ UNCHANGED <<command, queue, script, state, cloud, faults, manifest, met>>
         /\ FilesOK' /\ files'[Doc(p)] = Torn
         /\ \A e \in DOMAIN manifest \ {Doc(p)} : files'[e] = files[e]
         /\ Puts(p, command[p], queue[p], "write", script[p], state[p])
<1>1. /\ pc[p] = "save" /\ UNCHANGED <<command, queue, script, state, cloud, faults, manifest, met>>
      /\ files' = [files EXCEPT ![Doc(p)] = Torn]
      /\ pc' = [pc EXCEPT ![p] = "write"]
  BY DEF Truncate, Remains
<1>2. PICK d \in DOMAIN manifest : d = Doc(p)
  BY <1>1, DocIsListed DEF IInv
<1>3. FilesOK' /\ files'[d] = Torn /\ \A e \in DOMAIN manifest \ {d} : files'[e] = files[e]
  <2>1. PICK file : file = Torn
    OBVIOUS
  <2>2. files' = [files EXCEPT ![d] = file]
    BY <1>1, <1>2, <2>1
  <2>3. /\ file.content = "torn" /\ file.ids = NoIds /\ IsRecord(file.ids)
       /\ file = File(file.content, file.ids)
    BY Nobody, <2>1 DEF File, Torn
  <2> QED BY <1>1, <2>1, <2>2, <2>3, OneFile DEF IInv
<1>4. command[p] = "apply"
  BY <1>1 DEF IInv, AtPc
<1>5. Puts(p, command[p], queue[p], "write", script[p], state[p])
  <2>1. /\ command[p] \in {"none", "apply", "delete"} /\ queue[p] \in Seq(DOMAIN manifest)
        /\ script[p] \in Seq(Steps) /\ IsRecord(state[p])
        /\ command[p] # "none" /\ queue[p] # <<>> /\ script[p] = <<>>
    BY <1>1, <1>4 DEF IInv, TypeOK, ProcsOK
  <2>2. /\ command' = [command EXCEPT ![p] = command[p]] /\ queue' = [queue EXCEPT ![p] = queue[p]]
        /\ script' = [script EXCEPT ![p] = script[p]] /\ state' = [state EXCEPT ![p] = state[p]]
    BY <1>1 DEF IInv, TypeOK, ProcsOK
  <2> QED BY <1>1, <2>1, <2>2 DEF Puts
<1> QED BY <1>1, <1>2, <1>3, <1>4, <1>5

LEMMA TruncateKeeps ==
  ASSUME IInv, NEW p \in Processes, Truncate(p)
  PROVE  IInv'
<1>1. /\ pc[p] = "save" /\ command[p] = "apply"
      /\ UNCHANGED <<command, queue, script, state, cloud, faults, manifest, met>>
      /\ FilesOK' /\ Puts(p, command[p], queue[p], "write", script[p], state[p])
  BY Tears
<1>2. PICK d \in DOMAIN manifest : d = Doc(p)
  BY <1>1, DocIsListed DEF IInv
<1>3. /\ files'[d].content = "torn" /\ files'[d].ids = NoIds
      /\ \A e \in DOMAIN manifest \ {d} : files'[e] = files[e]
  BY <1>2, Tears DEF Torn, File
<1>4. OnFile(d)'
  BY <1>3, Nobody DEF OnFile, MadeFor
<1>5. MadeFor(d, state[p]) /\ Creates(manifest[d], state[p], script[p])
  BY <1>1, <1>2 DEF IInv, AtPc
<1>6. Ages /\ CloudOK'
  BY <1>1, CloudStays DEF IInv
<1>7. AtPc(p)'
  <2>1. pc'[p] = "write" /\ Doc(p)' = d
    BY <1>1, <1>2, PutsKeepsTypes DEF Doc, IInv
  <2>2. MadeFor(Doc(p), state[p])'
    BY <1>1, <1>5, <2>1 DEF MadeFor
  <2>3. Creates(manifest[Doc(p)], state[p], script[p])'
    BY <1>1, <1>5, <2>1
  <2>4. KnowsFile(p)'
    BY <1>1, <2>1 DEF KnowsFile
  <2> QED BY <1>1, <2>1, <2>2, <2>3, <2>4 DEF AtPc
<1>8. \A e \in DOMAIN manifest : files'[e] = files[e] \/ (e = Doc(p) /\ OnFile(e)')
  BY <1>2, <1>3, <1>4
<1> QED BY <1>1, <1>6, <1>7, <1>8, ProcessStep

LEMMA Saves ==
  ASSUME IInv, NEW p \in Processes, Write(p) \/ DeleteState(p)
  PROVE  /\ pc[p] \in {"write", "drop"} /\ UNCHANGED <<cloud, faults, manifest, met>>
         /\ Ended(p) /\ FilesOK'
         /\ files'[Doc(p)] = IF pc[p] = "write" THEN File("whole", state[p]) ELSE NoFile
         /\ \A e \in DOMAIN manifest \ {Doc(p)} : files'[e] = files[e]
<1>1. /\ pc[p] \in {"write", "drop"} /\ UNCHANGED <<cloud, faults, manifest, met>> /\ NextDocument(p)
      /\ files' = [files EXCEPT ![Doc(p)] = IF pc[p] = "write" THEN File("whole", state[p]) ELSE NoFile]
  BY DEF Write, DeleteState, Remains
<1>2. PICK d \in DOMAIN manifest : d = Doc(p)
  BY <1>1, DocIsListed DEF IInv
<1>3. Ended(p)
  BY <1>1, DocumentEnds DEF IInv
<1>4. PICK ids : ids = IF pc[p] = "write" THEN state[p] ELSE NoIds
  OBVIOUS
<1>5. IsRecord(ids)
  BY <1>4, Nobody DEF IInv, TypeOK, ProcsOK
<1>6. PICK file : file = IF pc[p] = "write" THEN File("whole", ids) ELSE File("none", ids)
  OBVIOUS
<1>7. /\ file.content \in {"none", "torn", "whole"} /\ file.ids = ids
      /\ file = File(file.content, file.ids)
  BY <1>6 DEF File
<1>8. file = IF pc[p] = "write" THEN File("whole", state[p]) ELSE NoFile
  BY <1>4, <1>6 DEF NoFile
<1>9. files' = [files EXCEPT ![d] = file]
  BY <1>1, <1>2, <1>8
<1>10. FilesOK' /\ files'[d] = file /\ \A e \in DOMAIN manifest \ {d} : files'[e] = files[e]
  BY <1>1, <1>5, <1>7, <1>9, OneFile DEF IInv
<1> QED BY <1>1, <1>2, <1>3, <1>8, <1>10

LEMMA WriteKeeps ==
  ASSUME IInv, NEW p \in Processes, Write(p) \/ DeleteState(p)
  PROVE  IInv'
<1>1. /\ pc[p] \in {"write", "drop"} /\ UNCHANGED <<cloud, faults, manifest, met>>
      /\ Ended(p) /\ FilesOK'
  BY Saves
<1>2. PICK d \in DOMAIN manifest : d = Doc(p)
  BY <1>1, DocIsListed DEF IInv
<1>3. OnFile(d)'
  <2>1. CASE pc[p] = "drop"
    <3>1. files'[d] = NoFile
      BY <1>2, <2>1, Saves
    <3>2. files'[d].content = "none" /\ files'[d].ids = NoIds
      BY <3>1 DEF NoFile, File
    <3> QED BY <3>2, Nobody DEF OnFile, MadeFor
  <2>2. CASE pc[p] = "write"
    <3>1. PICK ids : ids = state[p]
      OBVIOUS
    <3>2. files'[d].content = "whole" /\ files'[d].ids = ids
      <4>1. files'[d] = File("whole", ids)
        BY <1>2, <2>2, <3>1, Saves
      <4> QED BY <4>1 DEF File
    <3>3. MadeFor(d, ids) /\ Creates(manifest[d], ids, <<>>)
      <4>1. script[p] = <<>>
        BY <2>2 DEF IInv, TypeOK, ProcsOK
      <4> QED BY <1>2, <2>2, <3>1, <4>1 DEF IInv, AtPc
    <3>4. MakesOf(<<>>) = {}
      BY DEF MakesOf
    <3>5. MadeFor(d, files[d].ids)'
      BY <1>1, <3>2, <3>3 DEF MadeFor
    <3> QED BY <1>1, <3>2, <3>3, <3>4, <3>5 DEF OnFile, Creates
  <2> QED BY <1>1, <2>1, <2>2
<1>4. \A e \in DOMAIN manifest : files'[e] = files[e] \/ (e = Doc(p) /\ OnFile(e)')
  BY <1>2, <1>3, Saves
<1> QED BY <1>1, <1>4, EndKeeps

-----------------------------------------------------------------------------
(* The beginning of a command, and what happens to resources by itself.    *)

LEMMA Orders ==
  ASSUME NEW S, S # {}, IsFiniteSet(S), NEW order \in [1..Cardinality(S) -> S]
  PROVE  /\ order \in Seq(S) /\ order # <<>>
         /\ Reverse(order) \in Seq(S) /\ Reverse(order) # <<>>
<1>1. PICK n \in Nat : n = Cardinality(S)
  BY FS_CardinalityType
<1>2. n # 0
  BY <1>1, FS_EmptySet
<1>3. order \in Seq(S) /\ Len(order) = n
  BY <1>1
<1>4. Reverse(order) = [k \in 1..n |-> order[(n - k) + 1]]
  BY <1>3 DEF Reverse
<1>5. \A k \in 1..n : (n - k) + 1 \in 1..n
  OBVIOUS
<1>6. [k \in 1..n |-> order[(n - k) + 1]] \in [1..n -> S]
  BY <1>1, <1>5
<1>7. PICK back \in [1..n -> S] : back = Reverse(order)
  BY <1>4, <1>6
<1>8. back \in Seq(S) /\ Len(back) = n
  OBVIOUS
<1> QED BY <1>2, <1>3, <1>7, <1>8

LEMMA BeginKeeps ==
  ASSUME IInv, NEW p \in Processes, NEW cmd \in {"apply", "delete"}, Begin(p, cmd)
  PROVE  IInv'
<1>1. /\ command[p] = "none" /\ command' = [command EXCEPT ![p] = cmd]
      /\ pc' = [pc EXCEPT ![p] = "load"] /\ (met' <=> (met \/ Running # {}))
      /\ UNCHANGED <<manifest, files, cloud, script, state, faults>>
  BY DEF Begin
<1>2. ProcsOK /\ TypeOK
  BY DEF IInv, TypeOK
<1>3. PICK q \in Seq(DOMAIN manifest) : queue' = [queue EXCEPT ![p] = q] /\ q # <<>>
  <2>1. PICK docs : docs = DOMAIN manifest
    OBVIOUS
  <2>2. docs # {} /\ IsFiniteSet(docs)
    BY <1>2, <2>1, ManifestAssumption DEF TypeOK
  <2>3. PICK order \in [1..Cardinality(docs) -> docs] :
          queue' = [queue EXCEPT ![p] = IF cmd = "apply" THEN order ELSE Reverse(order)]
    BY <2>1 DEF Begin, OrderByDependency
  <2> QED BY <2>1, <2>2, <2>3, Orders
<1>4. pc[p] = "idle" /\ script[p] = <<>> /\ script[p] \in Seq(Steps) /\ IsRecord(state[p])
  BY <1>1, <1>2 DEF ProcsOK
<1>5. Puts(p, cmd, q, "load", script[p], state[p])
  BY <1>1, <1>2, <1>3, <1>4 DEF Puts, ProcsOK
<1>6. /\ ProcsOK' /\ pc'[p] = "load" /\ state'[p] = state[p]
      /\ \A r \in Processes \ {p} :
           /\ command'[r] = command[r] /\ queue'[r] = queue[r] /\ pc'[r] = pc[r]
           /\ script'[r] = script[r] /\ state'[r] = state[r]
  BY <1>1, <1>2, <1>5, PutsKeepsTypes
<1>7. Ages /\ CloudOK' /\ FilesOK' /\ \A d \in DOMAIN manifest : files'[d] = files[d]
  BY <1>1, <1>2, CloudStays, FilesStay
<1>8. TypeOK'
  BY <1>1, <1>2, <1>6, <1>7 DEF TypeOK
<1>9. Alone'
  BY <1>1, <1>6 DEF Alone, Running
<1>10. ASSUME NEW r \in Processes
       PROVE  AtPc(r)'
  <2>1. CASE r = p
    BY <1>4, <1>6, <2>1 DEF IInv, AtPc
  <2>2. CASE r # p
    <3>1. met' \/ pc[r] \in {"idle", "load"}
      BY <1>1, <1>2 DEF Running, ProcsOK
    <3> QED BY <1>1, <1>6, <1>7, <2>2, <3>1, Undisturbed
  <2> QED BY <2>1, <2>2
<1>11. \A d \in DOMAIN manifest' : OnFile(d)'
  BY <1>1, <1>7, FileUndisturbed
<1> QED BY <1>8, <1>9, <1>10, <1>11 DEF IInv

LEMMA DecayKeeps ==
  ASSUME IInv, NEW i \in Ids, Perish(i) \/ ShutDown(i)
  PROVE  IInv'
<1>1. /\ UNCHANGED <<manifest, files, procs, met>> /\ cloud[i].status # "none"
      /\ faults' = faults \/ Fault
      /\ cloud' = [cloud EXCEPT ![i].status = "gone"]
  BY DEF Perish, ShutDown, Live
<1>2. TypeOK /\ CloudOK
  BY DEF IInv, TypeOK
<1>3. Ages /\ CloudOK'
  <2>1. cloud' = [cloud EXCEPT ![i] = [cloud[i] EXCEPT !.status = "gone", !.parts = cloud[i].parts]]
    BY <1>1, <1>2 DEF CloudOK
  <2>2. PICK st, parts : st = "gone" /\ parts = cloud[i].parts /\ parts \subseteq Parts
    BY <1>2 DEF CloudOK
  <2>3. cloud' = [cloud EXCEPT ![i] = [cloud[i] EXCEPT !.status = st, !.parts = parts]]
    BY <2>1, <2>2
  <2> QED BY <1>1, <1>2, <2>2, <2>3, OneAges
<1>4. FilesOK' /\ \A d \in DOMAIN manifest : files'[d] = files[d]
  BY <1>1, <1>2, FilesStay
<1>5. TypeOK'
  <2>1. faults' \in 0..MaxFaults
    BY <1>1, <1>2, BoundsAssumption DEF TypeOK, Fault
  <2>2. ProcsOK'
    BY <1>1, <1>2 DEF TypeOK, ProcsOK, procs
  <2> QED BY <1>1, <1>2, <1>3, <1>4, <2>1, <2>2 DEF TypeOK
<1>6. Alone'
  BY <1>1 DEF IInv, Alone, Running, procs
<1>7. ASSUME NEW r \in Processes
      PROVE  AtPc(r)'
  <2>1. \/ met' \/ pc[r] \in {"idle", "load"}
        \/ ~met /\ files'[Doc(r)] = files[Doc(r)]
    BY <1>1
  <2> QED BY <1>1, <1>3, <2>1, Undisturbed DEF procs
<1>8. \A d \in DOMAIN manifest' : OnFile(d)'
  BY <1>1, <1>3, <1>4, FileUndisturbed
<1> QED BY <1>5, <1>6, <1>7, <1>8 DEF IInv

LEMMA StandingStill ==
  ASSUME IInv, UNCHANGED vars
  PROVE  IInv'
<1>1. UNCHANGED <<manifest, files, cloud, procs, met, faults>>
  BY DEF vars, procs
<1>2. Ages /\ TypeOK'
  BY <1>1 DEF IInv, TypeOK, FilesOK, CloudOK, ProcsOK, procs, Ages
<1>3. Alone'
  BY <1>1 DEF IInv, Alone, Running, procs
<1>4. \A r \in Processes : AtPc(r)'
  BY <1>1, <1>2, Undisturbed DEF procs
<1>5. \A d \in DOMAIN manifest' : OnFile(d)'
  BY <1>1, <1>2, FileUndisturbed
<1> QED BY <1>2, <1>3, <1>4, <1>5 DEF IInv

-----------------------------------------------------------------------------
(* The invariant.                                                          *)

LEMMA Initially == Init => IInv
<1> SUFFICES ASSUME Init
             PROVE  IInv
  OBVIOUS
<1>1. FilesOK /\ manifest \in Manifests
  BY Nobody DEF Init, FilesOK, NoFile, File
<1>2. CloudOK
  BY DEF Init, CloudOK, Resource
<1>3. ProcsOK
  <2>1. <<>> \in Seq(DOMAIN manifest) /\ <<>> \in Seq(Steps)
    OBVIOUS
  <2> QED BY <2>1, Nobody DEF Init, ProcsOK
<1>4. TypeOK
  <2>1. met \in BOOLEAN
    BY Zenon DEF Init
  <2>2. faults = 0
    BY DEF Init
  <2>3. faults \in 0..MaxFaults
    BY <2>2, BoundsAssumption
  <2> QED BY <1>1, <1>2, <1>3, <2>1, <2>3 DEF TypeOK
<1>5. Alone
  BY DEF Init, Alone, Running
<1>6. \A p \in Processes : AtPc(p)
  BY Nobody DEF Init, AtPc
<1>7. \A d \in DOMAIN manifest : OnFile(d)
  BY Nobody DEF Init, OnFile, MadeFor, NoFile, File
<1> QED BY <1>4, <1>5, <1>6, <1>7 DEF IInv

LEMMA RefusedKeeps ==
  ASSUME IInv, NEW p \in Processes,
         \/ CreateCallRefused(p) \/ SetCallRefused(p) \/ DropCallRefused(p)
         \/ RemoveCallRefused(p) \/ DescribeCallRefused(p) \/ NotAnswered(p)
  PROVE  IInv'
<1>1. pc[p] = "run" /\ CallFails(p) /\ (faults' = faults \/ Fault)
  BY DEF CreateCallRefused, SetCallRefused, DropCallRefused, RemoveCallRefused,
         DescribeCallRefused, NotAnswered, Call
<1> QED BY <1>1, CallFailsKeeps

LEMMA Inductive ==
  ASSUME IInv, [Next]_vars
  PROVE  IInv'
<1>1. CASE UNCHANGED vars
  BY <1>1, StandingStill
<1>2. ASSUME NEW p \in Processes, Proc(p)
      PROVE  IInv'
  <2>1. CASE \/ Unreadable(p) \/ Skip(p) \/ NotSupported(p) \/ FileFails(p)
    BY <2>1, GiveUpKeeps
  <2>2. CASE BeginCreation(p) \/ BeginDeletion(p)
    BY <2>2, BeginCreationKeeps, BeginDeletionKeeps
  <2>3. CASE CreateCall(p)
    BY <2>3, CreateKeeps
  <2>4. CASE SetCall(p) \/ DropCall(p) \/ RemoveCall(p)
    BY <2>4, ChangeKeeps
  <2>5. CASE DescribeCall(p) \/ ImageCall(p)
    BY <2>5, LookKeeps
  <2>6. CASE \/ CreateCallRefused(p) \/ SetCallRefused(p) \/ DropCallRefused(p)
             \/ RemoveCallRefused(p) \/ DescribeCallRefused(p) \/ NotAnswered(p)
    BY <2>6, RefusedKeeps
  <2>7. CASE Truncate(p)
    BY <2>7, TruncateKeeps
  <2>8. CASE Write(p) \/ DeleteState(p)
    BY <2>8, WriteKeeps
  <2> QED BY <1>2, <2>1, <2>2, <2>3, <2>4, <2>5, <2>6, <2>7, <2>8 DEF Proc
<1>3. ASSUME NEW p \in Processes, Crash(p)
      PROVE  IInv'
  BY <1>3, GiveUpKeeps
<1>4. ASSUME NEW p \in Processes, NEW cmd \in {"apply", "delete"}, Begin(p, cmd)
      PROVE  IInv'
  BY <1>4, BeginKeeps
<1>5. ASSUME NEW i \in Ids, Perish(i) \/ ShutDown(i)
      PROVE  IInv'
  BY <1>5, DecayKeeps
<1> QED BY <1>1, <1>2, <1>3, <1>4, <1>5 DEF Next

(* What relates a process to its document and a state file to what there   *)
(* is at AWS holds at all times.                                           *)
THEOREM Invariant == Spec => []IInv
<1>1. IInv /\ [Next]_vars => IInv'
  BY Inductive
<1> QED BY <1>1, Initially, PTL DEF Spec

(* Everything is of its type, for all manifests, processes and bounds.     *)
THEOREM TypeCorrect == Spec => []TypeOK
<1>1. IInv => TypeOK
  BY DEF IInv
<1> QED BY <1>1, Invariant, PTL

(* A state file that can be read has all that its document asks for, with  *)
(* the bastion as the exception: an apply that gives up never saves.       *)
THEOREM SavedWhole == Spec => []WhatIsRecordedIsComplete
<1>1. IInv => WhatIsRecordedIsComplete
  <2> SUFFICES ASSUME IInv, NEW d \in DOMAIN manifest, files[d].content = "whole",
                      NEW k \in DOMAIN createResource(manifest[d]),
                      createResource(manifest[d])[k].op = "make",
                      createResource(manifest[d])[k].slot # "bastionInstanceId"
               PROVE  /\ createResource(manifest[d])[k].slot \in DOMAIN files[d].ids
                      /\ cloud[files[d].ids[createResource(manifest[d])[k].slot]].doc = d
    BY DEF WhatIsRecordedIsComplete
  <2>1. createResource(manifest[d])[k].slot \in MadeSlots(manifest[d])
    BY DEF MadeSlots, MakesOf
  <2> QED BY <2>1 DEF IInv, OnFile, MadeFor
<1> QED BY <1>1, Invariant, PTL

(* Two documents have no resource in common, so that deleting one never    *)
(* deletes what the other is made of.                                      *)
THEOREM RecordedOnce == Spec => []NothingShared
<1>1. IInv => NothingShared
  <2> SUFFICES ASSUME IInv, NEW d \in DOMAIN manifest, NEW e \in DOMAIN manifest, d # e,
                      NEW i \in Recorded(d), i \in Recorded(e)
               PROVE  FALSE
    BY DEF NothingShared
  <2>1. cloud[i].doc = d /\ cloud[i].doc = e
    BY DEF IInv, OnFile, MadeFor, Recorded
  <2> QED BY <2>1
<1> QED BY <1>1, Invariant, PTL

(* Only these three steps touch a state file.                              *)
LEMMA WhoWrites ==
  ASSUME [Next]_vars
  PROVE  \/ UNCHANGED files
         \/ \E p \in Processes : Truncate(p) \/ Write(p) \/ DeleteState(p)
<1>1. ASSUME NEW p \in Processes, Proc(p)
      PROVE  UNCHANGED files \/ Truncate(p) \/ Write(p) \/ DeleteState(p)
  <2>1. Unreadable(p) \/ Skip(p) \/ NotSupported(p) \/ BeginCreation(p) \/ BeginDeletion(p) => UNCHANGED files
    BY DEF Unreadable, Skip, NotSupported, BeginCreation, BeginDeletion, LoadState
  <2>2. CreateCall(p) \/ SetCall(p) \/ DropCall(p) \/ RemoveCall(p) => UNCHANGED files
    BY DEF CreateCall, SetCall, DropCall, RemoveCall
  <2>3. DescribeCall(p) \/ ImageCall(p) \/ FileFails(p) => UNCHANGED files
    BY DEF DescribeCall, ImageCall, FileFails
  <2>4. CreateCallRefused(p) \/ SetCallRefused(p) \/ DropCallRefused(p) => UNCHANGED files
    BY DEF CreateCallRefused, SetCallRefused, DropCallRefused, CallFails
  <2>5. RemoveCallRefused(p) \/ DescribeCallRefused(p) \/ NotAnswered(p) => UNCHANGED files
    BY DEF RemoveCallRefused, DescribeCallRefused, NotAnswered, CallFails
  <2> QED BY <1>1, <2>1, <2>2, <2>3, <2>4, <2>5 DEF Proc
<1>2. ASSUME NEW p \in Processes, Crash(p) \/ \E cmd \in {"apply", "delete"} : Begin(p, cmd)
      PROVE  UNCHANGED files
  BY <1>2 DEF Crash, Begin
<1>3. ASSUME NEW i \in Ids, Perish(i) \/ ShutDown(i)
      PROVE  UNCHANGED files
  BY <1>3 DEF Perish, ShutDown
<1> QED BY <1>1, <1>2, <1>3 DEF Next, vars

(* A state file is deleted only when nothing lives that it records, as     *)
(* long as one command runs at a time; the deletion of a stack is the      *)
(* exception that the code makes.                                          *)
THEOREM GoneBeforeForgotten == Spec => ForgottenWhenGone
<1>1. ASSUME IInv, [Next]_vars, NEW d \in DOMAIN manifest
      PROVE  files[d].content = "whole" /\ files'[d].content = "none" =>
               Recorded(d) \cap Live = {} \/ manifest[d] \in Stacks \/ met
  <2> SUFFICES ASSUME files[d].content = "whole", files'[d].content = "none",
                      manifest[d] \notin Stacks, ~met
               PROVE  Recorded(d) \cap Live = {}
    OBVIOUS
  <2>1. PICK p \in Processes : Truncate(p) \/ Write(p) \/ DeleteState(p)
    BY <1>1, WhoWrites
  <2>2. pc[p] # "idle"
    BY <2>1 DEF Truncate, Write, DeleteState
  <2>3. Doc(p) = d /\ DeleteState(p)
    BY <1>1, <2>1 DEF IInv, TypeOK, FilesOK, Truncate, Write, DeleteState, Torn, File
  <2>4. pc[p] = "drop" /\ command[p] = "delete" /\ KnowsFile(p)
        /\ Deletes(manifest[d], state[p], script[p])
    BY <1>1, <2>3 DEF DeleteState, IInv, AtPc
  <2>5. files[d].ids = state[p]
    BY <2>3, <2>4 DEF KnowsFile, File
  <2>6. script[p] = <<>>
    BY <1>1, <2>4 DEF IInv, TypeOK, ProcsOK
  <2>7. \A s \in DOMAIN state[p] : state[p][s] \notin Live
    BY <2>4, <2>6 DEF Deletes
  <2> QED BY <2>5, <2>7 DEF Recorded
<1>2. IInv /\ [Next]_vars =>
        [\A d \in DOMAIN manifest :
           files[d].content = "whole" /\ files'[d].content = "none" =>
             \/ Recorded(d) \cap Live = {}
             \/ manifest[d] \in Stacks \/ met]_vars
  BY <1>1
<1> QED BY <1>2, Invariant, PTL DEF Spec, ForgottenWhenGone

(* Only these steps touch a resource; a lone one knows the file.           *)
LEMMA WhoMakes ==
  ASSUME [Next]_vars
  PROVE  \/ UNCHANGED cloud
         \/ \E p \in Processes : CreateCall(p) \/ SetCall(p) \/ DropCall(p) \/ RemoveCall(p)
         \/ \E i \in Ids : Perish(i) \/ ShutDown(i)
<1>1. ASSUME NEW p \in Processes, Proc(p)
      PROVE  UNCHANGED cloud \/ CreateCall(p) \/ SetCall(p) \/ DropCall(p) \/ RemoveCall(p)
  <2>1. Unreadable(p) \/ Skip(p) \/ NotSupported(p) \/ BeginCreation(p) \/ BeginDeletion(p) => UNCHANGED cloud
    BY DEF Unreadable, Skip, NotSupported, BeginCreation, BeginDeletion, LoadState
  <2>2. Truncate(p) \/ Write(p) \/ DeleteState(p) => UNCHANGED cloud
    BY DEF Truncate, Write, DeleteState
  <2>3. DescribeCall(p) \/ ImageCall(p) \/ FileFails(p) => UNCHANGED cloud
    BY DEF DescribeCall, ImageCall, FileFails
  <2>4. CreateCallRefused(p) \/ SetCallRefused(p) \/ DropCallRefused(p) => UNCHANGED cloud
    BY DEF CreateCallRefused, SetCallRefused, DropCallRefused, CallFails
  <2>5. RemoveCallRefused(p) \/ DescribeCallRefused(p) \/ NotAnswered(p) => UNCHANGED cloud
    BY DEF RemoveCallRefused, DescribeCallRefused, NotAnswered, CallFails
  <2> QED BY <1>1, <2>1, <2>2, <2>3, <2>4, <2>5 DEF Proc
<1>2. ASSUME NEW p \in Processes, Crash(p) \/ \E cmd \in {"apply", "delete"} : Begin(p, cmd)
      PROVE  UNCHANGED cloud
  BY <1>2 DEF Crash, Begin
<1> QED BY <1>1, <1>2 DEF Next, vars

(* A file that is being written, or was when the process died, stops all   *)
(* work on its document, until two commands meet.                          *)
THEOREM TornIsLeftAlone == Spec => TornStopsAll
<1>1. ASSUME IInv, [Next]_vars, NEW d \in DOMAIN manifest,
             files[d].content = "torn", faults' = faults, ~met
      PROVE  LiveOf(d)' = LiveOf(d)
  <2>1. CloudOK
    BY <1>1 DEF IInv, TypeOK
  <2>2. ASSUME NEW p \in Processes, pc[p] = "run"
        PROVE  Doc(p) # d
    <3>1. \/ files[Doc(p)].content = "none"
          \/ files[Doc(p)] = File("whole", state[p])
      BY <1>1, <2>2, Calling
    <3> QED BY <1>1, <3>1 DEF File
  <2>3. CASE UNCHANGED cloud
    BY <2>3 DEF LiveOf, Live
  <2>4. ASSUME NEW p \in Processes, CreateCall(p)
        PROVE  LiveOf(d)' = LiveOf(d)
    <3>1. pc[p] = "run" /\ Doc(p) # d
      BY <2>2, <2>4 DEF CreateCall, Call
    <3>2. PICK i \in Fresh :
            cloud' = [cloud EXCEPT ![i] = Resource("available", Slot(p), Doc(p), {}, Network(p))]
      BY <2>4 DEF CreateCall
    <3>3. i \in Ids /\ cloud[i].status = "none"
      BY DEF Fresh, Unused
    <3>4. cloud'[i].doc # d /\ \A j \in Ids \ {i} : cloud'[j] = cloud[j]
      BY <2>1, <3>1, <3>2, <3>3 DEF CloudOK, Resource
    <3> QED BY <3>3, <3>4 DEF LiveOf, Live
  <2>5. ASSUME NEW p \in Processes, SetCall(p) \/ DropCall(p) \/ RemoveCall(p)
        PROVE  LiveOf(d)' = LiveOf(d)
    <3>1. pc[p] = "run" /\ Doc(p) # d
      BY <2>2, <2>5 DEF SetCall, DropCall, RemoveCall, Call
    <3>2. PICK i \in Ids : i = Target(p) /\ cloud[i].status # "none"
      BY <2>5 DEF SetCall, DropCall, RemoveCall, Live, Described
    <3>3. /\ \A j \in Ids \ {i} : cloud'[j] = cloud[j]
          /\ cloud'[i].doc = cloud[i].doc
          /\ cloud'[i].status = cloud[i].status \/ RemoveCall(p)
      <4>1. CASE SetCall(p)
        <5>1. cloud' = [cloud EXCEPT ![i].parts = cloud[i].parts \cup {Part(p)}]
          BY <3>2, <4>1 DEF SetCall
        <5> QED BY <2>1, <5>1 DEF CloudOK
      <4>2. CASE DropCall(p)
        <5>1. cloud' = [cloud EXCEPT ![i].parts = cloud[i].parts \ {Part(p)}]
          BY <3>2, <4>2 DEF DropCall
        <5> QED BY <2>1, <5>1 DEF CloudOK
      <4>3. CASE RemoveCall(p)
        <5>1. PICK st : cloud' = [cloud EXCEPT ![i].status = st]
          BY <3>2, <4>3 DEF RemoveCall
        <5> QED BY <2>1, <4>3, <5>1 DEF CloudOK
      <4> QED BY <2>5, <4>1, <4>2, <4>3
    <3>4. RemoveCall(p) => cloud[i].doc # d
      <4> SUFFICES ASSUME RemoveCall(p)
                   PROVE  cloud[i].doc # d
        OBVIOUS
      <4>1. PICK steps \in Seq(Steps) : steps = script[p]
        BY <1>1, <3>1, Calling
      <4>2. steps # <<>> /\ steps[1] = Head(steps) /\ 1 \in DOMAIN steps
        BY <1>1, <3>1, <4>1, Calling, RestFacts
      <4>3. Head(steps).op = "remove" /\ Slot(p) = Head(steps).slot
        BY <4>1 DEF RemoveCall, Call, Slot
      <4>4. Slot(p) \in DOMAIN state[p]
        BY <1>1, <3>1, <4>1, <4>2, <4>3, Calling DEF Creates, Deletes
      <4> QED BY <1>1, <3>1, <3>2, <4>4, Calling DEF Target, MadeFor
    <3> QED BY <3>3, <3>4 DEF LiveOf, Live
  <2>6. ASSUME NEW i \in Ids, Perish(i) \/ ShutDown(i)
        PROVE  LiveOf(d)' = LiveOf(d)
    <3>1. ~Perish(i)
      BY <1>1, BoundsAssumption DEF Perish, Fault, IInv, TypeOK
    <3>2. cloud[i].status = "deleting" /\ cloud' = [cloud EXCEPT ![i].status = "gone"]
      BY <2>6, <3>1 DEF ShutDown
    <3>3. cloud'[i].status = "gone" /\ \A j \in Ids \ {i} : cloud'[j] = cloud[j]
      BY <2>1, <3>2 DEF CloudOK
    <3> QED BY <3>2, <3>3 DEF LiveOf, Live
  <2> QED BY <1>1, <2>3, <2>4, <2>5, <2>6, WhoMakes
<1>2. IInv /\ [Next]_vars =>
        [\A d \in DOMAIN manifest :
           files[d].content = "torn" => LiveOf(d)' = LiveOf(d) \/ faults' # faults \/ met]_vars
  BY <1>1
<1> QED BY <1>2, Invariant, PTL DEF Spec, TornStopsAll

-----------------------------------------------------------------------------
(* What is lost, and what is not: the scripts again.                       *)

LEMMA TwoSteps ==
  ASSUME NEW a \in Steps, NEW b \in Steps, NEW s, s = <<a, b>>
  PROVE  s \in Seq(Steps) /\ Len(s) = 2 /\ DOMAIN s = 1..2 /\ s[1] = a /\ s[2] = b
OBVIOUS

LEMMA ThreeSteps ==
  ASSUME NEW a \in Steps, NEW b \in Steps, NEW c \in Steps, NEW s, s = <<a, b, c>>
  PROVE  /\ s \in Seq(Steps) /\ Len(s) = 3 /\ DOMAIN s = 1..3
         /\ s[1] = a /\ s[2] = b /\ s[3] = c
OBVIOUS

LEMMA OneMade ==
  ASSUME NEW s \in Slots
  PROVE  Orderly({}, <<Make(s)>>)
<1>1. PICK a : a = Make(s) /\ a.op = "make"
  BY MakeFacts
<1>2. Orderly({}, <<a>>)
  BY <1>1 DEF Orderly, Insists
<1> QED BY <1>1, <1>2

LEMMA MadeAndSet ==
  ASSUME NEW s \in Slots \ Instances, NEW part \in Parts
  PROVE  /\ Orderly({}, <<Make(s), Set(s, part)>>)
         /\ Orderly({}, <<Make(s), TrySet(s, part)>>)
<1>1. PICK a \in Steps : a = Make(s) /\ a.op = "make" /\ a.slot = s
  BY MakeFacts
<1>2. ASSUME NEW b \in Steps, b.op = "set", b.slot = s
      PROVE  Orderly({}, <<a, b>>)
  <2>1. PICK steps : steps = <<a, b>>
    OBVIOUS
  <2>2. DOMAIN steps = 1..2 /\ steps[1] = a /\ steps[2] = b
    BY <2>1, TwoSteps
  <2>3. Orderly({}, steps)
    BY <1>1, <1>2, <2>2 DEF Orderly, Insists
  <2> QED BY <2>1, <2>3
<1>3. /\ Set(s, part).op = "set" /\ Set(s, part).slot = s
      /\ TrySet(s, part).op = "set" /\ TrySet(s, part).slot = s
      /\ Set(s, part) \in Steps /\ TrySet(s, part) \in Steps
  BY DEF Set, TrySet, Step, Steps
<1> QED BY <1>1, <1>2, <1>3

LEMMA SomeSlots ==
  /\ Instances \subseteq Slots
  /\ {"vpcId", "internetGatewayId", "publicSubnetId", "routeTableId", "securityGroupId"}
       \subseteq Slots \ Instances
BY DEF Slots, Instances

(* A script of two parts, step by step.                                    *)
Joins(c, a, b) ==
  /\ c \in Seq(Steps) /\ Len(c) = Len(a) + Len(b) /\ DOMAIN c = 1..Len(a) + Len(b)
  /\ \A k \in Int : 1 <= k /\ k <= Len(a) => c[k] = a[k]
  /\ \A k \in Int : Len(a) < k /\ k <= Len(a) + Len(b) => c[k] = b[k - Len(a)]

LEMMA JoinedAt ==
  ASSUME NEW a \in Seq(Steps), NEW b \in Seq(Steps)
  PROVE  Joins(a \o b, a, b)
BY DEF Joins

(* The whole script of a stack without a bastion.                          *)
LEMMA StackSteps ==
  ASSUME NEW s, s = createComputeStack(FALSE)
  PROVE  /\ s \in Seq(Steps) /\ DOMAIN s = 1..10
         /\ s[1] = Make("vpcId") /\ s[2] = TrySet("vpcId", "dns")
         /\ s[3] = Make("internetGatewayId") /\ s[4] = Set("internetGatewayId", "attachment")
         /\ s[5] = Describe("vpcId") /\ s[6] = Make("publicSubnetId")
         /\ s[7] = TrySet("publicSubnetId", "publicIp") /\ s[8] = Make("routeTableId")
         /\ s[9] = TrySet("routeTableId", "route") /\ s[10] = TrySet("routeTableId", "association")
<1>1. PICK a, b, c, d, e, f, g, h, i, j :
        /\ a = Make("vpcId") /\ b = TrySet("vpcId", "dns")
        /\ c = Make("internetGatewayId") /\ d = Set("internetGatewayId", "attachment")
        /\ e = Describe("vpcId") /\ f = Make("publicSubnetId")
        /\ g = TrySet("publicSubnetId", "publicIp") /\ h = Make("routeTableId")
        /\ i = TrySet("routeTableId", "route") /\ j = TrySet("routeTableId", "association")
  OBVIOUS
<1>2. /\ a \in Steps /\ b \in Steps /\ c \in Steps /\ d \in Steps /\ e \in Steps
      /\ f \in Steps /\ g \in Steps /\ h \in Steps /\ i \in Steps /\ j \in Steps
  BY <1>1, Names, MakeFacts, SetFacts, DeleteFacts
<1>3. s = (((<<a, b>> \o <<c, d>>) \o <<e, f, g>>) \o <<h, i, j>>) \o <<>>
  BY <1>1, Zenon DEF createComputeStack, createVPC, createInternetGateway
<1>4. PICK u, v, w, x, y :
        u = <<a, b>> /\ v = <<c, d>> /\ w = <<e, f, g>> /\ x = <<h, i, j>> /\ y = <<>>
  OBVIOUS
<1>5. u \in Seq(Steps) /\ Len(u) = 2 /\ u[1] = a /\ u[2] = b
  BY <1>2, <1>4, TwoSteps
<1>6. v \in Seq(Steps) /\ Len(v) = 2 /\ v[1] = c /\ v[2] = d
  BY <1>2, <1>4, TwoSteps
<1>7. w \in Seq(Steps) /\ Len(w) = 3 /\ w[1] = e /\ w[2] = f /\ w[3] = g
  BY <1>2, <1>4, ThreeSteps
<1>8. x \in Seq(Steps) /\ Len(x) = 3 /\ x[1] = h /\ x[2] = i /\ x[3] = j
  BY <1>2, <1>4, ThreeSteps
<1>9. y \in Seq(Steps) /\ Len(y) = 0
  BY <1>4
<1>10. PICK q, r, t : q = u \o v /\ r = q \o w /\ t = r \o x
  OBVIOUS
<1>11. q \in Seq(Steps) /\ Len(q) = 4 /\ q[1] = a /\ q[2] = b /\ q[3] = c /\ q[4] = d
  <2>1. Joins(q, u, v)
    BY <1>5, <1>6, <1>10, JoinedAt
  <2> QED BY <1>5, <1>6, <2>1 DEF Joins
<1>12. /\ r \in Seq(Steps) /\ Len(r) = 7
       /\ r[1] = a /\ r[2] = b /\ r[3] = c /\ r[4] = d /\ r[5] = e /\ r[6] = f /\ r[7] = g
  <2>1. Joins(r, q, w)
    BY <1>7, <1>10, <1>11, JoinedAt
  <2> QED BY <1>7, <1>11, <2>1 DEF Joins
<1>13. /\ t \in Seq(Steps) /\ Len(t) = 10
       /\ t[1] = a /\ t[2] = b /\ t[3] = c /\ t[4] = d /\ t[5] = e /\ t[6] = f /\ t[7] = g
       /\ t[8] = h /\ t[9] = i /\ t[10] = j
  <2>1. Joins(t, r, x)
    BY <1>8, <1>10, <1>12, JoinedAt
  <2> QED BY <1>8, <1>12, <2>1 DEF Joins
<1>14. s = t
  BY <1>3, <1>4, <1>10, <1>13, ConcatEmptySeq
<1>15. DOMAIN t = 1..10
  BY <1>13
<1> QED BY <1>1, <1>13, <1>14, <1>15, Zenon

LEMMA StackOrderly ==
  /\ Orderly({}, createComputeStack(FALSE))
  /\ MadeSlots("ComputeStack") = {"vpcId", "internetGatewayId", "publicSubnetId", "routeTableId"}
<1>1. PICK s : s = createComputeStack(FALSE)
  OBVIOUS
<1>2. /\ DOMAIN s = 1..10
      /\ s[1] = Make("vpcId") /\ s[2] = TrySet("vpcId", "dns")
      /\ s[3] = Make("internetGatewayId") /\ s[4] = Set("internetGatewayId", "attachment")
      /\ s[5] = Describe("vpcId") /\ s[6] = Make("publicSubnetId")
      /\ s[7] = TrySet("publicSubnetId", "publicIp") /\ s[8] = Make("routeTableId")
      /\ s[9] = TrySet("routeTableId", "route") /\ s[10] = TrySet("routeTableId", "association")
  BY <1>1, StackSteps
<1>3. /\ \A k \in {1, 3, 6, 8} : s[k].op = "make"
      /\ \A k \in {2, 4, 7, 9, 10} : s[k].op = "set"
      /\ \A k \in {2, 7, 9, 10} : s[k].on = "ignored"
      /\ s[5].op = "describe"
      /\ \A k \in {1, 2, 5} : s[k].slot = "vpcId"
      /\ \A k \in {3, 4} : s[k].slot = "internetGatewayId"
      /\ \A k \in {6, 7} : s[k].slot = "publicSubnetId"
      /\ \A k \in {8, 9, 10} : s[k].slot = "routeTableId"
  <2>1. \A x : Make(x).op = "make" /\ Make(x).slot = x
    BY DEF Make, Step
  <2>2. \A x, y : /\ TrySet(x, y).op = "set" /\ TrySet(x, y).slot = x /\ TrySet(x, y).on = "ignored"
                  /\ Set(x, y).op = "set" /\ Set(x, y).slot = x
    BY DEF Set, TrySet, Step
  <2>3. Describe("vpcId").op = "describe" /\ Describe("vpcId").slot = "vpcId"
    BY DEF Describe, Step
  <2> QED BY <1>2, <2>1, <2>2, <2>3
<1>4. \A k \in DOMAIN s : \/ k = 1 \/ k = 2 \/ k = 3 \/ k = 4 \/ k = 5
                          \/ k = 6 \/ k = 7 \/ k = 8 \/ k = 9 \/ k = 10
  BY <1>2
<1>5. \A k \in DOMAIN s : /\ s[k].op = "make" <=> k \in {1, 3, 6, 8}
                          /\ s[k].op = "set" <=> k \in {2, 4, 7, 9, 10}
                          /\ Insists(s[k]) => k = 4
                          /\ s[k].op = "describe" => k = 5
  BY <1>3, <1>4 DEF Insists
<1>6. Orderly({}, s)
  <2> SUFFICES ASSUME NEW k \in DOMAIN s
               PROVE  /\ s[k].op \in {"make", "set", "describe"}
                      /\ s[k].op = "describe" => s[k].slot = "vpcId"
                      /\ s[k].op = "set" => s[k].slot \notin Instances
                      /\ s[k].op = "set" =>
                           \E j \in DOMAIN s : j < k /\ s[j].op = "make" /\ s[j].slot = s[k].slot
                      /\ \A j \in DOMAIN s :
                           /\ j < k
                           /\ \/ s[j].op = "make" /\ s[k].op = "make"
                              \/ s[j].op = "set" /\ Insists(s[k])
                           => s[j].slot # s[k].slot
    BY Zenon DEF Orderly
  <2>1. s[k].op \in {"make", "set", "describe"} /\ (s[k].op = "describe" => s[k].slot = "vpcId")
    BY <1>3, <1>4
  <2>2. s[k].op = "set" => s[k].slot \notin Instances
    BY <1>3, <1>4, SomeSlots
  <2>3. s[k].op = "set" => \E j \in DOMAIN s : j < k /\ s[j].op = "make" /\ s[j].slot = s[k].slot
    <3>1. 1 \in DOMAIN s /\ 3 \in DOMAIN s /\ 6 \in DOMAIN s /\ 8 \in DOMAIN s
      BY <1>2
    <3> QED BY <1>3, <1>5, <3>1
  <2>4. ASSUME NEW j \in DOMAIN s, j < k, s[j].op = "make", s[k].op = "make"
        PROVE  s[j].slot # s[k].slot
    <3>1. j \in {1, 3, 6, 8} /\ k \in {1, 3, 6, 8}
      BY <1>5, <2>4
    <3> QED BY <1>3, <2>4, <3>1
  <2>5. ASSUME NEW j \in DOMAIN s, j < k, s[j].op = "set", Insists(s[k])
        PROVE  s[j].slot # s[k].slot
    <3>1. j \in {2, 4, 7, 9, 10} /\ k = 4
      BY <1>5, <2>5
    <3> QED BY <1>3, <2>5, <3>1
  <2> QED BY <2>1, <2>2, <2>3, <2>4, <2>5
<1>7. MakesOf(s) = {"vpcId", "internetGatewayId", "publicSubnetId", "routeTableId"}
  <2>1. {k \in DOMAIN s : s[k].op = "make"} = {1, 3, 6, 8}
    BY <1>2, <1>5
  <2> QED BY <1>3, <2>1 DEF MakesOf
<1> QED BY <1>1, <1>6, <1>7, CreationScripts DEF MadeSlots

LEMMA CreationsOrderly ==
  ASSUME NEW kind \in Kinds, kind # "ComputeStackWithBastion"
  PROVE  Orderly({}, createResource(kind))
<1>1. Orderly({}, <<>>)
  BY DEF Orderly
<1>2. Orderly({}, createVPC)
  BY MadeAndSet, SomeSlots, Names DEF createVPC
<1>3. Orderly({}, createSubnet)
  BY OneMade, Names DEF createSubnet
<1>4. Orderly({}, createInternetGateway)
  BY MadeAndSet, SomeSlots, Names DEF createInternetGateway
<1>5. Orderly({}, createSecurityGroup)
  BY MadeAndSet, SomeSlots, Names DEF createSecurityGroup
<1>6. Orderly({}, createEC2Instance)
  BY OneMade, Names DEF createEC2Instance
<1> QED BY <1>1, <1>2, <1>3, <1>4, <1>5, <1>6, StackOrderly, CreationScripts DEF Kinds

LEMMA OrderlyOn ==
  ASSUME NEW slots, NEW new, NEW steps \in Seq(Steps), steps # <<>>, Orderly(slots, steps),
         new = IF Head(steps).op = "make" THEN slots \cup {Head(steps).slot} ELSE slots
  PROVE  Orderly(new, Tail(steps))
<1> DEFINE t == Tail(steps)
<1>1. /\ 1 \in DOMAIN steps /\ steps[1] = Head(steps)
      /\ \A k \in DOMAIN t : k \in Int /\ k + 1 \in DOMAIN steps /\ 1 < k + 1 /\ t[k] = steps[k + 1]
      /\ \A k \in DOMAIN steps : k = 1 \/ (k - 1 \in DOMAIN t /\ t[k - 1] = steps[k])
      /\ DOMAIN steps \subseteq Int
  BY RestFacts
<1> HIDE DEF t
<1> SUFFICES ASSUME NEW k \in DOMAIN t
             PROVE  /\ t[k].op \in {"make", "set", "describe"}
                    /\ t[k].op = "describe" => t[k].slot = "vpcId"
                    /\ t[k].op = "make" => t[k].slot \notin new
                    /\ t[k].op = "set" => t[k].slot \notin Instances
                    /\ t[k].op = "set" =>
                         \/ t[k].slot \in new
                         \/ \E j \in DOMAIN t : j < k /\ t[j].op = "make" /\ t[j].slot = t[k].slot
                    /\ \A j \in DOMAIN t :
                         /\ j < k
                         /\ \/ t[j].op = "make" /\ t[k].op = "make"
                            \/ t[j].op = "set" /\ Insists(t[k])
                         => t[j].slot # t[k].slot
  BY Zenon DEF Orderly, t
<1>2. k + 1 \in DOMAIN steps /\ t[k] = steps[k + 1] /\ 1 < k + 1 /\ k \in Int
  BY <1>1
<1>3. /\ t[k].op \in {"make", "set", "describe"}
      /\ t[k].op = "describe" => t[k].slot = "vpcId"
      /\ t[k].op = "set" => t[k].slot \notin Instances
  BY <1>2 DEF Orderly
<1>4. t[k].op = "make" => t[k].slot \notin new
  <2>1. steps[k + 1].op = "make" => steps[k + 1].slot \notin slots
    BY <1>2 DEF Orderly
  <2>2. steps[k + 1].op = "make" /\ steps[1].op = "make" => steps[1].slot # steps[k + 1].slot
    BY <1>1, <1>2 DEF Orderly
  <2> QED BY <1>1, <1>2, <2>1, <2>2
<1>5. ASSUME t[k].op = "set", t[k].slot \notin new
      PROVE  \E j \in DOMAIN t : j < k /\ t[j].op = "make" /\ t[j].slot = t[k].slot
  <2>1. PICK j \in DOMAIN steps : j < k + 1 /\ steps[j].op = "make" /\ steps[j].slot = t[k].slot
    BY <1>2, <1>5 DEF Orderly
  <2>2. j # 1
    BY <1>1, <1>5, <2>1
  <2>3. j - 1 \in DOMAIN t /\ t[j - 1] = steps[j] /\ j \in Int
    BY <1>1, <2>2
  <2> QED BY <1>2, <2>1, <2>3
<1>6. ASSUME NEW j \in DOMAIN t, j < k,
             \/ t[j].op = "make" /\ t[k].op = "make"
             \/ t[j].op = "set" /\ Insists(t[k])
      PROVE  t[j].slot # t[k].slot
  <2>1. j + 1 \in DOMAIN steps /\ t[j] = steps[j + 1] /\ j + 1 < k + 1
    BY <1>1, <1>2, <1>6
  <2> QED BY <1>2, <1>6, <2>1 DEF Orderly
<1> QED BY <1>3, <1>4, <1>5, <1>6

(* The whole script that deletes a stack without a bastion.                *)
LEMMA ClearingSteps ==
  ASSUME NEW ids, DOMAIN ids = {"vpcId", "internetGatewayId", "publicSubnetId", "routeTableId"},
         NEW s, s = deleteComputeStack(ids)
  PROVE  /\ s \in Seq(Steps) /\ DOMAIN s = 1..7
         /\ s[1] = Describe("routeTableId") /\ s[2] = Drop("routeTableId", "association")
         /\ s[3] = TryDelete("routeTableId") /\ s[4] = TryDelete("publicSubnetId")
         /\ s[5] = Drop("internetGatewayId", "attachment")
         /\ s[6] = TryDelete("internetGatewayId") /\ s[7] = TryDelete("vpcId")
<1>1. PICK a, b, c, d, e, f, g :
        /\ a = Describe("routeTableId") /\ b = Drop("routeTableId", "association")
        /\ c = TryDelete("routeTableId") /\ d = TryDelete("publicSubnetId")
        /\ e = Drop("internetGatewayId", "attachment")
        /\ f = TryDelete("internetGatewayId") /\ g = TryDelete("vpcId")
  OBVIOUS
<1>2. /\ a \in Steps /\ b \in Steps /\ c \in Steps /\ d \in Steps /\ e \in Steps
      /\ f \in Steps /\ g \in Steps
  BY <1>1, Names, SetFacts, DeleteFacts
<1>3. PICK n, u, v, w, x :
        n = <<>> /\ u = <<a, b, c>> /\ v = <<d>> /\ w = <<e, f>> /\ x = <<g>>
  OBVIOUS
<1>4. s = ((((n \o n) \o u) \o v) \o w) \o x
  <2>1. /\ IfRecorded("bastionInstanceId", ids, <<TryDelete("bastionInstanceId")>>) = n
        /\ IfRecorded("bastionSecurityGroupId", ids, <<TryDelete("bastionSecurityGroupId")>>) = n
        /\ IfRecorded("routeTableId", ids,
             <<Describe("routeTableId"), Drop("routeTableId", "association"),
               TryDelete("routeTableId")>>) = u
        /\ IfRecorded("publicSubnetId", ids, <<TryDelete("publicSubnetId")>>) = v
        /\ IfRecorded("internetGatewayId", ids,
             <<Drop("internetGatewayId", "attachment"), TryDelete("internetGatewayId")>>) = w
        /\ IfRecorded("vpcId", ids, <<TryDelete("vpcId")>>) = x
    BY <1>1, <1>3 DEF IfRecorded
  <2> QED BY <2>1, Zenon DEF deleteComputeStack
<1>5. n \in Seq(Steps) /\ Len(n) = 0
  BY <1>3
<1>6. u \in Seq(Steps) /\ Len(u) = 3 /\ u[1] = a /\ u[2] = b /\ u[3] = c
  BY <1>2, <1>3, ThreeSteps
<1>7. v \in Seq(Steps) /\ Len(v) = 1 /\ v[1] = d
  BY <1>2, <1>3
<1>8. w \in Seq(Steps) /\ Len(w) = 2 /\ w[1] = e /\ w[2] = f
  BY <1>2, <1>3, TwoSteps
<1>9. x \in Seq(Steps) /\ Len(x) = 1 /\ x[1] = g
  BY <1>2, <1>3
<1>10. PICK q, r, t : q = u \o v /\ r = q \o w /\ t = r \o x
  OBVIOUS
<1>11. q \in Seq(Steps) /\ Len(q) = 4 /\ q[1] = a /\ q[2] = b /\ q[3] = c /\ q[4] = d
  <2>1. Joins(q, u, v)
    BY <1>6, <1>7, <1>10, JoinedAt
  <2> QED BY <1>6, <1>7, <2>1 DEF Joins
<1>12. /\ r \in Seq(Steps) /\ Len(r) = 6
       /\ r[1] = a /\ r[2] = b /\ r[3] = c /\ r[4] = d /\ r[5] = e /\ r[6] = f
  <2>1. Joins(r, q, w)
    BY <1>8, <1>10, <1>11, JoinedAt
  <2> QED BY <1>8, <1>11, <2>1 DEF Joins
<1>13. /\ t \in Seq(Steps) /\ Len(t) = 7
       /\ t[1] = a /\ t[2] = b /\ t[3] = c /\ t[4] = d /\ t[5] = e /\ t[6] = f /\ t[7] = g
  <2>1. Joins(t, r, x)
    BY <1>9, <1>10, <1>12, JoinedAt
  <2> QED BY <1>9, <1>12, <2>1 DEF Joins
<1>14. s = t
  <2>1. n \o n = n /\ n \o u = u
    BY <1>3, <1>5, <1>6, ConcatEmptySeq
  <2> QED BY <1>4, <1>10, <2>1
<1>15. DOMAIN t = 1..7
  BY <1>13
<1> QED BY <1>1, <1>13, <1>14, <1>15, Zenon

LEMMA TryFacts ==
  ASSUME NEW s, NEW x, NEW part
  PROVE  /\ TryDelete(s) = TryDelete(x) => s = x
         /\ TryDelete(s) # Drop(x, part) /\ TryDelete(s) # Describe(x)
         /\ TryDelete(s).op = "remove" /\ Drop(s, part).op = "drop" /\ Describe(s).op = "describe"
         /\ TryDelete(s).slot = s /\ Drop(s, part).slot = s /\ Drop(s, part).part = part
         /\ TryDelete(s).on = "ignored"
<1>1. TryDelete(s).slot = s /\ TryDelete(x).slot = x
  BY DEF TryDelete, Step
<1>2. TryDelete(s).op = "remove" /\ Drop(x, part).op = "drop" /\ Describe(x).op = "describe"
  BY DEF TryDelete, Drop, Describe, Step
<1>3. Drop(s, part).op = "drop" /\ Drop(s, part).slot = s /\ Drop(s, part).part = part
  BY DEF Drop, Step
<1>4. Describe(s).op = "describe" /\ TryDelete(s).on = "ignored"
  BY DEF Describe, TryDelete, Step
<1> QED BY <1>1, <1>2, <1>3, <1>4

LEMMA ClearsAtFirst ==
  ASSUME NEW ids, DOMAIN ids = {"vpcId", "internetGatewayId", "publicSubnetId", "routeTableId"}
  PROVE  Clears(ids, deleteComputeStack(ids))
<1>1. PICK s : s = deleteComputeStack(ids)
  OBVIOUS
<1>2. /\ DOMAIN s = 1..7
      /\ s[1] = Describe("routeTableId") /\ s[2] = Drop("routeTableId", "association")
      /\ s[3] = TryDelete("routeTableId") /\ s[4] = TryDelete("publicSubnetId")
      /\ s[5] = Drop("internetGatewayId", "attachment")
      /\ s[6] = TryDelete("internetGatewayId") /\ s[7] = TryDelete("vpcId")
  BY <1>1, ClearingSteps
<1>3. \A k \in DOMAIN s : k = 1 \/ k = 2 \/ k = 3 \/ k = 4 \/ k = 5 \/ k = 6 \/ k = 7
  BY <1>2
<1>4. 2 \in DOMAIN s /\ 3 \in DOMAIN s /\ 4 \in DOMAIN s /\ 5 \in DOMAIN s /\ 6 \in DOMAIN s /\ 7 \in DOMAIN s
  BY <1>2
<1>5. \A x \in DOMAIN ids : \E k \in DOMAIN s : s[k] = TryDelete(x)
  BY <1>2, <1>4
<1>6. \A k \in DOMAIN s : s[k].op # "set"
  BY <1>2, <1>3, TryFacts
<1>7. \A k \in DOMAIN s : s[k] = TryDelete("routeTableId") => k = 3
  BY <1>2, <1>3, TryFacts
<1>8. \A k \in DOMAIN s : s[k] = TryDelete("internetGatewayId") => k = 6
  BY <1>2, <1>3, TryFacts
<1>9. \A k \in DOMAIN s : s[k] = TryDelete("vpcId") => k = 7
  BY <1>2, <1>3, TryFacts
<1>10. Loosens(ids, s, "routeTableId", "association")
  BY <1>2, <1>4, <1>7 DEF Loosens
<1>11. Loosens(ids, s, "internetGatewayId", "attachment")
  BY <1>2, <1>4, <1>8 DEF Loosens
<1>12. \A j, k \in DOMAIN s : s[k] = TryDelete("vpcId") => j <= k
  BY <1>3, <1>9
<1> QED BY <1>1, <1>5, <1>6, <1>10, <1>11, <1>12 DEF Clears

-----------------------------------------------------------------------------
(* The rest of a script keeps to it.                                       *)
LEMMA BuildsOn ==
  ASSUME NEW ids, NEW new, NEW steps \in Seq(Steps), steps # <<>>, Builds(ids, steps),
         DOMAIN new = IF Head(steps).op = "make" THEN DOMAIN ids \cup {Head(steps).slot}
                      ELSE DOMAIN ids,
         \A s \in DOMAIN new : new[s] \in Live',
         \A s \in DOMAIN new :
           \/ Head(steps).op = "make" /\ Head(steps).slot = s
           \/ /\ s \in DOMAIN ids /\ cloud[ids[s]].parts = {}
              /\ Head(steps).op = "set" => Head(steps).slot # s
           => cloud'[new[s]].parts = {}
  PROVE  Builds(new, Tail(steps))'
<1>1. Orderly(DOMAIN ids, steps)
  BY DEF Builds
<1>2. Orderly(DOMAIN new, Tail(steps))
  BY <1>1, OrderlyOn
<1>3. ASSUME NEW k \in DOMAIN Tail(steps), Insists(Tail(steps)[k]), Tail(steps)[k].slot \in DOMAIN new
      PROVE  cloud'[new[Tail(steps)[k].slot]].parts = {}
  <2>1. /\ k + 1 \in DOMAIN steps /\ Tail(steps)[k] = steps[k + 1] /\ 1 < k + 1
        /\ 1 \in DOMAIN steps /\ steps[1] = Head(steps)
    BY RestFacts
  <2>2. PICK s : s = steps[k + 1].slot /\ s \in DOMAIN new /\ Insists(steps[k + 1])
    BY <1>3, <2>1
  <2>3. Head(steps).op = "set" => Head(steps).slot # s
    BY <1>1, <2>1, <2>2 DEF Orderly
  <2>4. s \in DOMAIN ids => cloud[ids[s]].parts = {}
    BY <2>1, <2>2 DEF Builds
  <2> QED BY <2>1, <2>2, <2>3, <2>4
<1> QED BY <1>2, <1>3 DEF Builds

LEMMA LoosensOn ==
  ASSUME NEW ids, NEW steps \in Seq(Steps), steps # <<>>, NEW slot, NEW part,
         Loosens(ids, steps, slot, part),
         \A k \in DOMAIN steps : ids[steps[k].slot] \in Ids,
         \A i \in Ids : i \notin Live => i \notin Live',
         \A i \in Ids : part \notin cloud[i].parts => part \notin cloud'[i].parts,
         Head(steps) = Drop(slot, part) =>
           ids[slot] \notin Live' \/ part \notin cloud'[ids[slot]].parts
  PROVE  Loosens(ids, Tail(steps), slot, part)'
<1> SUFFICES ASSUME NEW k \in DOMAIN Tail(steps), Tail(steps)[k] = TryDelete(slot),
                    ids[slot] \in Live', part \in cloud'[ids[slot]].parts
             PROVE  \E j \in DOMAIN Tail(steps) : j < k /\ Tail(steps)[j] = Drop(slot, part)
  BY DEF Loosens
<1>1. /\ k \in Int /\ k + 1 \in DOMAIN steps /\ Tail(steps)[k] = steps[k + 1] /\ steps[1] = Head(steps)
  BY RestFacts
<1>2. PICK j \in DOMAIN steps : j < k + 1 /\ steps[j] = Drop(slot, part)
  <2>1. steps[k + 1].slot = slot
    BY <1>1, TryFacts
  <2>2. ids[slot] \in Ids
    BY <1>1, <2>1
  <2> QED BY <1>1, <2>2 DEF Loosens
<1>3. j # 1
  BY <1>1, <1>2
<1>4. j - 1 \in DOMAIN Tail(steps) /\ Tail(steps)[j - 1] = steps[j] /\ j \in Int
  BY <1>3, RestFacts
<1> QED BY <1>1, <1>2, <1>4

LEMMA ClearsOn ==
  ASSUME NEW ids, NEW steps \in Seq(Steps), steps # <<>>, Clears(ids, steps),
         \A k \in DOMAIN steps : ids[steps[k].slot] \in Ids,
         \A i \in Ids : i \notin Live => i \notin Live',
         \A i \in Ids : \A part : part \notin cloud[i].parts => part \notin cloud'[i].parts,
         \A s \in DOMAIN ids : Head(steps) = TryDelete(s) => ids[s] \notin Live',
         \A s, part : Head(steps) = Drop(s, part) =>
           ids[s] \notin Live' \/ part \notin cloud'[ids[s]].parts
  PROVE  Clears(ids, Tail(steps))'
<1>1. ASSUME NEW s \in DOMAIN ids, ids[s] \in Live'
      PROVE  \E k \in DOMAIN Tail(steps) : Tail(steps)[k] = TryDelete(s)
  <2>1. ids[s] \in Live
    BY <1>1 DEF Live
  <2>2. PICK k \in DOMAIN steps : steps[k] = TryDelete(s)
    BY <2>1 DEF Clears
  <2>3. steps[1] = Head(steps) /\ Head(steps) # TryDelete(s)
    BY <1>1, RestFacts
  <2>4. k - 1 \in DOMAIN Tail(steps) /\ Tail(steps)[k - 1] = steps[k]
    BY <2>2, <2>3, RestFacts
  <2> QED BY <2>2, <2>4
<1>2. \A k \in DOMAIN Tail(steps) : Tail(steps)[k].op # "set"
  BY RestFacts DEF Clears
<1>3. /\ Loosens(ids, Tail(steps), "routeTableId", "association")'
      /\ Loosens(ids, Tail(steps), "internetGatewayId", "attachment")'
  BY LoosensOn DEF Clears
<1>4. ASSUME NEW j \in DOMAIN Tail(steps), NEW k \in DOMAIN Tail(steps), Tail(steps)[k] = TryDelete("vpcId")
      PROVE  j <= k
  <2>1. /\ j \in Int /\ k \in Int /\ j + 1 \in DOMAIN steps /\ k + 1 \in DOMAIN steps
        /\ Tail(steps)[k] = steps[k + 1]
    BY RestFacts
  <2>2. j + 1 <= k + 1
    BY <1>4, <2>1 DEF Clears
  <2> QED BY <2>1, <2>2
<1> QED BY <1>1, <1>2, <1>3, <1>4 DEF Clears

-----------------------------------------------------------------------------
(* What there is while nothing goes wrong and nobody else is at work.      *)
Calm  == NInv /\ faults = 0 /\ ~met
Quiet == NothingLost /\ \A r \in Processes : Careful(r)

LEMMA OthersRest ==
  ASSUME IInv, ~met, NEW p \in Processes, pc[p] # "idle"
  PROVE  \A r \in Processes \ {p} : pc[r] = "idle" /\ command[r] = "none"
<1>1. \A r \in Processes : r \in Running <=> pc[r] # "idle"
  BY DEF IInv, TypeOK, ProcsOK, Running
<1>2. \A r \in Processes : command[r] = "none" <=> pc[r] = "idle"
  BY DEF IInv, TypeOK, ProcsOK
<1> QED BY <1>1, <1>2 DEF IInv, Alone

LEMMA Held ==
  ASSUME Calm, NEW p \in Processes, pc[p] # "idle", NEW i \in Live,
         manifest[cloud[i].doc] # "ComputeStackWithBastion"
  PROVE  i \in Recorded(cloud[i].doc) \/ (i \in Kept(p) /\ command[p] = "apply")
<1>1. \A r \in Processes \ {p} : command[r] = "none"
  BY OthersRest DEF Calm, NInv
<1> QED BY <1>1 DEF Calm, NInv, NothingLost

(* A process knows all that lives of the document it is at work on.        *)
LEMMA AllKept ==
  ASSUME Calm, NEW p \in Processes, pc[p] \in {"run", "drop"}, NEW i \in Live, cloud[i].doc = Doc(p),
         manifest[cloud[i].doc] # "ComputeStackWithBastion"
  PROVE  \E s \in DOMAIN state[p] : state[p][s] = i /\ cloud[i].slot = s
<1>1. AtPc(p) /\ Blank /\ command[p] \in {"apply", "delete"} /\ Doc(p) \in DOMAIN manifest
  BY DocIsListed DEF Calm, NInv, IInv
<1>2. KnowsFile(p) /\ MadeFor(Doc(p), state[p])
  BY <1>1 DEF AtPc, Calm
<1>3. i \in Recorded(Doc(p)) => i \in Kept(p)
  <2>1. command[p] = "apply" => Recorded(Doc(p)) = {}
    BY <1>1, <1>2 DEF KnowsFile, Blank, Recorded
  <2>2. command[p] = "delete" => files[Doc(p)].ids = state[p]
    BY <1>2 DEF KnowsFile, File
  <2> QED BY <1>1, <2>1, <2>2 DEF Recorded, Kept
<1>4. i \in Kept(p)
  BY <1>3, Held
<1> QED BY <1>2, <1>4 DEF Kept, MadeFor

(* What a step of the only process that works has to do to lose nothing.   *)
LEMMA QuietStep ==
  ASSUME Calm, NEW p \in Processes, pc[p] # "idle",
         NEW c, NEW q, NEW l, NEW steps, NEW ids, Puts(p, c, q, l, steps, ids),
         manifest' = manifest, Careful(p)',
         \A i \in Live' : manifest[cloud'[i].doc] # "ComputeStackWithBastion" =>
           i \in Recorded(cloud[i].doc)' \/ (i \in Kept(p)' /\ command'[p] = "apply")
  PROVE  Quiet'
<1>1. \A r \in Processes \ {p} : pc[r] = "idle"
  BY OthersRest DEF Calm, NInv
<1>2. \A r \in Processes \ {p} : pc'[r] = pc[r]
  BY PutsKeepsTypes DEF Calm, NInv, IInv
<1>3. \A r \in Processes : Careful(r)'
  BY <1>1, <1>2 DEF Careful
<1>4. NothingLost'
  BY DEF NothingLost
<1> QED BY <1>3, <1>4 DEF Quiet

LEMMA Sorted ==
  ASSUME Calm, NEW p \in Processes, pc[p] \notin {"idle", "load"}
  PROVE  /\ MadeFor(Doc(p), state[p]) /\ IsRecord(state[p])
         /\ Doc(p) \in DOMAIN manifest /\ manifest[Doc(p)] \in Kinds
         /\ command[p] \in {"apply", "delete"}
         /\ command[p] = "apply" /\ manifest[Doc(p)] # "ComputeStackWithBastion" =>
              Builds(state[p], script[p])
         /\ command[p] = "delete" /\ manifest[Doc(p)] = "ComputeStack" =>
              Clears(state[p], script[p])
<1>1. AtPc(p) /\ Careful(p) /\ IsRecord(state[p])
  BY DEF Calm, NInv, IInv, TypeOK, ProcsOK
<1> QED BY <1>1, DocIsListed DEF AtPc, Careful, Calm, NInv, IInv

(* The process is done with the document.                                  *)
LEMMA EndQuiet ==
  ASSUME Calm, NEW p \in Processes, pc[p] # "idle", Ended(p), manifest' = manifest,
         \A i \in Live' :
           manifest[cloud'[i].doc] # "ComputeStackWithBastion" => i \in Recorded(cloud[i].doc)'
  PROVE  Quiet'
<1>1. PICK c, q, l, steps, ids : Puts(p, c, q, l, steps, ids) /\ l \in {"idle", "load"}
  BY DEF Ended
<1>2. pc'[p] = l
  BY <1>1, PutsKeepsTypes DEF Calm, NInv, IInv
<1>3. Careful(p)'
  BY <1>1, <1>2 DEF Careful
<1> QED BY <1>1, <1>3, QuietStep

LEMMA EndLoses ==
  ASSUME Calm, NEW p \in Processes, pc[p] # "idle", Ended(p), UNCHANGED <<manifest, cloud, files>>,
         command[p] = "apply" =>
           DOMAIN state[p] = {} \/ (pc[p] # "load" /\ manifest[Doc(p)] = "ComputeStackWithBastion")
  PROVE  Quiet'
<1>1. ASSUME NEW i \in Live', manifest[cloud'[i].doc] # "ComputeStackWithBastion"
      PROVE  i \in Recorded(cloud[i].doc)'
  <2>1. i \in Live /\ manifest[cloud[i].doc] # "ComputeStackWithBastion"
    BY <1>1 DEF Live
  <2>2. CASE i \in Recorded(cloud[i].doc)
    BY <2>2 DEF Recorded
  <2>3. CASE i \in Kept(p) /\ command[p] = "apply"
    <3>1. pc[p] # "load" /\ manifest[Doc(p)] = "ComputeStackWithBastion"
      BY <2>3 DEF Kept
    <3>2. MadeFor(Doc(p), state[p])
      BY <3>1, Sorted
    <3> QED BY <2>1, <2>3, <3>1, <3>2 DEF Kept, MadeFor
  <2> QED BY <2>1, <2>2, <2>3, Held
<1> QED BY <1>1, EndQuiet

(* It goes on with the document.                                           *)
LEMMA WentQuiet ==
  ASSUME Calm, NEW p \in Processes, pc[p] # "idle", NEW steps, NEW ids, Went(p, steps, ids),
         UNCHANGED <<manifest, files>>,
         command[p] = "apply" /\ manifest[Doc(p)] # "ComputeStackWithBastion" => Builds(ids, steps)',
         command[p] = "delete" /\ manifest[Doc(p)] = "ComputeStack" => Clears(ids, steps)',
         \A i \in Live' : manifest[cloud'[i].doc] # "ComputeStackWithBastion" =>
           \/ i \in Recorded(cloud'[i].doc)
           \/ command[p] = "apply" /\ \E s \in DOMAIN ids : i = ids[s]
  PROVE  Quiet'
<1>1. TypeOK
  BY DEF Calm, NInv, IInv
<1>2. /\ command'[p] = command[p] /\ queue'[p] = queue[p] /\ script'[p] = steps
      /\ state'[p] = ids /\ pc'[p] = Phase(p, steps)
  BY <1>1, PutsKeepsTypes DEF Went
<1>3. Careful(p)'
  <2>1. Doc(p)' = Doc(p)
    BY <1>2 DEF Doc
  <2>2. pc'[p] # "write"
    BY <1>2 DEF Phase
  <2>3. command'[p] = "apply" /\ manifest'[Doc(p)'] # "ComputeStackWithBastion" =>
          Builds(state[p], script[p])'
    BY <1>2, <2>1 DEF Builds
  <2>4. command'[p] = "delete" /\ manifest'[Doc(p)'] = "ComputeStack" =>
          Clears(state[p], script[p])'
    BY <1>2, <2>1 DEF Clears, Loosens
  <2> QED BY <2>2, <2>3, <2>4 DEF Careful
<1>4. ASSUME NEW i \in Live', manifest[cloud'[i].doc] # "ComputeStackWithBastion"
      PROVE  i \in Recorded(cloud[i].doc)' \/ (i \in Kept(p)' /\ command'[p] = "apply")
  <2>1. i \in Recorded(cloud'[i].doc) => i \in Recorded(cloud[i].doc)'
    BY DEF Recorded
  <2>2. (\E s \in DOMAIN ids : i = ids[s]) => i \in Kept(p)'
    BY <1>2 DEF Kept
  <2> QED BY <1>2, <1>4, <2>1, <2>2
<1> QED BY <1>3, <1>4, QuietStep DEF Went

(* A call is done that did not make anything.                              *)
LEMMA CallLoses ==
  ASSUME Calm, NEW p \in Processes, pc[p] = "run", Proceed(p), UNCHANGED <<state, manifest, files>>,
         Ages,
         \A i \in Ids : cloud[i].status = "none" => cloud'[i].status = "none",
         command[p] = "apply" /\ manifest[Doc(p)] # "ComputeStackWithBastion" =>
           /\ Head(script[p]).op # "make"
           /\ \A s \in DOMAIN state[p] :
                /\ state[p][s] \in Live'
                /\ /\ cloud[state[p][s]].parts = {}
                   /\ Head(script[p]).op = "set" => Head(script[p]).slot # s
                   => cloud'[state[p][s]].parts = {},
         command[p] = "delete" /\ manifest[Doc(p)] = "ComputeStack" =>
           /\ \A i \in Ids : \A part : part \notin cloud[i].parts => part \notin cloud'[i].parts
           /\ \A s \in DOMAIN state[p] : Head(script[p]) = TryDelete(s) => state[p][s] \notin Live'
           /\ \A s, part : Head(script[p]) = Drop(s, part) =>
                state[p][s] \notin Live' \/ part \notin cloud'[state[p][s]].parts
  PROVE  Quiet'
<1>1. PICK steps \in Seq(Steps) : steps = script[p]
  BY Calling DEF Calm, NInv
<1>2. PICK ids : ids = state[p]
  OBVIOUS
<1>3. PICK d \in DOMAIN manifest : d = Doc(p)
  BY Calling DEF Calm, NInv
<1>4. steps # <<>> /\ IsRecord(ids) /\ MadeFor(d, ids) /\ Tail(steps) \in Seq(Steps)
      /\ command[p] \in {"apply", "delete"}
  BY <1>1, <1>2, <1>3, Calling DEF Calm, NInv
<1>5. Went(p, Tail(steps), ids)
  <2>1. state' = [state EXCEPT ![p] = ids]
    BY <1>2 DEF Calm, NInv, IInv, TypeOK, ProcsOK
  <2> QED BY <1>1, <1>4, <2>1, GoesOn DEF Proceed, Calm, NInv, IInv
<1>6. \A i \in Ids : i \notin Live => i \notin Live'
  BY DEF Live, Ages
<1>7. command[p] = "apply" /\ manifest[d] # "ComputeStackWithBastion" => Builds(ids, Tail(steps))'
  <2> SUFFICES ASSUME command[p] = "apply", manifest[d] # "ComputeStackWithBastion"
               PROVE  Builds(ids, Tail(steps))'
    OBVIOUS
  <2>1. Builds(ids, steps)
    BY <1>1, <1>2, <1>3, Sorted
  <2>2. /\ Head(steps).op # "make"
        /\ \A s \in DOMAIN ids :
             /\ ids[s] \in Live'
             /\ /\ cloud[ids[s]].parts = {}
                /\ Head(steps).op = "set" => Head(steps).slot # s
                => cloud'[ids[s]].parts = {}
    BY <1>1, <1>2, <1>3
  <2> QED BY <1>4, <2>1, <2>2, BuildsOn
<1>8. command[p] = "delete" /\ manifest[d] = "ComputeStack" => Clears(ids, Tail(steps))'
  <2> SUFFICES ASSUME command[p] = "delete", manifest[d] = "ComputeStack"
               PROVE  Clears(ids, Tail(steps))'
    OBVIOUS
  <2>1. Clears(ids, steps)
    BY <1>1, <1>2, <1>3, Sorted
  <2>2. \A k \in DOMAIN steps : ids[steps[k].slot] \in Ids
    <3>1. Deletes(manifest[d], ids, steps)
      BY <1>1, <1>2, <1>3, Calling DEF Calm, NInv
    <3> QED BY <1>4, <3>1 DEF Deletes, IsRecord
  <2>3. /\ \A i \in Ids : \A part : part \notin cloud[i].parts => part \notin cloud'[i].parts
        /\ \A s \in DOMAIN ids : Head(steps) = TryDelete(s) => ids[s] \notin Live'
        /\ \A s, part : Head(steps) = Drop(s, part) =>
             ids[s] \notin Live' \/ part \notin cloud'[ids[s]].parts
    BY <1>1, <1>2, <1>3
  <2> QED BY <1>4, <1>6, <2>1, <2>2, <2>3, ClearsOn
<1>9. ASSUME NEW i \in Live', manifest[cloud'[i].doc] # "ComputeStackWithBastion"
      PROVE  \/ i \in Recorded(cloud'[i].doc)
             \/ command[p] = "apply" /\ \E s \in DOMAIN ids : i = ids[s]
  <2>1. i \in Live /\ cloud'[i].doc = cloud[i].doc
    BY <1>9 DEF Live, Ages
  <2>2. i \in Recorded(cloud[i].doc) \/ (i \in Kept(p) /\ command[p] = "apply")
    BY <1>9, <2>1, Held
  <2> QED BY <1>2, <2>1, <2>2 DEF Kept
<1> QED BY <1>3, <1>5, <1>7, <1>8, <1>9, WentQuiet

-----------------------------------------------------------------------------
(* The next call, in a creation and in a deletion that lose nothing.       *)
LEMMA FirstOfBuilds ==
  ASSUME Calm, NEW p \in Processes, pc[p] = "run", command[p] = "apply",
         manifest[Doc(p)] # "ComputeStackWithBastion"
  PROVE  /\ Head(script[p]).op \in {"make", "set", "describe"}
         /\ Head(script[p]).op = "describe" => Slot(p) = "vpcId"
         /\ Head(script[p]).op = "make" => Slot(p) \notin DOMAIN state[p]
         /\ Head(script[p]).op = "set" => Slot(p) \in DOMAIN state[p] /\ Slot(p) \notin Instances
         /\ Insists(Head(script[p])) /\ Slot(p) \in DOMAIN state[p] => cloud[Target(p)].parts = {}
<1>1. PICK steps \in Seq(Steps) : steps = script[p] /\ steps # <<>>
  BY Calling DEF Calm, NInv
<1>2. PICK ids : ids = state[p]
  OBVIOUS
<1>3. Builds(ids, steps)
  BY <1>1, <1>2, Sorted
<1>4. PICK x : x = Head(steps)
  OBVIOUS
<1>5. 1 \in DOMAIN steps /\ steps[1] = x /\ \A j \in DOMAIN steps : ~(j < 1)
  BY <1>1, <1>4, RestFacts
<1>6. /\ x.op \in {"make", "set", "describe"}
      /\ x.op = "describe" => x.slot = "vpcId"
      /\ x.op = "make" => x.slot \notin DOMAIN ids
      /\ x.op = "set" => x.slot \in DOMAIN ids /\ x.slot \notin Instances
  BY <1>3, <1>5 DEF Builds, Orderly
<1>7. Insists(x) /\ x.slot \in DOMAIN ids => cloud[ids[x.slot]].parts = {}
  BY <1>3, <1>5 DEF Builds
<1> QED BY <1>1, <1>2, <1>4, <1>6, <1>7 DEF Slot, Target

LEMMA FirstOfClears ==
  ASSUME Calm, NEW p \in Processes, pc[p] = "run", command[p] = "delete",
         manifest[Doc(p)] = "ComputeStack"
  PROVE  /\ Head(script[p]).op \notin {"make", "image", "set"} /\ Slot(p) \in DOMAIN state[p]
         /\ Head(script[p]) = TryDelete("routeTableId") /\ Target(p) \in Live =>
              "association" \notin cloud[Target(p)].parts
         /\ Head(script[p]) = TryDelete("internetGatewayId") /\ Target(p) \in Live =>
              "attachment" \notin cloud[Target(p)].parts
         /\ Head(script[p]) = TryDelete("vpcId") =>
              \A s \in DOMAIN state[p] : state[p][s] \in Live => s = "vpcId"
<1>1. PICK steps \in Seq(Steps) : steps = script[p] /\ steps # <<>>
  BY Calling DEF Calm, NInv
<1>2. PICK ids : ids = state[p]
  OBVIOUS
<1>3. Clears(ids, steps) /\ Deletes("ComputeStack", ids, steps)
  BY <1>1, <1>2, Sorted, Calling DEF Calm, NInv
<1>4. PICK x : x = Head(steps)
  OBVIOUS
<1>5. 1 \in DOMAIN steps /\ steps[1] = x /\ \A j \in DOMAIN steps : ~(j < 1) /\ (j <= 1 => j = 1)
  BY <1>1, <1>4, RestFacts
<1>6. x.op \notin {"make", "image", "set"} /\ x.slot \in DOMAIN ids
  BY <1>3, <1>5 DEF Clears, Deletes
<1>7. \A s, part : Loosens(ids, steps, s, part) /\ x = TryDelete(s) /\ ids[s] \in Live =>
                     part \notin cloud[ids[s]].parts
  BY <1>5 DEF Loosens
<1>8. ASSUME x = TryDelete("vpcId"), NEW s \in DOMAIN ids, ids[s] \in Live
      PROVE  s = "vpcId"
  <2>1. PICK k \in DOMAIN steps : steps[k] = TryDelete(s)
    BY <1>3, <1>8 DEF Clears
  <2>2. k = 1
    BY <1>3, <1>5, <1>8, <2>1 DEF Clears
  <2> QED BY <1>5, <1>8, <2>1, <2>2, TryFacts
<1>9. \A s : x = TryDelete(s) => x.slot = s
  BY TryFacts
<1> QED BY <1>1, <1>2, <1>3, <1>4, <1>6, <1>7, <1>8, <1>9 DEF Slot, Target, Clears

(* What is needed for a document is there, and nothing is there twice.     *)
LEMMA NotRefused ==
  ASSUME Calm, NEW p \in Processes, command[p] = "apply", manifest[Doc(p)] # "ComputeStackWithBastion",
         \/ CreateCallRefused(p) \/ SetCallRefused(p) \/ DropCallRefused(p)
         \/ RemoveCallRefused(p) \/ DescribeCallRefused(p)
  PROVE  Head(script[p]).op = "set" /\ Head(script[p]).on = "ignored"
<1>1. pc[p] = "run"
  BY DEF CreateCallRefused, SetCallRefused, DropCallRefused, RemoveCallRefused,
         DescribeCallRefused, Call
<1>2. PICK d \in DOMAIN manifest : d = Doc(p)
  BY <1>1, Sorted
<1>3. PICK ids : ids = state[p]
  OBVIOUS
<1>4. \A i \in Described : cloud[i].doc = d /\ cloud[i].slot \notin Instances =>
        i \in Live /\ cloud[i].slot \in DOMAIN ids /\ ids[cloud[i].slot] = i
  <2> SUFFICES ASSUME NEW i \in Described, cloud[i].doc = d, cloud[i].slot \notin Instances
               PROVE  i \in Live /\ cloud[i].slot \in DOMAIN ids /\ ids[cloud[i].slot] = i
    OBVIOUS
  <2>1. i \in Live
    BY DEF Described, Live, Calm, NInv, Placed
  <2> QED BY <1>1, <1>2, <1>3, <2>1, AllKept
<1>5. ~DropCallRefused(p) /\ ~RemoveCallRefused(p) /\ ~DescribeCallRefused(p)
  BY <1>1, FirstOfBuilds DEF DropCallRefused, RemoveCallRefused, DescribeCallRefused, Call
<1>6. ~CreateCallRefused(p)
  <2> SUFFICES ASSUME CreateCallRefused(p)
               PROVE  FALSE
    OBVIOUS
  <2>1. PICK i \in Twins(d, "securityGroupId") : Slot(p) = "securityGroupId"
    BY <1>2 DEF CreateCallRefused, MakeRefused
  <2>2. i \in Described /\ cloud[i].doc = d /\ cloud[i].slot = "securityGroupId"
    BY DEF Twins
  <2>3. Slot(p) \in DOMAIN ids
    BY <1>4, <2>1, <2>2, SomeSlots
  <2> QED BY <1>1, <1>3, <2>3, FirstOfBuilds DEF CreateCallRefused, Call
<1>7. SetCallRefused(p)
  BY <1>5, <1>6
<1>8. Head(script[p]).op = "set"
  BY <1>7 DEF SetCallRefused, Call
<1>9. PICK s \in DOMAIN ids : s = Slot(p) /\ s \notin Instances
  BY <1>1, <1>3, <1>8, FirstOfBuilds
<1>10. Target(p) = ids[s] /\ ids[s] \in Live /\ cloud[ids[s]].slot = s
  BY <1>1, <1>3, <1>9, Sorted DEF Builds, MadeFor, Target
<1>11. ASSUME Head(script[p]).on # "ignored"
       PROVE  FALSE
  <2>1. cloud[ids[s]].parts = {}
    BY <1>1, <1>3, <1>8, <1>9, <1>10, <1>11, FirstOfBuilds DEF Insists
  <2>2. PICK j \in Twins(d, s) : "attachment" \in cloud[j].parts
    BY <1>2, <1>7, <1>10 DEF SetCallRefused, SetRefused
  <2>3. j = ids[s]
    BY <1>4, <1>9, <2>2 DEF Twins
  <2> QED BY <2>1, <2>2, <2>3
<1> QED BY <1>8, <1>11

(* What a part of a stack is in the same network with is of the same stack.*)
LEMMA AroundIsOwn ==
  ASSUME Calm, NEW i \in Live, NEW j \in Around(i), manifest[cloud[i].doc] = "ComputeStack"
  PROVE  /\ j \in Live /\ j # i /\ cloud[j].doc = cloud[i].doc
         /\ cloud[j].slot \notin Instances /\ cloud[i].slot \in MadeSlots("ComputeStack")
<1>1. j \in Described /\ j # i /\ NetworkOf(j) = NetworkOf(i) /\ NetworkOf(i) # 0
  BY DEF Around
<1>2. \A n \in Ids : cloud[n].status # "none" /\ NetworkOf(n) # 0 =>
                      cloud[NetworkOf(n)].doc = cloud[n].doc
  BY DEF NetworkOf, Calm, NInv, Placed
<1>3. i \in Ids /\ j \in Ids /\ cloud[i].status # "none" /\ cloud[j].status # "none"
  BY <1>1 DEF Live, Described
<1>4. cloud[j].doc = cloud[i].doc
  <2>1. cloud[NetworkOf(i)].doc = cloud[i].doc /\ cloud[NetworkOf(j)].doc = cloud[j].doc
    BY <1>1, <1>2, <1>3
  <2> QED BY <1>1, <2>1
<1>5. cloud[i].slot \in MadeSlots("ComputeStack") /\ cloud[j].slot \in MadeSlots("ComputeStack")
  BY <1>3, <1>4 DEF Calm, NInv, Placed
<1>6. cloud[j].slot \notin Instances
  BY <1>5, StackOrderly DEF Instances
<1>7. j \in Live
  BY <1>1, <1>3, <1>6 DEF Calm, NInv, Placed, Live, Described
<1> QED BY <1>1, <1>4, <1>5, <1>6, <1>7

LEMMA WhyInUse ==
  ASSUME NEW i, InUse(i)
  PROVE  /\ cloud[i].slot = "vpcId" => \E j : j \in Around(i)
         /\ cloud[i].slot = "publicSubnetId" => \E j \in Around(i) : cloud[j].slot \in Instances
         /\ cloud[i].slot = "internetGatewayId" => "attachment" \in cloud[i].parts
         /\ cloud[i].slot = "routeTableId" => "association" \in cloud[i].parts
<1>1. CASE cloud[i].slot = "vpcId"
  <2>1. \E j \in Around(i) :
          cloud[j].slot = "internetGatewayId" => "attachment" \in cloud[j].parts
    BY <1>1, Zenon DEF InUse
  <2> QED BY <1>1, <2>1
<1>2. CASE cloud[i].slot = "publicSubnetId"
  <2>1. \E j \in Around(i) : cloud[j].slot \in Instances
    BY <1>2, Zenon DEF InUse
  <2> QED BY <1>2, <2>1
<1>3. CASE cloud[i].slot = "internetGatewayId"
  <2>1. "attachment" \in cloud[i].parts
    BY <1>3, Zenon DEF InUse
  <2> QED BY <1>3, <2>1
<1>4. CASE cloud[i].slot = "routeTableId"
  <2>1. "association" \in cloud[i].parts
    BY <1>4, Zenon DEF InUse
  <2> QED BY <1>4, <2>1
<1> QED BY <1>1, <1>2, <1>3, <1>4

(* What a stack is made of can be deleted in the order of the script.      *)
LEMMA RefusedIfGone ==
  ASSUME Calm, NEW p \in Processes, command[p] = "delete", manifest[Doc(p)] = "ComputeStack",
         \/ CreateCallRefused(p) \/ SetCallRefused(p) \/ DropCallRefused(p)
         \/ RemoveCallRefused(p) \/ DescribeCallRefused(p)
  PROVE  /\ \A s \in DOMAIN state[p] : Head(script[p]) = TryDelete(s) => state[p][s] \notin Live
         /\ \A s, part : Head(script[p]) = Drop(s, part) => state[p][s] \notin Live
<1>1. pc[p] = "run"
  BY DEF CreateCallRefused, SetCallRefused, DropCallRefused, RemoveCallRefused,
         DescribeCallRefused, Call
<1>2. PICK d \in DOMAIN manifest : d = Doc(p)
  BY <1>1, Sorted
<1>3. PICK ids : ids = state[p]
  OBVIOUS
<1>4. MadeFor(d, ids) /\ IsRecord(ids) /\ manifest[d] = "ComputeStack"
  BY <1>1, <1>2, <1>3, Sorted
<1>5. ASSUME NEW s \in DOMAIN ids, Head(script[p]) = TryDelete(s), ids[s] \in Live
      PROVE  FALSE
  <2>1. PICK i \in Live : i = ids[s] /\ cloud[i].doc = d /\ cloud[i].slot = s
    BY <1>4, <1>5 DEF MadeFor
  <2>2. Head(script[p]).op = "remove" /\ Slot(p) = s /\ Target(p) = i
    BY <1>3, <1>5, <2>1, TryFacts DEF Slot, Target
  <2>3. RemoveCallRefused(p)
    BY <2>2 DEF CreateCallRefused, SetCallRefused, DropCallRefused, DescribeCallRefused, Call
  <2>4. s \in MadeSlots("ComputeStack")
    BY <1>4, <2>1 DEF Calm, NInv, Placed, Live
  <2>5. s \in {"vpcId", "internetGatewayId", "publicSubnetId", "routeTableId"}
    BY <2>4, StackOrderly
  <2>6. InUse(i)
    BY <2>2, <2>3, <2>5 DEF RemoveCallRefused, Instances
  <2>7. CASE s = "publicSubnetId"
    BY <1>4, <2>1, <2>6, <2>7, WhyInUse, AroundIsOwn
  <2>8. CASE s = "internetGatewayId"
    BY <1>1, <1>2, <1>4, <1>5, <2>1, <2>2, <2>6, <2>8, WhyInUse, FirstOfClears
  <2>9. CASE s = "routeTableId"
    BY <1>1, <1>2, <1>4, <1>5, <2>1, <2>2, <2>6, <2>9, WhyInUse, FirstOfClears
  <2>10. CASE s = "vpcId"
    <3>1. PICK j \in Around(i) : TRUE
      BY <2>1, <2>6, <2>10, WhyInUse
    <3>2. j \in Live /\ j # i /\ cloud[j].doc = d
      BY <1>4, <2>1, AroundIsOwn
    <3>3. PICK x \in DOMAIN ids : ids[x] = j
      BY <1>1, <1>2, <1>3, <1>4, <3>2, AllKept
    <3>4. x = "vpcId"
      BY <1>1, <1>2, <1>3, <1>4, <1>5, <2>10, <3>2, <3>3, FirstOfClears
    <3> QED BY <2>1, <2>10, <3>2, <3>3, <3>4
  <2> QED BY <2>5, <2>7, <2>8, <2>9, <2>10
<1>6. ASSUME NEW s, NEW part, Head(script[p]) = Drop(s, part), ids[s] \in Live
      PROVE  FALSE
  <2>1. Head(script[p]).op = "drop" /\ Slot(p) = s /\ s \in DOMAIN ids
    BY <1>1, <1>2, <1>3, <1>4, <1>6, TryFacts, FirstOfClears DEF Slot
  <2>2. PICK i \in Live : i = ids[s] /\ cloud[i].doc = d /\ i = Target(p)
    BY <1>3, <1>4, <1>6, <2>1 DEF MadeFor, Target
  <2>3. DropCallRefused(p)
    BY <2>1 DEF CreateCallRefused, SetCallRefused, RemoveCallRefused, DescribeCallRefused, Call
  <2>4. PICK j \in Around(i) : cloud[j].slot \in Instances
    BY <2>2, <2>3 DEF DropCallRefused, DropRefused
  <2> QED BY <1>4, <2>2, <2>4, AroundIsOwn
<1> QED BY <1>3, <1>5, <1>6

-----------------------------------------------------------------------------
(* What each call does.                                                    *)
LEMMA RefusedLoses ==
  ASSUME Calm, NEW p \in Processes, CallFails(p),
         \/ CreateCallRefused(p) \/ SetCallRefused(p) \/ DropCallRefused(p)
         \/ RemoveCallRefused(p) \/ DescribeCallRefused(p)
  PROVE  Quiet'
<1>1. pc[p] = "run" /\ UNCHANGED <<manifest, files, cloud>>
  BY DEF CreateCallRefused, SetCallRefused, DropCallRefused, RemoveCallRefused,
         DescribeCallRefused, Call, CallFails, Remains
<1>2. TypeOK /\ Ages
  BY <1>1, CloudStays DEF Calm, NInv, IInv
<1>3. CASE Head(script[p]).on # "ignored" /\ (DocumentFails(p) \/ Finish(p))
  <2>1. Ended(p)
    BY <1>1, <1>2, <1>3, DocumentEnds
  <2>2. command[p] = "apply" => manifest[Doc(p)] = "ComputeStackWithBastion"
    BY <1>3, NotRefused
  <2> QED BY <1>1, <2>1, <2>2, EndLoses
<1>4. CASE Proceed(p) /\ UNCHANGED state
  <2>1. ASSUME command[p] = "apply", manifest[Doc(p)] # "ComputeStackWithBastion"
        PROVE  /\ Head(script[p]).op # "make"
               /\ \A s \in DOMAIN state[p] :
                    /\ state[p][s] \in Live'
                    /\ cloud[state[p][s]].parts = {} => cloud'[state[p][s]].parts = {}
    <3>1. Head(script[p]).op = "set" /\ Builds(state[p], script[p])
      BY <1>1, <2>1, NotRefused, Sorted
    <3> QED BY <1>1, <3>1 DEF Builds, Live
  <2>2. ASSUME command[p] = "delete", manifest[Doc(p)] = "ComputeStack"
        PROVE  /\ \A s \in DOMAIN state[p] : Head(script[p]) = TryDelete(s) => state[p][s] \notin Live'
               /\ \A s, part : Head(script[p]) = Drop(s, part) => state[p][s] \notin Live'
    BY <1>1, <2>2, RefusedIfGone DEF Live
  <2> QED BY <1>1, <1>2, <1>4, <2>1, <2>2, CallLoses
<1> QED BY <1>3, <1>4 DEF CallFails

LEMMA ChangeLoses ==
  ASSUME Calm, NEW p \in Processes, SetCall(p) \/ DropCall(p) \/ RemoveCall(p)
  PROVE  Quiet'
<1>1. /\ pc[p] = "run" /\ Proceed(p) /\ UNCHANGED <<state, manifest, files>>
      /\ Head(script[p]).op \in {"set", "drop", "remove"}
  BY DEF SetCall, DropCall, RemoveCall, Call, Remains
<1>2. PICK i \in Ids : \E st : \E parts \in SUBSET Parts :
        /\ i = Target(p) /\ cloud[i].status # "none"
        /\ cloud' = [cloud EXCEPT ![i] = [cloud[i] EXCEPT !.status = st, !.parts = parts]]
        /\ Head(script[p]).op # "remove" => st = cloud[i].status
        /\ Head(script[p]).op # "set" => parts \subseteq cloud[i].parts
        /\ Head(script[p]).op = "drop" => Part(p) \notin parts
        /\ Head(script[p]).op = "remove" => st \in {"deleting", "gone"}
  BY OneChanges DEF Calm, NInv
<1>3. PICK st : \E parts \in SUBSET Parts :
        /\ i = Target(p) /\ cloud[i].status # "none"
        /\ cloud' = [cloud EXCEPT ![i] = [cloud[i] EXCEPT !.status = st, !.parts = parts]]
        /\ Head(script[p]).op # "remove" => st = cloud[i].status
        /\ Head(script[p]).op # "set" => parts \subseteq cloud[i].parts
        /\ Head(script[p]).op = "drop" => Part(p) \notin parts
        /\ Head(script[p]).op = "remove" => st \in {"deleting", "gone"}
  BY <1>2
<1>4. PICK parts \in SUBSET Parts :
        /\ i = Target(p) /\ cloud[i].status # "none"
        /\ cloud' = [cloud EXCEPT ![i] = [cloud[i] EXCEPT !.status = st, !.parts = parts]]
        /\ Head(script[p]).op # "remove" => st = cloud[i].status
        /\ Head(script[p]).op # "set" => parts \subseteq cloud[i].parts
        /\ Head(script[p]).op = "drop" => Part(p) \notin parts
        /\ Head(script[p]).op = "remove" => st \in {"deleting", "gone"}
  BY <1>3
<1>5. Ages /\ cloud'[i].status = st
  BY <1>1, <1>4, OneAges DEF Calm, NInv, IInv
<1>6. cloud'[i].parts = parts /\ \A j \in Ids \ {i} : cloud'[j] = cloud[j]
  BY <1>4 DEF Calm, NInv, IInv, TypeOK, CloudOK
<1>7. \A j \in Ids : cloud[j].status = "none" => cloud'[j].status = "none"
  BY <1>4, <1>6
<1>8. PICK ids : ids = state[p] /\ IsRecord(ids) /\ MadeFor(Doc(p), ids)
  BY <1>1, Sorted
<1>9. ASSUME command[p] = "apply", manifest[Doc(p)] # "ComputeStackWithBastion"
      PROVE  /\ Head(script[p]).op # "make"
             /\ \A s \in DOMAIN ids :
                  /\ ids[s] \in Live'
                  /\ /\ cloud[ids[s]].parts = {}
                     /\ Head(script[p]).op = "set" => Head(script[p]).slot # s
                     => cloud'[ids[s]].parts = {}
  <2>1. Head(script[p]).op = "set" /\ Slot(p) \in DOMAIN ids /\ Builds(ids, script[p])
    BY <1>1, <1>8, <1>9, FirstOfBuilds, Sorted
  <2>2. i = ids[Slot(p)] /\ st = cloud[i].status
    BY <1>4, <1>8, <2>1 DEF Target
  <2>3. \A s \in DOMAIN ids : ids[s] \in Live'
    BY <1>5, <1>6, <2>1, <2>2 DEF Builds, Live
  <2>4. \A s \in DOMAIN ids : Slot(p) # s => cloud'[ids[s]] = cloud[ids[s]]
    BY <1>6, <1>8, <2>1, <2>2 DEF MadeFor, IsRecord
  <2> QED BY <2>1, <2>3, <2>4 DEF Slot
<1>10. ASSUME command[p] = "delete", manifest[Doc(p)] = "ComputeStack"
       PROVE  /\ \A j \in Ids : \A part : part \notin cloud[j].parts => part \notin cloud'[j].parts
              /\ \A s \in DOMAIN ids : Head(script[p]) = TryDelete(s) => ids[s] \notin Live'
              /\ \A s, part : Head(script[p]) = Drop(s, part) =>
                   ids[s] \notin Live' \/ part \notin cloud'[ids[s]].parts
  <2>1. Head(script[p]).op # "set"
    BY <1>1, <1>10, FirstOfClears
  <2>2. \A j \in Ids : \A part : part \notin cloud[j].parts => part \notin cloud'[j].parts
    BY <1>4, <1>6, <2>1
  <2>3. PICK x : x = Head(script[p])
    OBVIOUS
  <2>4. /\ i = ids[x.slot]
        /\ x.op = "drop" => x.part \notin cloud'[i].parts
        /\ x.op = "remove" => cloud'[i].status \in {"deleting", "gone"}
    BY <1>4, <1>5, <1>6, <1>8, <2>3 DEF Target, Slot, Part
  <2>5. \A s : x = TryDelete(s) => ids[s] \notin Live'
    BY <2>4, TryFacts DEF Live
  <2>6. \A s, part : x = Drop(s, part) => part \notin cloud'[ids[s]].parts
    BY <2>4, TryFacts
  <2> QED BY <2>2, <2>3, <2>5, <2>6
<1> QED BY <1>1, <1>5, <1>7, <1>8, <1>9, <1>10, CallLoses

LEMMA LookLoses ==
  ASSUME Calm, NEW p \in Processes, DescribeCall(p) \/ ImageCall(p)
  PROVE  Quiet'
<1>1. /\ pc[p] = "run" /\ UNCHANGED <<state, manifest, files, cloud>>
      /\ Head(script[p]).op \in {"describe", "image"}
      /\ Proceed(p) \/ (Head(script[p]).op = "image" /\ Continue(p, <<>>))
  BY DEF DescribeCall, ImageCall, Call, Remains
<1>2. TypeOK /\ Ages
  BY <1>1, CloudStays DEF Calm, NInv, IInv
<1>3. CASE Proceed(p)
  <2>1. ASSUME command[p] = "apply", manifest[Doc(p)] # "ComputeStackWithBastion"
        PROVE  /\ Head(script[p]).op # "make"
               /\ \A s \in DOMAIN state[p] :
                    /\ state[p][s] \in Live'
                    /\ cloud[state[p][s]].parts = {} => cloud'[state[p][s]].parts = {}
    <3>1. Builds(state[p], script[p])
      BY <1>1, <2>1, Sorted
    <3> QED BY <1>1, <3>1 DEF Builds, Live
  <2>2. /\ \A s : Head(script[p]) # TryDelete(s)
        /\ \A s, part : Head(script[p]) # Drop(s, part)
    BY <1>1, TryFacts
  <2> QED BY <1>1, <1>2, <1>3, <2>1, <2>2, CallLoses
<1>4. CASE Head(script[p]).op = "image" /\ Continue(p, <<>>)
  <2>1. command[p] = "apply" /\ manifest[Doc(p)] = "ComputeStackWithBastion"
    <3>1. PICK steps \in Seq(Steps) : steps = script[p] /\ steps # <<>>
      BY <1>1, Calling DEF Calm, NInv
    <3>2. steps[1] = Head(steps) /\ 1 \in DOMAIN steps
      BY <3>1, RestFacts
    <3>3. command[p] # "delete"
      BY <1>1, <1>4, <3>1, <3>2, Calling DEF Deletes, Calm, NInv
    <3> QED BY <1>1, <1>4, <3>3, Sorted, FirstOfBuilds
  <2>2. PICK ids : ids = state[p] /\ IsRecord(ids)
    BY <1>1, Sorted
  <2>3. state' = [state EXCEPT ![p] = ids] /\ <<>> \in Seq(Steps)
    BY <1>1, <1>2, <2>2 DEF TypeOK, ProcsOK
  <2>4. Went(p, <<>>, ids)
    BY <1>1, <1>2, <1>4, <2>2, <2>3, GoesOn
  <2>5. ASSUME NEW i \in Live', manifest[cloud'[i].doc] # "ComputeStackWithBastion"
        PROVE  \/ i \in Recorded(cloud'[i].doc)
               \/ command[p] = "apply" /\ \E s \in DOMAIN ids : i = ids[s]
    BY <1>1, <2>2, <2>5, Held DEF Live, Kept
  <2> QED BY <1>1, <2>1, <2>4, <2>5, WentQuiet
<1> QED BY <1>1, <1>3, <1>4

LEMMA CreateLoses ==
  ASSUME Calm, NEW p \in Processes, CreateCall(p)
  PROVE  Quiet'
<1>1. pc[p] = "run" /\ UNCHANGED <<manifest, files>>
  BY DEF CreateCall, Call, Remains
<1>2. PICK d \in DOMAIN manifest, steps \in Seq(Steps), s \in Slots, n \in Ids \cup {0}, i \in Ids :
        \E ids, after : MakesOne(p, d, steps, ids, s, n, i, after)
  BY OneIsMade DEF Calm, NInv
<1>3. PICK ids, after : MakesOne(p, d, steps, ids, s, n, i, after)
  BY <1>2
<1>4. /\ d = Doc(p) /\ steps = script[p] /\ ids = state[p] /\ s = Slot(p)
      /\ steps # <<>> /\ Head(steps).op = "make" /\ Head(steps).slot = s
      /\ IsRecord(ids) /\ MadeFor(d, ids)
      /\ cloud[i].status = "none" /\ cloud'[i].status = "available" /\ cloud'[i].parts = {}
      /\ \A j \in Ids \ {i} : cloud'[j] = cloud[j]
      /\ DOMAIN after = DOMAIN ids \cup {s} /\ after[s] = i
      /\ \A x \in DOMAIN ids \ {s} : after[x] = ids[x]
      /\ Went(p, Tail(steps), after)
  BY <1>3 DEF MakesOne, Resource
<1>5. command[p] = "apply"
  <2>1. steps[1] = Head(steps) /\ 1 \in DOMAIN steps
    BY <1>4, RestFacts
  <2> QED BY <1>1, <1>4, <2>1, Calling DEF Deletes, Calm, NInv
<1>6. ASSUME manifest[d] # "ComputeStackWithBastion"
      PROVE  s \notin DOMAIN ids /\ Builds(ids, steps)
  BY <1>1, <1>4, <1>5, <1>6, FirstOfBuilds, Sorted
<1>7. \A x \in DOMAIN ids : cloud'[ids[x]] = cloud[ids[x]]
  BY <1>4 DEF MadeFor, IsRecord
<1>8. ASSUME manifest[d] # "ComputeStackWithBastion"
      PROVE  Builds(after, Tail(steps))'
  <2>1. \A x \in DOMAIN after : after[x] \in Live'
    BY <1>4, <1>6, <1>7, <1>8 DEF Builds, Live
  <2>2. \A x \in DOMAIN after :
          \/ Head(steps).op = "make" /\ Head(steps).slot = x
          \/ /\ x \in DOMAIN ids /\ cloud[ids[x]].parts = {}
             /\ Head(steps).op = "set" => Head(steps).slot # x
          => cloud'[after[x]].parts = {}
    BY <1>4, <1>6, <1>7, <1>8
  <2>3. DOMAIN after = IF Head(steps).op = "make" THEN DOMAIN ids \cup {Head(steps).slot}
                       ELSE DOMAIN ids
    BY <1>4
  <2> QED BY <1>4, <1>6, <1>8, <2>1, <2>2, <2>3, BuildsOn
<1>9. ASSUME NEW j \in Live', manifest[cloud'[j].doc] # "ComputeStackWithBastion"
      PROVE  \/ j \in Recorded(cloud'[j].doc)
             \/ command[p] = "apply" /\ \E x \in DOMAIN after : j = after[x]
  <2>1. CASE j = i
    BY <1>4, <1>5, <2>1
  <2>2. CASE j # i
    <3>1. j \in Live /\ cloud'[j].doc = cloud[j].doc
      BY <1>4, <2>2 DEF Live
    <3>2. CASE j \in Recorded(cloud[j].doc)
      BY <3>1, <3>2
    <3>3. CASE j \in Kept(p)
      <4>1. PICK x \in DOMAIN ids : ids[x] = j
        BY <1>4, <3>3 DEF Kept
      <4>2. cloud[j].doc = d
        BY <1>4, <4>1 DEF MadeFor
      <4>3. x # s
        BY <1>6, <1>9, <3>1, <4>1, <4>2
      <4> QED BY <1>4, <1>5, <4>1, <4>3
    <3> QED BY <1>1, <1>9, <3>1, <3>2, <3>3, Held
  <2> QED BY <2>1, <2>2
<1> QED BY <1>1, <1>4, <1>5, <1>8, <1>9, WentQuiet

-----------------------------------------------------------------------------
(* What happens around the calls.                                          *)
LEMMA GiveUpLoses ==
  ASSUME Calm, NEW p \in Processes, Unreadable(p) \/ Skip(p) \/ NotSupported(p)
  PROVE  Quiet'
<1>1. /\ pc[p] = "load" /\ UNCHANGED <<manifest, files, cloud>>
      /\ NextDocument(p) \/ DocumentFails(p)
  BY DEF Unreadable, Skip, NotSupported, LoadState, Remains
<1>2. Ended(p)
  BY <1>1, DocumentEnds DEF Calm, NInv, IInv
<1>3. DOMAIN state[p] = {}
  BY <1>1 DEF Calm, NInv, IInv, AtPc
<1> QED BY <1>1, <1>2, <1>3, EndLoses

LEMMA BeginCreationLoses ==
  ASSUME Calm, NEW p \in Processes, BeginCreation(p)
  PROVE  Quiet'
<1>1. /\ pc[p] = "load" /\ command[p] = "apply" /\ UNCHANGED <<state, manifest, files, cloud>>
      /\ Continue(p, createResource(manifest[Doc(p)]))
  BY DEF BeginCreation, LoadState, Remains
<1>2. PICK kind \in Kinds : kind = manifest[Doc(p)]
  BY <1>1, DocIsListed DEF Calm, NInv, IInv
<1>3. PICK ids : ids = state[p] /\ DOMAIN ids = {}
  BY <1>1 DEF Calm, NInv, IInv, AtPc
<1>4. PICK steps \in Seq(Steps) : steps = createResource(kind)
  BY CreationFacts DEF WellMade
<1>5. Went(p, steps, ids)
  <2>1. state' = [state EXCEPT ![p] = ids] /\ IsRecord(ids)
    BY <1>1, <1>3 DEF Calm, NInv, IInv, TypeOK, ProcsOK
  <2> QED BY <1>1, <1>2, <1>4, <2>1, GoesOn DEF Calm, NInv, IInv
<1>6. kind # "ComputeStackWithBastion" => Builds(ids, steps)'
  BY <1>3, <1>4, CreationsOrderly DEF Builds
<1>7. ASSUME NEW i \in Live', manifest[cloud'[i].doc] # "ComputeStackWithBastion"
      PROVE  i \in Recorded(cloud'[i].doc)
  BY <1>1, <1>3, <1>7, Held DEF Live, Kept
<1> QED BY <1>1, <1>2, <1>5, <1>6, <1>7, WentQuiet

LEMMA BeginDeletionLoses ==
  ASSUME Calm, NEW p \in Processes, BeginDeletion(p)
  PROVE  Quiet'
<1>1. /\ pc[p] = "load" /\ command[p] = "delete" /\ UNCHANGED <<manifest, files, cloud>>
      /\ files[Doc(p)].content = "whole"
      /\ Continue(p, deleteResource(manifest[Doc(p)], files[Doc(p)].ids))
      /\ state' = [state EXCEPT ![p] = files[Doc(p)].ids]
  BY DEF BeginDeletion, LoadState, Remains
<1>2. PICK d \in DOMAIN manifest : d = Doc(p) /\ manifest[d] \in Kinds
  BY <1>1, DocIsListed DEF Calm, NInv, IInv
<1>3. PICK kind \in Kinds : kind = manifest[d]
  BY <1>2
<1>4. PICK ids : ids = files[d].ids /\ IsRecord(ids)
  BY <1>2 DEF Calm, NInv, IInv, TypeOK, FilesOK
<1>5. PICK steps \in Seq(Steps) : steps = deleteResource(kind, ids)
  BY DeletionScript DEF Undoes
<1>6. Went(p, steps, ids)
  <2>1. Continue(p, steps) /\ state' = [state EXCEPT ![p] = ids]
    BY <1>1, <1>2, <1>3, <1>4, <1>5
  <2> QED BY <1>1, <1>4, <2>1, GoesOn DEF Calm, NInv, IInv
<1>7. kind = "ComputeStack" => Clears(ids, steps)'
  <2> SUFFICES ASSUME kind = "ComputeStack"
               PROVE  Clears(ids, steps)'
    OBVIOUS
  <2>1. OnFile(d)
    BY DEF Calm, NInv, IInv
  <2>2. DOMAIN ids = {"vpcId", "internetGatewayId", "publicSubnetId", "routeTableId"}
    BY <1>1, <1>2, <1>3, <1>4, <2>1, StackOrderly DEF OnFile
  <2>3. steps = deleteComputeStack(ids)
    BY <1>5 DEF deleteResource, Stacks
  <2>4. Clears(ids, steps)
    BY <2>2, <2>3, ClearsAtFirst
  <2> QED BY <1>1, <2>4 DEF Clears, Loosens, Live
<1>8. ASSUME NEW i \in Live', manifest[cloud'[i].doc] # "ComputeStackWithBastion"
      PROVE  i \in Recorded(cloud'[i].doc)
  BY <1>1, <1>8, Held DEF Live
<1> QED BY <1>1, <1>2, <1>3, <1>6, <1>7, <1>8, WentQuiet

(* Nothing that a file records is lost when it is written anew: there was  *)
(* nothing.                                                                *)
LEMMA TruncateLoses ==
  ASSUME Calm, NEW p \in Processes, Truncate(p)
  PROVE  Quiet'
<1>1. /\ pc[p] = "save" /\ command[p] = "apply"
      /\ UNCHANGED <<command, queue, script, state, cloud, manifest>>
      /\ Puts(p, command[p], queue[p], "write", script[p], state[p])
  BY Tears DEF Calm, NInv
<1>2. PICK d \in DOMAIN manifest : d = Doc(p)
  BY <1>1, Sorted
<1>3. files'[d] = Torn /\ \A e \in DOMAIN manifest \ {d} : files'[e] = files[e]
  BY <1>2, Tears DEF Calm, NInv
<1>4. Recorded(d) = {}
  <2>1. files[d].content = "none"
    BY <1>1, <1>2 DEF Calm, NInv, IInv, AtPc, KnowsFile
  <2> QED BY <2>1 DEF Calm, NInv, Blank, Recorded
<1>5. Careful(p)'
  <2>1. Doc(p)' = d
    BY <1>1, <1>2 DEF Doc
  <2>2. command[p] = "apply" /\ manifest[d] # "ComputeStackWithBastion" =>
          Builds(state[p], script[p])'
    <3>1. command[p] = "apply" /\ manifest[d] # "ComputeStackWithBastion" =>
            Builds(state[p], script[p])
      BY <1>1, <1>2, Sorted
    <3> QED BY <1>1, <3>1 DEF Builds, Live
  <2>3. files'[d].content = "torn"
    BY <1>3 DEF Torn, File
  <2> QED BY <1>1, <2>1, <2>2, <2>3 DEF Careful
<1>6. ASSUME NEW i \in Live', manifest[cloud'[i].doc] # "ComputeStackWithBastion"
      PROVE  i \in Recorded(cloud[i].doc)' \/ (i \in Kept(p)' /\ command'[p] = "apply")
  <2>1. i \in Live /\ cloud'[i] = cloud[i] /\ cloud[i].doc \in DOMAIN manifest
    BY <1>1, <1>6 DEF Live, Calm, NInv, Placed
  <2>2. CASE i \in Recorded(cloud[i].doc)
    BY <1>3, <1>4, <2>1, <2>2 DEF Recorded
  <2>3. CASE i \in Kept(p)
    BY <1>1, <2>3 DEF Kept
  <2> QED BY <1>1, <1>6, <2>1, <2>2, <2>3, Held
<1> QED BY <1>1, <1>5, <1>6, QuietStep

LEMMA WriteLoses ==
  ASSUME Calm, NEW p \in Processes, Write(p) \/ DeleteState(p)
  PROVE  Quiet'
<1>1. pc[p] \in {"write", "drop"} /\ UNCHANGED <<cloud, manifest>> /\ Ended(p)
  BY Saves DEF Calm, NInv
<1>2. PICK d \in DOMAIN manifest : d = Doc(p)
  BY <1>1, Sorted
<1>3. /\ files'[d] = IF pc[p] = "write" THEN File("whole", state[p]) ELSE NoFile
      /\ \A e \in DOMAIN manifest \ {d} : files'[e] = files[e]
  BY <1>2, Saves DEF Calm, NInv
<1>4. ASSUME NEW i \in Live, manifest[cloud[i].doc] # "ComputeStackWithBastion"
      PROVE  i \in Recorded(cloud[i].doc)'
  <2>1. cloud[i].doc \in DOMAIN manifest
    BY DEF Live, Calm, NInv, Placed
  <2>2. CASE pc[p] = "write"
    <3>1. PICK ids : ids = state[p] /\ MadeFor(d, ids)
      BY <1>1, <1>2, Sorted
    <3>2. files'[d].ids = ids
      <4>1. files'[d] = File("whole", ids)
        BY <1>3, <2>2, <3>1
      <4> QED BY <4>1 DEF File
    <3>3. Recorded(d) = {}
      BY <1>2, <2>2 DEF Calm, NInv, Careful, Blank, Recorded
    <3>4. CASE i \in Recorded(cloud[i].doc)
      BY <1>1, <1>3, <2>1, <3>3, <3>4 DEF Recorded
    <3>5. CASE i \in Kept(p)
      <4>1. PICK s \in DOMAIN ids : ids[s] = i
        BY <3>1, <3>5 DEF Kept
      <4>2. cloud'[i].doc = d
        BY <1>1, <3>1, <4>1 DEF MadeFor
      <4> QED BY <3>2, <4>1, <4>2 DEF Recorded
    <3> QED BY <1>1, <1>4, <3>4, <3>5, Held
  <2>3. CASE pc[p] = "drop"
    <3>1. command[p] = "delete" /\ Deletes(manifest[d], state[p], script[p]) /\ script[p] = <<>>
      BY <1>2, <2>3 DEF Calm, NInv, IInv, AtPc, TypeOK, ProcsOK
    <3>2. PICK ids : ids = state[p]
      OBVIOUS
    <3>3. manifest[d] \notin Stacks => \A s \in DOMAIN ids : ids[s] \notin Live
      BY <3>1, <3>2 DEF Deletes
    <3>4. manifest[d] = "ComputeStack" => \A s \in DOMAIN ids : ids[s] \notin Live
      <4>1. manifest[d] = "ComputeStack" => Clears(ids, <<>>)
        BY <1>2, <2>3, <3>1, <3>2, Sorted
      <4> QED BY <4>1 DEF Clears
    <3>5. cloud[i].doc # d
      <4> SUFFICES ASSUME cloud[i].doc = d
                   PROVE  FALSE
        OBVIOUS
      <4>1. \E s \in DOMAIN ids : ids[s] = i
        BY <1>2, <1>4, <2>3, <3>2, AllKept
      <4> QED BY <1>4, <3>3, <3>4, <4>1 DEF Stacks
    <3>6. i \in Recorded(cloud[i].doc)
      BY <1>4, <2>3, <3>1, Held
    <3> QED BY <1>1, <1>3, <2>1, <3>5, <3>6 DEF Recorded
  <2> QED BY <1>1, <2>2, <2>3
<1>5. ASSUME NEW i \in Live', manifest[cloud'[i].doc] # "ComputeStackWithBastion"
      PROVE  i \in Recorded(cloud[i].doc)'
  BY <1>1, <1>4, <1>5 DEF Live
<1> QED BY <1>1, <1>5, EndQuiet

(* Nobody is at work when the first command begins.                        *)
LEMMA BeginLoses ==
  ASSUME Calm, NEW p \in Processes, NEW cmd \in {"apply", "delete"}, Begin(p, cmd), ~met'
  PROVE  Quiet'
<1>1. /\ Running = {} /\ pc' = [pc EXCEPT ![p] = "load"]
      /\ UNCHANGED <<manifest, files, cloud>>
  BY DEF Begin
<1>2. \A r \in Processes : command[r] = "none" /\ pc[r] = "idle"
  BY <1>1 DEF Running, Calm, NInv, IInv, TypeOK, ProcsOK
<1>3. \A r \in Processes : pc'[r] \in {"idle", "load"}
  BY <1>1, <1>2 DEF Calm, NInv, IInv, TypeOK, ProcsOK
<1>4. ASSUME NEW i \in Live'
      PROVE  i \in Recorded(cloud[i].doc)' \/ manifest[cloud'[i].doc] = "ComputeStackWithBastion"
  <2>1. i \in Live
    BY <1>1 DEF Live
  <2>2. i \in Recorded(cloud[i].doc) \/ manifest[cloud[i].doc] = "ComputeStackWithBastion"
    BY <1>2, <2>1 DEF Calm, NInv, NothingLost
  <2> QED BY <1>1, <2>2 DEF Recorded
<1>5. NothingLost'
  BY <1>1, <1>4 DEF NothingLost
<1> QED BY <1>3, <1>5 DEF Quiet, Careful

LEMMA NothingDone ==
  ASSUME Calm, UNCHANGED <<manifest, files, procs>>, Live' = Live,
         \A i \in Ids : cloud'[i].doc = cloud[i].doc /\ cloud'[i].parts = cloud[i].parts
  PROVE  Quiet'
<1>1. NothingLost'
  <2> SUFFICES ASSUME NEW i \in Live'
               PROVE  \/ i \in Recorded(cloud[i].doc)'
                      \/ \E p \in Processes : i \in Kept(p)' /\ command'[p] = "apply"
                      \/ manifest[cloud'[i].doc] = "ComputeStackWithBastion"
    BY DEF NothingLost
  <2>1. i \in Live /\ cloud'[i].doc = cloud[i].doc
    BY DEF Live
  <2>2. CASE i \in Recorded(cloud[i].doc)
    BY <2>1, <2>2 DEF Recorded
  <2>3. CASE \E p \in Processes : i \in Kept(p) /\ command[p] = "apply"
    BY <2>3 DEF Kept, procs
  <2> QED BY <2>1, <2>2, <2>3 DEF Calm, NInv, NothingLost
<1>2. ASSUME NEW p \in Processes
      PROVE  Careful(p)'
  <2>1. CASE pc[p] \in {"idle", "load"}
    BY <2>1 DEF Careful, procs
  <2>2. CASE pc[p] \notin {"idle", "load"}
    <3>1. /\ IsRecord(state[p]) /\ Careful(p) /\ Doc(p)' = Doc(p)
          /\ command[p] = "delete" => Deletes(manifest[Doc(p)], state[p], script[p])
      BY <2>2 DEF Calm, NInv, IInv, AtPc, TypeOK, ProcsOK, Doc, procs
    <3>2. PICK ids, steps : ids = state[p] /\ steps = script[p]
      OBVIOUS
    <3>3. Builds(ids, steps) => Builds(ids, steps)'
      BY <3>1, <3>2 DEF Builds, IsRecord
    <3>4. Clears(ids, steps) /\ Deletes(manifest[Doc(p)], ids, steps) => Clears(ids, steps)'
      <4> SUFFICES ASSUME Clears(ids, steps), Deletes(manifest[Doc(p)], ids, steps)
                   PROVE  Clears(ids, steps)'
        OBVIOUS
      <4>1. \A k \in DOMAIN steps : ids[steps[k].slot] \in Ids
        BY <3>1, <3>2 DEF Deletes, IsRecord
      <4>2. \A k \in DOMAIN steps : \A s : steps[k] = TryDelete(s) => ids[s] \in Ids
        BY <4>1, TryFacts
      <4>3. /\ Loosens(ids, steps, "routeTableId", "association")'
            /\ Loosens(ids, steps, "internetGatewayId", "attachment")'
        BY <4>2 DEF Clears, Loosens
      <4> QED BY <4>3 DEF Clears
    <3>5. /\ script'[p] = steps /\ state'[p] = ids /\ command'[p] = command[p] /\ pc'[p] = pc[p]
          /\ manifest' = manifest /\ files' = files
      BY <3>2 DEF procs
    <3>6. Builds(ids, steps)' => Builds(state[p], script[p])'
      BY <3>5 DEF Builds
    <3>7. Clears(ids, steps)' => Clears(state[p], script[p])'
      BY <3>5 DEF Clears, Loosens
    <3> QED BY <2>2, <3>1, <3>2, <3>3, <3>4, <3>5, <3>6, <3>7 DEF Careful
  <2> QED BY <2>1, <2>2
<1> QED BY <1>1, <1>2 DEF Quiet

-----------------------------------------------------------------------------
(* Where resources are, and what files record.                             *)
LEMMA WhoTroubles ==
  ASSUME [Next]_vars, TypeOK, faults' = 0, ~met'
  PROVE  /\ manifest' = manifest /\ faults = 0 /\ ~met
         /\ \A p \in Processes : ~NotAnswered(p) /\ ~FileFails(p) /\ ~Crash(p)
         /\ \A i \in Ids : ~Perish(i)
<1>1. faults' = faults + 1 => FALSE
  BY BoundsAssumption DEF TypeOK
<1>2. /\ \A p \in Processes : ~NotAnswered(p) /\ ~FileFails(p) /\ ~Crash(p)
      /\ \A i \in Ids : ~Perish(i)
  BY <1>1 DEF NotAnswered, FileFails, Crash, Perish, Fault
<1>3. ASSUME NEW p \in Processes, Proc(p)
      PROVE  UNCHANGED <<manifest, met, faults>>
  <2>1. Unreadable(p) \/ Skip(p) \/ NotSupported(p) \/ BeginCreation(p) \/ BeginDeletion(p) =>
          UNCHANGED <<manifest, met, faults>>
    BY DEF Unreadable, Skip, NotSupported, BeginCreation, BeginDeletion, LoadState, Remains
  <2>2. CreateCall(p) \/ SetCall(p) \/ DropCall(p) \/ RemoveCall(p) =>
          UNCHANGED <<manifest, met, faults>>
    BY DEF CreateCall, SetCall, DropCall, RemoveCall, Remains
  <2>3. DescribeCall(p) \/ ImageCall(p) => UNCHANGED <<manifest, met, faults>>
    BY DEF DescribeCall, ImageCall, Remains
  <2>4. CreateCallRefused(p) \/ SetCallRefused(p) \/ DropCallRefused(p) =>
          UNCHANGED <<manifest, met, faults>>
    BY DEF CreateCallRefused, SetCallRefused, DropCallRefused, CallFails, Remains
  <2>5. RemoveCallRefused(p) \/ DescribeCallRefused(p) => UNCHANGED <<manifest, met, faults>>
    BY DEF RemoveCallRefused, DescribeCallRefused, CallFails, Remains
  <2>6. Truncate(p) \/ Write(p) \/ DeleteState(p) => UNCHANGED <<manifest, met, faults>>
    BY DEF Truncate, Write, DeleteState, Remains
  <2> QED BY <1>2, <1>3, <2>1, <2>2, <2>3, <2>4, <2>5, <2>6 DEF Proc
<1>4. ASSUME NEW p \in Processes, NEW cmd \in {"apply", "delete"}, Begin(p, cmd)
      PROVE  manifest' = manifest /\ faults' = faults /\ ~met
  BY <1>4 DEF Begin
<1>5. ASSUME NEW i \in Ids, ShutDown(i)
      PROVE  UNCHANGED <<manifest, met, faults>>
  BY <1>5 DEF ShutDown
<1>6. UNCHANGED vars => UNCHANGED <<manifest, met, faults>>
  BY DEF vars
<1> QED BY <1>2, <1>3, <1>4, <1>5, <1>6 DEF Next

LEMMA ManifestStays ==
  ASSUME [Next]_vars
  PROVE  manifest' = manifest
<1>1. ASSUME NEW p \in Processes, Proc(p)
      PROVE  manifest' = manifest
  <2>1. Unreadable(p) \/ Skip(p) \/ NotSupported(p) \/ BeginCreation(p) \/ BeginDeletion(p) =>
          manifest' = manifest
    BY DEF Unreadable, Skip, NotSupported, BeginCreation, BeginDeletion, LoadState, Remains
  <2>2. CreateCall(p) \/ SetCall(p) \/ DropCall(p) \/ RemoveCall(p) => manifest' = manifest
    BY DEF CreateCall, SetCall, DropCall, RemoveCall, Remains
  <2>3. DescribeCall(p) \/ ImageCall(p) \/ FileFails(p) => manifest' = manifest
    BY DEF DescribeCall, ImageCall, FileFails, Remains
  <2>4. CreateCallRefused(p) \/ SetCallRefused(p) \/ DropCallRefused(p) => manifest' = manifest
    BY DEF CreateCallRefused, SetCallRefused, DropCallRefused, CallFails, Remains
  <2>5. RemoveCallRefused(p) \/ DescribeCallRefused(p) \/ NotAnswered(p) => manifest' = manifest
    BY DEF RemoveCallRefused, DescribeCallRefused, NotAnswered, CallFails, Remains
  <2>6. Truncate(p) \/ Write(p) \/ DeleteState(p) => manifest' = manifest
    BY DEF Truncate, Write, DeleteState, Remains
  <2> QED BY <1>1, <2>1, <2>2, <2>3, <2>4, <2>5, <2>6 DEF Proc
<1>2. ASSUME NEW p \in Processes, Crash(p) \/ \E cmd \in {"apply", "delete"} : Begin(p, cmd)
      PROVE  manifest' = manifest
  BY <1>2 DEF Crash, Begin, Remains
<1>3. ASSUME NEW i \in Ids, Perish(i) \/ ShutDown(i)
      PROVE  manifest' = manifest
  BY <1>3 DEF Perish, ShutDown
<1> QED BY <1>1, <1>2, <1>3 DEF Next, vars

LEMMA BlankStays ==
  ASSUME IInv, Blank, [Next]_vars
  PROVE  Blank'
<1>1. manifest' = manifest
  BY ManifestStays
<1>2. CASE UNCHANGED files
  BY <1>1, <1>2 DEF Blank
<1>3. ASSUME NEW p \in Processes, Truncate(p) \/ Write(p) \/ DeleteState(p)
      PROVE  Blank'
  <2>1. PICK file : /\ files'[Doc(p)] = file /\ (file.content # "whole" => DOMAIN file.ids = {})
                    /\ \A e \in DOMAIN manifest \ {Doc(p)} : files'[e] = files[e]
    <3>1. CASE Truncate(p)
      <4>1. Torn.ids = NoIds
        BY DEF Torn, File
      <4> QED BY <3>1, <4>1, Tears, Nobody
    <3>2. CASE Write(p) \/ DeleteState(p)
      <4>1. NoFile.ids = NoIds /\ File("whole", state[p]).content = "whole"
        BY DEF NoFile, File
      <4>2. PICK f : f = File("whole", state[p]) /\ f.content = "whole"
        BY <4>1
      <4>3. files'[Doc(p)] = f \/ files'[Doc(p)] = NoFile
        BY <3>2, <4>2, Saves
      <4> QED BY <3>2, <4>1, <4>2, <4>3, Saves, Nobody
    <3> QED BY <1>3, <3>1, <3>2
  <2> QED BY <1>1, <2>1 DEF Blank
<1> QED BY <1>2, <1>3, WhoWrites

LEMMA PlacedStays ==
  ASSUME IInv, Placed, [Next]_vars
  PROVE  Placed'
<1>1. manifest' = manifest /\ CloudOK
  BY ManifestStays DEF IInv, TypeOK
<1>2. CASE UNCHANGED cloud
  BY <1>1, <1>2 DEF Placed
<1>3. ASSUME Ages, \A i \in Ids : cloud[i].status = "none" => cloud'[i].status = "none",
             \A i \in Ids : cloud'[i].status = "deleting" =>
               cloud[i].status = "deleting" \/ cloud[i].slot \in Instances
      PROVE  Placed'
  <2> SUFFICES ASSUME NEW i \in Ids, cloud'[i].status # "none"
               PROVE  /\ cloud'[i].doc \in DOMAIN manifest
                      /\ cloud'[i].slot \in MadeSlots(manifest[cloud'[i].doc])
                      /\ cloud'[i].network # 0 =>
                           /\ cloud'[cloud'[i].network].status # "none"
                           /\ cloud'[cloud'[i].network].doc = cloud'[i].doc
                      /\ cloud'[i].status = "deleting" => cloud'[i].slot \in Instances
    BY <1>1 DEF Placed
  <2>1. /\ cloud[i].status # "none" /\ cloud'[i].doc = cloud[i].doc /\ cloud'[i].slot = cloud[i].slot
        /\ cloud'[i].network = cloud[i].network /\ cloud[i].network \in Ids \cup {0}
    BY <1>1, <1>3 DEF Ages, CloudOK
  <2>2. /\ cloud[i].doc \in DOMAIN manifest /\ cloud[i].slot \in MadeSlots(manifest[cloud[i].doc])
        /\ cloud[i].network # 0 =>
             /\ cloud[cloud[i].network].status # "none"
             /\ cloud[cloud[i].network].doc = cloud[i].doc
        /\ cloud[i].status = "deleting" => cloud[i].slot \in Instances
    BY <2>1 DEF Placed
  <2>3. cloud[i].network # 0 => /\ cloud'[cloud[i].network].status # "none"
                                /\ cloud'[cloud[i].network].doc = cloud[i].doc
    BY <1>3, <2>1, <2>2 DEF Ages
  <2>4. cloud'[i].status = "deleting" => cloud[i].slot \in Instances
    BY <1>3, <2>2
  <2> QED BY <2>1, <2>2, <2>3, <2>4
<1>4. ASSUME NEW p \in Processes, CreateCall(p)
      PROVE  Placed'
  <2>1. PICK d \in DOMAIN manifest, steps \in Seq(Steps), s \in Slots, n \in Ids \cup {0}, i \in Ids :
          \E ids, after : MakesOne(p, d, steps, ids, s, n, i, after)
    BY <1>4, OneIsMade
  <2>2. PICK ids, after : MakesOne(p, d, steps, ids, s, n, i, after)
    BY <2>1
  <2>3. /\ d = Doc(p) /\ steps = script[p] /\ ids = state[p] /\ n = Network(p)
        /\ steps # <<>> /\ Head(steps).op = "make" /\ Head(steps).slot = s
        /\ IsRecord(ids) /\ MadeFor(d, ids) /\ cloud[i].status = "none"
        /\ cloud'[i].status = "available" /\ cloud'[i].slot = s
        /\ cloud'[i].doc = d /\ cloud'[i].network = n
        /\ \A j \in Ids \ {i} : cloud'[j] = cloud[j]
    BY <2>2 DEF MakesOne, Resource
  <2>4. pc[p] = "run" /\ Ages
    BY <1>4, OneIsMade DEF CreateCall, Call
  <2>5. s \in MadeSlots(manifest[d])
    <3>1. steps[1] = Head(steps) /\ 1 \in DOMAIN steps
      BY <2>3, RestFacts
    <3>2. Creates(manifest[d], ids, steps)
      BY <2>3, <2>4, <3>1, Calling DEF Deletes
    <3>3. s \in MakesOf(steps)
      BY <2>3, <3>1 DEF MakesOf
    <3> QED BY <3>2, <3>3 DEF Creates
  <2>6. n # 0 => /\ n \in Ids \ {i} /\ cloud[n].status # "none" /\ cloud[n].doc = d
    BY <2>3 DEF Network, MadeFor, IsRecord
  <2>7. ASSUME NEW j \in Ids \ {i}, cloud[j].status # "none"
        PROVE  cloud[j].network # 0 => cloud[j].network \in Ids \ {i}
    BY <1>1, <2>3, <2>7 DEF Placed, CloudOK
  <2> SUFFICES ASSUME NEW j \in Ids, cloud'[j].status # "none"
               PROVE  /\ cloud'[j].doc \in DOMAIN manifest
                      /\ cloud'[j].slot \in MadeSlots(manifest[cloud'[j].doc])
                      /\ cloud'[j].network # 0 =>
                           /\ cloud'[cloud'[j].network].status # "none"
                           /\ cloud'[cloud'[j].network].doc = cloud'[j].doc
                      /\ cloud'[j].status = "deleting" => cloud'[j].slot \in Instances
    BY <1>1 DEF Placed
  <2>8. CASE j = i
    BY <2>3, <2>5, <2>6, <2>8
  <2>9. CASE j # i
    <3>1. cloud'[j] = cloud[j] /\ cloud[j].status # "none"
      BY <2>3, <2>9
    <3>2. cloud[j].network # 0 => cloud'[cloud[j].network] = cloud[cloud[j].network]
      BY <2>3, <2>7, <2>9, <3>1
    <3> QED BY <3>1, <3>2 DEF Placed
  <2> QED BY <2>8, <2>9
<1>5. ASSUME NEW p \in Processes, SetCall(p) \/ DropCall(p) \/ RemoveCall(p)
      PROVE  Placed'
  <2>1. PICK i \in Ids : \E st : \E parts \in SUBSET Parts :
          /\ i = Target(p) /\ cloud[i].status # "none"
          /\ cloud' = [cloud EXCEPT ![i] = [cloud[i] EXCEPT !.status = st, !.parts = parts]]
          /\ Head(script[p]).op # "remove" => st = cloud[i].status
          /\ Head(script[p]).op = "remove" =>
               st \in {"deleting", "gone"} /\ (st = "deleting" => Slot(p) \in Instances)
    BY <1>5, OneChanges
  <2>2. PICK st : \E parts \in SUBSET Parts :
          /\ i = Target(p) /\ cloud[i].status # "none"
          /\ cloud' = [cloud EXCEPT ![i] = [cloud[i] EXCEPT !.status = st, !.parts = parts]]
          /\ Head(script[p]).op # "remove" => st = cloud[i].status
          /\ Head(script[p]).op = "remove" =>
               st \in {"deleting", "gone"} /\ (st = "deleting" => Slot(p) \in Instances)
    BY <2>1
  <2>3. PICK parts \in SUBSET Parts :
          /\ i = Target(p) /\ cloud[i].status # "none"
          /\ cloud' = [cloud EXCEPT ![i] = [cloud[i] EXCEPT !.status = st, !.parts = parts]]
          /\ Head(script[p]).op # "remove" => st = cloud[i].status
          /\ Head(script[p]).op = "remove" =>
               st \in {"deleting", "gone"} /\ (st = "deleting" => Slot(p) \in Instances)
    BY <2>2
  <2>4. Ages /\ cloud'[i].status = st
    BY <1>1, <2>3, OneAges DEF IInv
  <2>5. \A j \in Ids \ {i} : cloud'[j] = cloud[j]
    BY <1>1, <2>3 DEF CloudOK
  <2>6. pc[p] = "run"
    BY <1>5 DEF SetCall, DropCall, RemoveCall, Call
  <2>7. Head(script[p]).op = "remove" => cloud[i].slot = Slot(p)
    <3>1. PICK steps \in Seq(Steps) : steps = script[p] /\ steps # <<>>
      BY <2>6, Calling
    <3>2. steps[1] = Head(steps) /\ 1 \in DOMAIN steps
      BY <3>1, RestFacts
    <3>3. Head(steps).op = "remove" => Slot(p) \in DOMAIN state[p]
      BY <2>6, <3>1, <3>2, Calling DEF Creates, Deletes, Slot
    <3> QED BY <2>3, <2>6, <3>1, <3>3, Calling DEF MadeFor, Target
  <2>8. \A j \in Ids : cloud[j].status = "none" => cloud'[j].status = "none"
    BY <2>3, <2>5
  <2>9. \A j \in Ids : cloud'[j].status = "deleting" =>
          cloud[j].status = "deleting" \/ cloud[j].slot \in Instances
    BY <2>3, <2>4, <2>5, <2>7
  <2> QED BY <1>3, <2>4, <2>8, <2>9
<1>6. ASSUME NEW i \in Ids, Perish(i) \/ ShutDown(i)
      PROVE  Placed'
  <2>1. cloud' = [cloud EXCEPT ![i].status = "gone"] /\ cloud[i].status # "none"
    BY <1>6 DEF Perish, ShutDown, Live
  <2>2. /\ \A j \in Ids \ {i} : cloud'[j] = cloud[j]
        /\ cloud'[i].status = "gone" /\ cloud'[i].doc = cloud[i].doc
        /\ cloud'[i].slot = cloud[i].slot /\ cloud'[i].network = cloud[i].network
    BY <1>1, <2>1 DEF CloudOK
  <2>3. Ages
    BY <2>2 DEF Ages
  <2> QED BY <1>3, <2>1, <2>2, <2>3
<1> QED BY <1>2, <1>4, <1>5, <1>6, WhoMakes

-----------------------------------------------------------------------------
(* The invariant that NothingLost follows from.                            *)
LEMMA QuietAtFirst == Init => NInv
<1> SUFFICES ASSUME Init
             PROVE  NInv
  OBVIOUS
<1>1. \A i \in Ids : cloud[i].status = "none"
  BY DEF Init, Resource
<1>2. Placed /\ NothingLost
  BY <1>1 DEF Placed, NothingLost, Live
<1>3. Blank
  BY Nobody DEF Init, Blank, NoFile, File
<1>4. \A p \in Processes : Careful(p)
  BY DEF Init, Careful
<1> QED BY <1>2, <1>3, <1>4, Initially DEF NInv

LEMMA QuietStays ==
  ASSUME Calm, [Next]_vars, faults' = 0, ~met'
  PROVE  Quiet'
<1>1. TypeOK /\ CloudOK
  BY DEF Calm, NInv, IInv, TypeOK
<1>2. /\ \A p \in Processes : ~NotAnswered(p) /\ ~FileFails(p) /\ ~Crash(p)
      /\ \A i \in Ids : ~Perish(i)
  BY <1>1, WhoTroubles
<1>3. CASE UNCHANGED vars
  BY <1>3, NothingDone DEF vars, procs, Live
<1>4. ASSUME NEW p \in Processes, Proc(p)
      PROVE  Quiet'
  <2>1. CASE Unreadable(p) \/ Skip(p) \/ NotSupported(p)
    BY <2>1, GiveUpLoses
  <2>2. CASE BeginCreation(p)
    BY <2>2, BeginCreationLoses
  <2>3. CASE BeginDeletion(p)
    BY <2>3, BeginDeletionLoses
  <2>4. CASE CreateCall(p)
    BY <2>4, CreateLoses
  <2>5. CASE SetCall(p) \/ DropCall(p) \/ RemoveCall(p)
    BY <2>5, ChangeLoses
  <2>6. CASE DescribeCall(p) \/ ImageCall(p)
    BY <2>6, LookLoses
  <2>7. CASE \/ CreateCallRefused(p) \/ SetCallRefused(p) \/ DropCallRefused(p)
             \/ RemoveCallRefused(p) \/ DescribeCallRefused(p)
    <3>1. CallFails(p)
      BY <2>7 DEF CreateCallRefused, SetCallRefused, DropCallRefused, RemoveCallRefused,
                  DescribeCallRefused
    <3> QED BY <2>7, <3>1, RefusedLoses
  <2>8. CASE Truncate(p)
    BY <2>8, TruncateLoses
  <2>9. CASE Write(p) \/ DeleteState(p)
    BY <2>9, WriteLoses
  <2> QED BY <1>2, <1>4, <2>1, <2>2, <2>3, <2>4, <2>5, <2>6, <2>7, <2>8, <2>9 DEF Proc
<1>5. ASSUME NEW p \in Processes, NEW cmd \in {"apply", "delete"}, Begin(p, cmd)
      PROVE  Quiet'
  BY <1>5, BeginLoses
<1>6. ASSUME NEW i \in Ids, ShutDown(i)
      PROVE  Quiet'
  <2>1. /\ UNCHANGED <<manifest, files, procs>> /\ cloud[i].status = "deleting"
        /\ cloud' = [cloud EXCEPT ![i].status = "gone"]
    BY <1>6 DEF ShutDown
  <2>2. /\ cloud'[i].status = "gone" /\ cloud'[i].doc = cloud[i].doc /\ cloud'[i].parts = cloud[i].parts
        /\ \A j \in Ids \ {i} : cloud'[j] = cloud[j]
    BY <1>1, <2>1 DEF CloudOK
  <2>3. Live' = Live /\ \A j \in Ids : cloud'[j].doc = cloud[j].doc /\ cloud'[j].parts = cloud[j].parts
    BY <2>1, <2>2 DEF Live
  <2> QED BY <2>1, <2>3, NothingDone
<1> QED BY <1>2, <1>3, <1>4, <1>5, <1>6 DEF Next

LEMMA CarefulForever ==
  ASSUME NInv, [Next]_vars
  PROVE  NInv'
<1>1. IInv' /\ Placed' /\ Blank'
  BY Inductive, PlacedStays, BlankStays DEF NInv
<1>2. ASSUME faults' = 0, ~met'
      PROVE  NothingLost' /\ \A p \in Processes : Careful(p)'
  <2>1. Calm
    BY <1>2, WhoTroubles DEF Calm, NInv, IInv
  <2> QED BY <1>2, <2>1, QuietStays DEF Quiet
<1> QED BY <1>1, <1>2 DEF NInv

(* As long as nothing goes wrong and one command runs at a time, nothing   *)
(* that the engine has made is ever out of both the state files and the    *)
(* hands of the process that made it: no call of a creation is refused     *)
(* that would make it give up, and none of a deletion that AWS still minds.*)
THEOREM NothingIsLost == Spec => []NothingLost
<1>1. NInv => NothingLost
  BY DEF NInv, NothingLost
<1>2. NInv /\ [Next]_vars => NInv'
  BY CarefulForever
<1> QED BY <1>1, <1>2, QuietAtFirst, PTL DEF Spec
=============================================================================
