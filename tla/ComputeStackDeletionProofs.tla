--------------------- MODULE ComputeStackDeletionProofs ---------------------
(* More proofs about ComputeStack, for every set of Configs, every account *)
(* and every MaxFaults: what the status of an object that is not being     *)
(* deleted records is alive, nothing is deleted unasked, and of what the   *)
(* user owned beforehand nothing ever but what the sweeps find; and that   *)
(* the controller keeps the promise that Lifecycle states.                 *)
EXTENDS ComputeStackProofs

Gone == {"deleting", "deleted"}

(* No resource begins to go.                                               *)
DeletesNothing ==
  \A i \in Ids : cloud'[i].state \in Gone => cloud[i].state \in Gone

LEMMA SameDeletesNothing == ASSUME UNCHANGED cloud PROVE DeletesNothing
BY DEF DeletesNothing

LEMMA CreatedDeletesNothing ==
  ASSUME IInv, NEW kind, NEW state, NEW slot, NEW tagged, NEW uses,
         state \notin Gone, cloud' = Created(kind, state, slot, tagged, uses)
  PROVE  DeletesNothing
<1> SUFFICES ASSUME NEW i \in Ids PROVE cloud'[i].state \in Gone => cloud[i].state \in Gone
  BY DEF DeletesNothing
<1>1. cloud'[i].state = state \/ cloud'[i] = cloud[i]
  BY DEF Created, IInv, TypeOK
<1> QED BY <1>1

LEMMA LinkedDeletesNothing ==
  ASSUME IInv, NEW j, NEW S,
         \/ cloud' = Associated(j, S)
         \/ cloud' = [cloud EXCEPT ![j].uses = S]
  PROVE  DeletesNothing
<1> SUFFICES ASSUME NEW i \in Ids PROVE cloud'[i].state = cloud[i].state
  BY DEF DeletesNothing
<1>1. cloud[i] \in Resource
  BY DEF IInv, TypeOK
<1> QED BY <1>1 DEF Associated, IInv, TypeOK, Resource

-----------------------------------------------------------------------------
(* Creation deletes nothing.                                               *)

(* What creation does to EC2: nothing, or one resource is created, or one  *)
(* is linked to others.                                                    *)
Creates ==
  /\ Unused # {}
  /\ \E kind, state, n, tagged, uses :
       state \in {"pending", "available"} /\ cloud' = Created(kind, state, n, tagged, uses)

Links ==
  \E S : cloud' = Associated(made, S) \/ cloud' = [cloud EXCEPT ![made].uses = S]

LEMMA CreateStepEffect == ASSUME CreateStep PROVE UNCHANGED cloud \/ Creates \/ Links
<1>1. CASE \/ UseExistingVpc \/ ModifyVpc \/ CheckVPCReady \/ UseExistingIgw
           \/ UseExistingSubnets \/ RecordSubnet \/ SubnetsCreated \/ CheckSubnetsReady
           \/ UseExistingNats \/ NoPublicSubnetPanic \/ NatsCreated
           \/ CheckNATGatewaysReady \/ UseExistingRouteTables \/ RouteTablesCreated
           \/ UseExistingSecurityGroups \/ AuthorizeIngress \/ SecurityGroupsCreated
           \/ PrepareBastion \/ StoreKey \/ CheckBastionReady
           \/ QuotaExceeded \/ CreateCallFails
  BY <1>1
  DEF UseExistingVpc, ModifyVpc, CheckVPCReady, Wait, UseExistingIgw, UseExistingSubnets,
      RecordSubnet, SubnetsCreated, CheckSubnetsReady, UseExistingNats,
      NoPublicSubnetPanic, NatsCreated, CheckNATGatewaysReady, UseExistingRouteTables,
      RouteTablesCreated, UseExistingSecurityGroups, AuthorizeIngress,
      SecurityGroupsCreated, PrepareBastion, StoreKey, CheckBastionReady, QuotaExceeded,
      CreateCallFails
<1>2. CASE \/ CreateVpc \/ CreateInternetGateway \/ AllocateAddress \/ CreateNatGateway
           \/ CreateRouteTable \/ RunInstance
  <2>1. /\ Unused # {}
        /\ \E kind, tagged, uses : \/ cloud' = Created(kind, "pending", 0, tagged, uses)
                                   \/ cloud' = Created(kind, "available", 0, tagged, uses)
    BY <1>2
    DEF CreateVpc, CreateInternetGateway, AllocateAddress, CreateNatGateway,
        CreateRouteTable, RunInstance, Create
  <2> QED BY <2>1 DEF Creates
<1>3. CASE CreateSubnet
  <2> DEFINE slot == IF MissingPub THEN Cardinality(work.pub) + 1
                     ELSE WantedPub + Cardinality(work.priv) + 1
  <2>1. \/ UNCHANGED cloud
        \/ Unused # {} /\ cloud' = Created("subnet", "pending", slot, TRUE, {work.vpc})
    BY <1>3 DEF CreateSubnet, Create
  <2> HIDE DEF slot
  <2>2. \/ UNCHANGED cloud
        \/ Unused # {} /\ \E n, tagged, uses : cloud' = Created("subnet", "pending", n, tagged, uses)
    BY <2>1
  <2> QED BY <2>2 DEF Creates
<1>4. CASE CreateSecurityGroup
  <2> DEFINE slot == Cardinality(work.sgs) + 1
  <2>1. \/ UNCHANGED cloud
        \/ Unused # {} /\ cloud' = Created("sg", "available", slot, TRUE, {work.vpc})
    BY <1>4 DEF CreateSecurityGroup, Create
  <2> HIDE DEF slot
  <2>2. \/ UNCHANGED cloud
        \/ Unused # {} /\ \E n, tagged, uses : cloud' = Created("sg", "available", n, tagged, uses)
    BY <2>1
  <2> QED BY <2>2 DEF Creates
<1>5. CASE CreateBastionSecurityGroup
  <2>1. \/ UNCHANGED cloud
        \/ Unused # {} /\ cloud' = Created("sg", "available", 0, TRUE, {work.vpc})
    BY <1>5 DEF CreateBastionSecurityGroup
  <2>2. \/ UNCHANGED cloud
        \/ Unused # {} /\ \E n, tagged, uses : cloud' = Created("sg", "available", n, tagged, uses)
    BY <2>1
  <2> QED BY <2>2 DEF Creates
<1>6. CASE AttachInternetGateway \/ RecordRouteTable \/ RouteTableFails
  BY <1>6 DEF AttachInternetGateway, RecordRouteTable, RouteTableFails, Links
<1> QED BY <1>1, <1>2, <1>3, <1>4, <1>5, <1>6 DEF CreateStep

LEMMA CreateStepDeletesNothing == ASSUME IInv, CreateStep PROVE DeletesNothing
<1>1. CASE Creates
  BY <1>1, CreatedDeletesNothing DEF Creates, Gone
<1>2. CASE Links
  BY <1>2, LinkedDeletesNothing DEF Links
<1> QED BY <1>1, <1>2, CreateStepEffect, SameDeletesNothing

(* What EC2 settles by itself either comes up or was going already.        *)
LEMMA CloudStepDeletesNothing == ASSUME IInv, CloudStep PROVE DeletesNothing
<1>1. PICK j \in Ids : Settle(j) \/ NatFails(j)
  BY DEF CloudStep
<1>2. PICK state : /\ cloud' = InState(j, state)
                   /\ state \in Gone => cloud[j].state \in Gone
  BY <1>1 DEF Settle, NatFails, Gone
<1> SUFFICES ASSUME NEW i \in Ids PROVE cloud'[i].state \in Gone => cloud[i].state \in Gone
  BY DEF DeletesNothing
<1>3. cloud[i] \in Resource
  BY DEF IInv, TypeOK
<1> QED BY <1>2, <1>3 DEF InState, IInv, TypeOK, Resource

(* A step of the deletion is one of an object whose deletion was asked for.*)
LEMMA DeleteStepIsAsked ==
  ASSUME IInv, DeleteStep
  PROVE  pc \in DeletingPcs /\ (stack.exists => stack.deleting)
<1>1. pc \in DeletingPcs
  BY DEF DeleteStep, RetainResources, DeleteBastion, TerminateOrphan, DeleteKeyPair,
         DeleteBastionSG, DeleteRouteTable, DeleteNat, DeleteSubnet, DeleteIgw,
         DeleteSecurityGroup, DeleteOrphanRt, DeleteVpc, RemoveFinalizer, DeleteCallFails,
         DeletingPcs, DeletePhases
<1>2. pc # "idle" /\ work.deleting
  BY <1>1 DEF DeletingPcs, DeletePhases, IInv, InFlight
<1> QED BY <1>1, <1>2 DEF IInv, InFlight

(* The other steps leave EC2 alone.                                        *)
LEMMA OthersDeleteNothing ==
  ASSUME IInv, [Next]_vars, ~DeleteStep PROVE DeletesNothing
<1>1. CASE \/ Begin \/ Resync \/ AddFinalizer \/ WriteStatus \/ WriteLost
           \/ RequestDelete \/ SyncCache \/ Crash \/ UNCHANGED vars
  <2>1. UNCHANGED cloud
    BY <1>1 DEF Begin, Resync, AddFinalizer, WriteStatus, WriteLost, RequestDelete,
                SyncCache, Crash, vars
  <2> QED BY <2>1, SameDeletesNothing
<1> QED BY <1>1, CreateStepDeletesNothing, CloudStepDeletesNothing DEF Next, Reconcile

-----------------------------------------------------------------------------
(* Untouched is preserved.                                                 *)

(* A step of the creation leads to no step of the deletion.                *)
LEMMA CreationGoesOn ==
  ASSUME CreateStep
  PROVE  pc' \in CreatingPcs \cup {"idle", "write"}
<1>1. pc' = pc \/ pc' \in {"idle", "write", "StoreKey", "RunInstance"}
  BY DEF CreateStep, Save, Abort, Goto, Return, Wait, UseExistingVpc, CreateVpc, ModifyVpc,
         CheckVPCReady, UseExistingIgw, CreateInternetGateway, AttachInternetGateway,
         UseExistingSubnets, CreateSubnet, RecordSubnet, SubnetsCreated, CheckSubnetsReady,
         UseExistingNats, AllocateAddress, NoPublicSubnetPanic, CreateNatGateway,
         NatsCreated, CheckNATGatewaysReady, UseExistingRouteTables, CreateRouteTable,
         RecordRouteTable, RouteTableFails, RouteTablesCreated, UseExistingSecurityGroups,
         CreateSecurityGroup, AuthorizeIngress, SecurityGroupsCreated,
         CreateBastionSecurityGroup, PrepareBastion, StoreKey, RunInstance,
         CheckBastionReady, QuotaExceeded, CreateCallFails
<1>2. pc \in CreatingPcs
  BY DEF CreateStep, CreatingPcs, CreationPhases, UseExistingVpc, CreateVpc, ModifyVpc,
         CheckVPCReady, UseExistingIgw, CreateInternetGateway, AttachInternetGateway,
         UseExistingSubnets, CreateSubnet, RecordSubnet, SubnetsCreated, CheckSubnetsReady,
         UseExistingNats, AllocateAddress, NoPublicSubnetPanic, CreateNatGateway,
         NatsCreated, CheckNATGatewaysReady, UseExistingRouteTables, CreateRouteTable,
         RecordRouteTable, RouteTableFails, RouteTablesCreated, UseExistingSecurityGroups,
         CreateSecurityGroup, AuthorizeIngress, SecurityGroupsCreated,
         CreateBastionSecurityGroup, PrepareBastion, StoreKey, RunInstance,
         CheckBastionReady, QuotaExceeded, CreateCallFails
<1> QED BY <1>1, <1>2 DEF CreatingPcs

LEMMA RetainStaysOut ==
  ASSUME IInv, Untouched, [Next]_vars
  PROVE  (pc \in DeletePhases \ {"delete"} => ~config.retain)'
<1> SUFFICES ASSUME pc' \in DeletePhases \ {"delete"} PROVE ~config'.retain
  OBVIOUS
<1>0. pc' \notin {"idle", "write", "delete", "addFinalizer", "removeFinalizer", "StoreKey",
                  "RunInstance"} \cup CreationPhases
  BY DEF DeletePhases, CreationPhases
<1>1. CASE DeleteKeyPair
  BY <1>1 DEF DeleteKeyPair, kube
<1>2. CASE DeleteStep /\ ~DeleteKeyPair
  BY <1>0, <1>2
  DEF DeleteStep, RetainResources, DeleteBastion, TerminateOrphan, DeleteBastionSG,
      DeleteRouteTable, DeleteNat, DeleteSubnet, DeleteIgw, DeleteSecurityGroup,
      DeleteOrphanRt, DeleteVpc, RemoveFinalizer, DeleteCallFails, DeleteOrWait, Retry,
      Save, Return
<1>3. CASE CreateStep
  BY <1>0, <1>3, CreationGoesOn DEF CreatingPcs
<1>4. CASE Begin \/ AddFinalizer
  <2>1. \A o : Resume(o) => pc' = "write" \/ pc' \in CreationPhases \cup {"Ready", "Failed"}
    BY DEF Resume, DetermineCurrentPhase, CreationPhases
  <2>2. pc' \notin {"Ready", "Failed"}
    BY DEF DeletePhases
  <2>3. pc' \in {"write", "delete", "addFinalizer", "Ready", "Failed"} \cup CreationPhases
    BY <1>4, <2>1 DEF Begin, AddFinalizer
  <2> QED BY <1>0, <2>2, <2>3
<1>5. CASE WriteStatus \/ WriteLost \/ Crash
  BY <1>0, <1>5 DEF WriteStatus, WriteLost, Crash, Return
<1>6. CASE Resync \/ RequestDelete \/ SyncCache \/ CloudStep \/ UNCHANGED vars
  <2>1. UNCHANGED <<pc, config>>
    BY <1>6 DEF Resync, RequestDelete, SyncCache, CloudStep, vars, kube
  <2> QED BY <2>1 DEF Untouched
<1> QED BY <1>1, <1>2, <1>3, <1>4, <1>5, <1>6 DEF Next, Reconcile

(* An object that stands has stood before.                                 *)
LEMMA StandingBefore ==
  ASSUME IInv, [Next]_vars, stack'.exists, ~stack'.deleting
  PROVE  stack.exists /\ ~stack.deleting
<1>1. CASE AddFinalizer
  <2>1. stack' = [work EXCEPT !.finalizer = TRUE] /\ workFresh /\ pc = "addFinalizer"
    BY <1>1 DEF AddFinalizer
  <2>2. stack'.deleting = work.deleting
    BY <2>1, WorkFacts DEF Object
  <2> QED BY <2>1, <2>2 DEF IInv, InFlight
<1>2. CASE WriteStatus
  BY <1>2 DEF WriteStatus, IInv, InFlight
<1>3. CASE RemoveFinalizer
  BY <1>3 DEF RemoveFinalizer, NoObject
<1>4. CASE RequestDelete
  <2>1. stack \in Object
    BY CopiesFacts
  <2> QED BY <1>4, <2>1 DEF RequestDelete, NoObject, Object
<1>5. CASE UNCHANGED stack
  BY <1>5
<1> QED BY <1>1, <1>2, <1>3, <1>4, <1>5, ObjectSteps

LEMMA UntouchedStays ==
  ASSUME IInv, Untouched, [Next]_vars PROVE Untouched'
<1>1. stack'.exists /\ ~stack'.deleting => stack.exists /\ ~stack.deleting
  BY StandingBefore
<1>2. stack'.exists /\ ~stack'.deleting =>
        \A i \in Ids : cloud'[i].state \notin {"deleting", "deleted"}
  <2> SUFFICES ASSUME stack'.exists, ~stack'.deleting, NEW i \in Ids
               PROVE  cloud'[i].state \notin Gone
    BY DEF Gone
  <2>1. stack.exists /\ ~stack.deleting
    BY <1>1
  <2>2. DeletesNothing
    BY <2>1, DeleteStepIsAsked, OthersDeleteNothing
  <2> QED BY <2>1, <2>2 DEF DeletesNothing, Untouched, Gone
<1>3. ~stack'.exists => Recorded(stack') = {}
  <2>1. CASE AddFinalizer
    <3>1. stack' = [work EXCEPT !.finalizer = TRUE] /\ work.exists
      BY <2>1 DEF AddFinalizer, IInv, InFlight
    <3> QED BY <3>1, WorkFacts DEF Object
  <2>2. CASE WriteStatus
    BY <2>2 DEF WriteStatus, IInv, InFlight
  <2>3. CASE RemoveFinalizer
    BY <2>3, NoObjectFacts DEF RemoveFinalizer
  <2>4. CASE RequestDelete
    <3>1. stack.exists /\ stack \in Object
      BY <2>4, CopiesFacts DEF RequestDelete
    <3>2. stack' = NoObject \/ stack'.exists
      BY <2>4, <3>1 DEF RequestDelete, Object
    <3> QED BY <3>2, NoObjectFacts
  <2>5. CASE UNCHANGED stack
    BY <2>5 DEF Untouched
  <2> QED BY <2>1, <2>2, <2>3, <2>4, <2>5, ObjectSteps
<1> QED BY <1>2, <1>3, RetainStaysOut DEF Untouched

LEMMA UntouchedAtFirst == Init => Untouched
<1> SUFFICES ASSUME Init PROVE Untouched
  OBVIOUS
<1>1. /\ stack = [NoObject EXCEPT !.exists = TRUE] /\ pc = "idle"
      /\ cloud = [i \in Ids |-> IF i \in Foreign THEN Preexisting[i] ELSE Unborn]
  BY DEF Init, CloudInit
<1>2. stack.exists
  BY <1>1 DEF NoObject
<1>3. \A i \in Ids : cloud[i].state \in {"available", "none"}
  BY <1>1, PreexistingAssumption DEF Foreign, Unborn
<1> QED BY <1>1, <1>2, <1>3 DEF Untouched, DeletePhases

LEMMA AlwaysUntouched == Spec => []Untouched
<1>1. IInv /\ Untouched /\ [Next]_vars => Untouched'
  BY UntouchedStays
<1> QED BY <1>1, UntouchedAtFirst, Invariant, PTL DEF Spec

-----------------------------------------------------------------------------
(* The theorems.                                                           *)

(* What the status records is alive in EC2 until the user asks for the     *)
(* deletion: no lost or stale write, retry or crash leaves an id in it     *)
(* that EC2 no longer knows.                                               *)
THEOREM RecordedLives == Spec => []RecordedIsLive
<1>1. IInv /\ Untouched => RecordedIsLive
  <2> SUFFICES ASSUME IInv, Untouched, ~stack.deleting, NEW i \in Recorded(stack)
               PROVE  Live(i)
    BY DEF RecordedIsLive
  <2>1. stack.exists
    BY DEF Untouched
  <2>2. i \in Ids /\ cloud[i].kind # "none" /\ cloud[i] \in Resource
    BY RecordedIds DEF IInv, TypeOK, NamesAreBorn, Born
  <2>3. cloud[i].state \notin {"none", "deleting", "deleted"} /\ cloud[i].state \in States
    BY <2>1, <2>2 DEF Untouched, IInv, CloudSane, Resource
  <2> QED BY <2>3 DEF Live, LiveStates, States
<1> QED BY <1>1, Invariant, AlwaysUntouched, PTL

LEMMA UnaskedDeletesNothing ==
  ASSUME IInv, Untouched, [Next]_vars, NEW i \in Ids,
         cloud[i].state \in Standing, cloud'[i].state \in Gone
  PROVE  (stack.deleting \/ ~stack.exists) /\ ~config.retain
<1>1. ~DeletesNothing
  BY DEF DeletesNothing, Standing, Gone
<1>2. DeleteStep
  BY <1>1, OthersDeleteNothing
<1>3. cloud' # cloud
  BY DEF Standing, Gone
<1>4. pc \in DeletingPcs /\ (stack.deleting \/ ~stack.exists)
  BY <1>2, DeleteStepIsAsked
<1>5. pc = "delete" => ~config.retain
  BY <1>2, <1>3
  DEF DeleteStep, RetainResources, DeleteBastion, TerminateOrphan, DeleteKeyPair,
      DeleteBastionSG, DeleteRouteTable, DeleteNat, DeleteSubnet, DeleteIgw,
      DeleteSecurityGroup, DeleteOrphanRt, DeleteVpc, RemoveFinalizer, DeleteCallFails, Retry
<1>6. pc # "removeFinalizer"
  BY <1>2, <1>3
  DEF DeleteStep, RetainResources, DeleteBastion, TerminateOrphan, DeleteKeyPair,
      DeleteBastionSG, DeleteRouteTable, DeleteNat, DeleteSubnet, DeleteIgw,
      DeleteSecurityGroup, DeleteOrphanRt, DeleteVpc, RemoveFinalizer, DeleteCallFails,
      DeletePhases
<1> QED BY <1>4, <1>5, <1>6 DEF Untouched, DeletingPcs

(* Nothing is deleted in EC2 before the user has asked for the deletion of *)
(* the object, by a stale reconcile or otherwise; and never under Retain.  *)
THEOREM NothingDeletedUnasked == Spec => DeletionIsAsked
<1>1. IInv /\ Untouched /\ [Next]_vars =>
        [\A i \in Ids :
           cloud[i].state \in Standing /\ cloud'[i].state \in {"deleting", "deleted"}
           => (stack.deleting \/ ~stack.exists) /\ ~config.retain]_vars
  BY UnaskedDeletesNothing DEF Gone
<1> QED BY <1>1, Invariant, AlwaysUntouched, PTL DEF Spec, DeletionIsAsked

-----------------------------------------------------------------------------
(* What the user owns beforehand is spared.                                *)

(* What is swept up is so on demand, and stays what and where it was.      *)
SweptUp(i) ==
  /\ i \in Swept
  /\ ~Unswept
  /\ cloud'[i].kind = cloud[i].kind /\ cloud'[i].tagged = cloud[i].tagged
  /\ cloud'[i].uses = cloud[i].uses /\ cloud'[i].assoc \subseteq cloud[i].assoc
  /\ cloud'[i].state \in Gone

(* A call that leaves alone what the user owns but for that, and puts      *)
(* nothing new behind an address of the user's.                            *)
Spares ==
  /\ \A i \in Foreign : cloud'[i] = cloud[i] \/ SweptUp(i)
  /\ \A i \in Ids \ Foreign : \A e \in cloud'[i].uses \cap Foreign :
       e \in cloud[i].uses \/ Preexisting[e].kind # "eip"

LEMMA SparesKeeps ==
  ASSUME Apart, Spares, UNCHANGED config, Unswept' => Unswept
  PROVE  AsFound' /\ OwnAddresses'
<1>1. Swept' = Swept
  BY DEF Swept
<1>2. ASSUME NEW i \in Foreign
      PROVE  /\ i \notin Swept \/ Unswept' => cloud'[i] = Preexisting[i]
             /\ SameKind(i)'
  <2>1. CASE cloud'[i] = cloud[i]
    BY <2>1, <1>2 DEF Apart, AsFound, SameKind
  <2>2. CASE SweptUp(i)
    BY <2>2, <1>2 DEF SweptUp, Apart, AsFound, SameKind, Gone
  <2> QED BY <2>1, <2>2, <1>2 DEF Spares
<1>3. AsFound'
  BY <1>1, <1>2 DEF AsFound
<1> QED BY <1>3 DEF Apart, Spares, OwnAddresses

(* No step brings back what could not be swept up.                         *)
LEMMA UnsweptBefore ==
  ASSUME IInv, [Next]_vars, UNCHANGED config PROVE Unswept' => Unswept
BY StandingBefore DEF Unswept

LEMMA SameSpares == ASSUME UNCHANGED cloud PROVE Spares
BY DEF Spares

LEMMA NewIdIsOwn == ASSUME Apart, Unused # {} PROVE NewId \in Ids \ Foreign
<1>1. NewId \in Ids /\ cloud[NewId].kind = "none"
  BY NewIdIsUnused
<1>2. \A i \in Foreign : cloud[i].kind # "none"
  BY PreexistingAssumption DEF Apart, AsFound, SameKind, Foreign
<1> QED BY <1>1, <1>2

(* What is created is put into VPCs, subnets and groups, and behind an     *)
(* address of its own.                                                     *)
LEMMA CreatedSpares ==
  ASSUME IInv, Apart, Unused # {}, NEW kind, NEW state, NEW slot, NEW tagged, NEW uses,
         \A e \in uses \cap Foreign : Preexisting[e].kind # "eip",
         cloud' = Created(kind, state, slot, tagged, uses)
  PROVE  Spares
<1>1. PICK n \in Ids \ Foreign : n = NewId
  BY NewIdIsOwn
<1>2. PICK r : r = [kind |-> kind, state |-> state, slot |-> slot, tagged |-> tagged,
                    uses |-> uses, assoc |-> {}]
  OBVIOUS
<1>3. cloud' = [cloud EXCEPT ![n] = r] /\ r.uses = uses
  BY <1>1, <1>2 DEF Created
<1>4. \A i \in Ids : cloud'[i] = IF i = n THEN r ELSE cloud[i]
  BY <1>3 DEF IInv, TypeOK
<1>5. \A i \in Foreign : cloud'[i] = cloud[i]
  BY <1>1, <1>4, IdsFacts
<1> QED BY <1>3, <1>4, <1>5 DEF Spares

(* A call on one resource that is not the user's, which takes nothing more *)
(* into use.                                                               *)
LEMMA TouchedSpares ==
  ASSUME IInv, NEW j \in Ids \ Foreign, NEW r, cloud' = [cloud EXCEPT ![j] = r],
         \A e \in r.uses \cap Foreign : e \in cloud[j].uses \/ Preexisting[e].kind # "eip"
  PROVE  Spares
<1>1. \A i \in Ids : cloud'[i] = IF i = j THEN r ELSE cloud[i]
  BY DEF IInv, TypeOK
<1> QED BY <1>1, IdsFacts DEF Spares

LEMMA ChangesSpare ==
  ASSUME IInv, NEW j \in Ids \ Foreign, NEW S,
         \/ \E state : cloud' = InState(j, state)
         \/ cloud' = Associated(j, S)
         \/ cloud' = TableDeleted(j)
         \/ cloud' = GatewayDeleted(j)
         \/ cloud' = [cloud EXCEPT ![j].uses = {}]
  PROVE  Spares
<1>1. PICK old \in Resource : old = cloud[j]
  BY DEF IInv, TypeOK
<1>2. CASE \E state : cloud' = InState(j, state)
  <2>1. PICK state : cloud' = InState(j, state)
    BY <1>2
  <2>2. PICK r : r = [old EXCEPT !.state = state]
    OBVIOUS
  <2>3. cloud' = [cloud EXCEPT ![j] = r] /\ r.uses = cloud[j].uses
    BY <1>1, <2>1, <2>2 DEF InState, Resource
  <2> QED BY <2>3, TouchedSpares
<1>3. CASE cloud' = Associated(j, S)
  <2>1. PICK r : r = [old EXCEPT !.assoc = @ \cup S]
    OBVIOUS
  <2>2. cloud' = [cloud EXCEPT ![j] = r] /\ r.uses = cloud[j].uses
    BY <1>1, <1>3, <2>1 DEF Associated, Resource
  <2> QED BY <2>2, TouchedSpares
<1>4. CASE cloud' = TableDeleted(j)
  <2>1. PICK r : r = [old EXCEPT !.state = "deleted", !.assoc = {}]
    OBVIOUS
  <2>2. cloud' = [cloud EXCEPT ![j] = r] /\ r.uses = cloud[j].uses
    BY <1>1, <1>4, <2>1 DEF TableDeleted, Resource
  <2> QED BY <2>2, TouchedSpares
<1>5. CASE cloud' = GatewayDeleted(j)
  <2>1. PICK r : r = [old EXCEPT !.state = "deleted", !.uses = {}]
    OBVIOUS
  <2>2. cloud' = [cloud EXCEPT ![j] = r] /\ r.uses = {}
    BY <1>1, <1>5, <2>1 DEF GatewayDeleted, Resource
  <2> QED BY <2>2, TouchedSpares
<1>6. CASE cloud' = [cloud EXCEPT ![j].uses = {}]
  <2>1. PICK r : r = [old EXCEPT !.uses = {}]
    OBVIOUS
  <2>2. cloud' = [cloud EXCEPT ![j] = r] /\ r.uses = {}
    BY <1>1, <1>6, <2>1 DEF Resource
  <2> QED BY <2>2, TouchedSpares
<1> QED BY <1>2, <1>3, <1>4, <1>5, <1>6

(* The VPC and the subnets of a copy are no addresses of the user's.       *)
LEMMA NamedAreNoAddresses ==
  ASSUME IInv, Apart
  PROVE  /\ work.vpc \in Foreign => Preexisting[work.vpc].kind # "eip"
         /\ \A i \in work.pub \cap Foreign : Preexisting[i].kind # "eip"
<1>1. config \in Configs /\ config \in ConfigType
  BY ConfigCounts DEF IInv, TypeOK
<1>2. work.vpc \in Foreign => work.vpc = config.exVpc /\ work.vpc # NoId
  BY IdsFacts DEF Apart, OnlyNamed
<1>3. \A i \in work.pub \cap Foreign : i \in config.exPub \cup config.exPriv
  BY DEF Apart, OnlyNamed, ExistingSubnets
<1> QED BY <1>1, <1>2, <1>3, ExistingAssumption

-----------------------------------------------------------------------------
(* What a step inside a reconcile has to show.                             *)

LEMMA StepApart ==
  ASSUME IInv, Apart, UNCHANGED kube, Spares, OnlyNamed(work'), made' \notin Foreign, HandsOff'
  PROVE  Apart'
<1>1. OnlyNamed(stack)' /\ OnlyNamed(cache)' /\ OnlyNamed(work)'
  BY DEF Apart, OnlyNamed, ExistingSubnets, kube
<1>2. UNCHANGED config /\ (Unswept' => Unswept)
  BY DEF kube, Unswept
<1> QED BY <1>1, <1>2, SparesKeeps DEF Apart

(* The copy of the object keeps what it had, takes what the spec names,    *)
(* takes what is not the user's, or lets go.                               *)
LEMMA NamesMore ==
  ASSUME OnlyNamed(work), NEW o,
         o.vpc \in Foreign => o.vpc \in {work.vpc, config.exVpc},
         o.igw \in Foreign => o.igw \in {work.igw, config.exIgw},
         (o.pub \cup o.priv) \cap Foreign \subseteq work.pub \cup work.priv \cup ExistingSubnets,
         o.nats \cap Foreign \subseteq work.nats \cup config.exNats,
         o.rts \cap Foreign \subseteq work.rts \cup config.exRts,
         o.sgs \cap Foreign \subseteq work.sgs \cup config.exSgs,
         o.bsg \in Foreign => o.bsg = work.bsg,
         o.bastion \in Foreign => o.bastion = work.bastion
  PROVE  OnlyNamed(o)
BY DEF OnlyNamed

-----------------------------------------------------------------------------
(* Creation.                                                               *)

LEMMA MadeIsOwn == ASSUME IInv, Apart, CreateStep PROVE made' \notin Foreign
<1>1. made' = made \/ made' = NoId \/ (Unused # {} /\ made' = NewId)
  BY DEF CreateStep, Save, Abort, Goto, Return, Wait, Create, UseExistingVpc, CreateVpc,
         ModifyVpc, CheckVPCReady, UseExistingIgw, CreateInternetGateway,
         AttachInternetGateway, UseExistingSubnets, CreateSubnet, RecordSubnet,
         SubnetsCreated, CheckSubnetsReady, UseExistingNats, AllocateAddress,
         NoPublicSubnetPanic, CreateNatGateway, NatsCreated, CheckNATGatewaysReady,
         UseExistingRouteTables, CreateRouteTable, RecordRouteTable, RouteTableFails,
         RouteTablesCreated, UseExistingSecurityGroups, CreateSecurityGroup,
         AuthorizeIngress, SecurityGroupsCreated, CreateBastionSecurityGroup,
         PrepareBastion, StoreKey, RunInstance, CheckBastionReady, QuotaExceeded,
         CreateCallFails
<1> QED BY <1>1, NewIdIsOwn, IdsFacts DEF Apart

(* Steps that enter nothing in the copy but a phase and what is available. *)
LEMMA PhaseIsNoName ==
  ASSUME IInv, Apart, UNCHANGED config,
         \/ \E p, r : work' = [work EXCEPT !.phase = p, !.ready = r]
         \/ \E p, r, a : work' = [work EXCEPT !.avail = a, !.phase = p, !.ready = r]
         \/ \E p : work' = [work EXCEPT !.phase = p]
         \/ work' = work
  PROVE  OnlyNamed(work')
<1>1. /\ work'.vpc = work.vpc /\ work'.igw = work.igw /\ work'.pub = work.pub
      /\ work'.priv = work.priv /\ work'.nats = work.nats /\ work'.rts = work.rts
      /\ work'.sgs = work.sgs /\ work'.bsg = work.bsg /\ work'.bastion = work.bastion
  BY WorkFacts DEF Object
<1> QED BY <1>1 DEF Apart, OnlyNamed

LEMMA CallsNameNothing ==
  ASSUME IInv, Apart, UNCHANGED config,
         \/ CreateVpc \/ CheckVPCReady \/ CreateInternetGateway \/ CreateSubnet
         \/ SubnetsCreated \/ CheckSubnetsReady \/ AllocateAddress \/ NatsCreated
         \/ CheckNATGatewaysReady \/ CreateRouteTable \/ RouteTableFails
         \/ RouteTablesCreated \/ CreateSecurityGroup \/ SecurityGroupsCreated
         \/ PrepareBastion \/ StoreKey \/ CheckBastionReady \/ QuotaExceeded
         \/ CreateCallFails
  PROVE  OnlyNamed(work')
<1>1. CASE CreateSubnet
  BY <1>1, PhaseIsNoName DEF CreateSubnet, Abort, Save
<1>2. CASE CreateSecurityGroup
  BY <1>2, PhaseIsNoName DEF CreateSecurityGroup, Abort, Save
<1>3. CASE CheckVPCReady \/ CheckSubnetsReady \/ CheckNATGatewaysReady \/ CheckBastionReady
  BY <1>3, PhaseIsNoName
  DEF CheckVPCReady, CheckSubnetsReady, CheckNATGatewaysReady, CheckBastionReady, Wait, Save
<1>4. CASE RouteTablesCreated \/ SecurityGroupsCreated
  BY <1>4, PhaseIsNoName DEF RouteTablesCreated, SecurityGroupsCreated, Enter, Save
<1>5. CASE \/ CreateVpc \/ CreateInternetGateway \/ SubnetsCreated \/ AllocateAddress
           \/ NatsCreated \/ CreateRouteTable \/ RouteTableFails \/ PrepareBastion
           \/ StoreKey \/ QuotaExceeded \/ CreateCallFails
  BY <1>5, PhaseIsNoName
  DEF CreateVpc, CreateInternetGateway, SubnetsCreated, AllocateAddress, NatsCreated,
      CreateRouteTable, RouteTableFails, PrepareBastion, StoreKey, QuotaExceeded,
      CreateCallFails, Abort, Save
<1> QED BY <1>1, <1>2, <1>3, <1>4, <1>5

(* Steps that enter what the spec names.                                   *)
LEMMA ExistingIsNamed ==
  ASSUME IInv, Apart, UNCHANGED config,
         \/ UseExistingVpc \/ UseExistingIgw \/ UseExistingSubnets \/ UseExistingNats
         \/ UseExistingRouteTables \/ UseExistingSecurityGroups
  PROVE  OnlyNamed(work')
<1>1. OnlyNamed(work)
  BY DEF Apart
<1>2. CASE UseExistingVpc \/ UseExistingIgw
  <2>1. /\ work'.vpc \in {work.vpc, config.exVpc} /\ work'.igw \in {work.igw, config.exIgw}
        /\ work'.pub = work.pub /\ work'.priv = work.priv /\ work'.nats = work.nats
        /\ work'.rts = work.rts /\ work'.sgs = work.sgs /\ work'.bsg = work.bsg
        /\ work'.bastion = work.bastion
    BY <1>2, WorkFacts DEF UseExistingVpc, UseExistingIgw, Save, Object
  <2> QED BY <1>1, <2>1 DEF OnlyNamed
<1>3. CASE UseExistingSubnets
  <2>1. /\ work'.vpc = work.vpc /\ work'.igw = work.igw /\ work'.nats = work.nats
        /\ work'.pub = config.exPub /\ work'.priv = config.exPriv
        /\ work'.rts = work.rts /\ work'.sgs = work.sgs /\ work'.bsg = work.bsg
        /\ work'.bastion = work.bastion
    BY <1>3, WorkFacts DEF UseExistingSubnets, Save, Object
  <2> QED BY <1>1, <2>1 DEF OnlyNamed, ExistingSubnets
<1>4. CASE UseExistingNats
  <2>1. /\ work'.vpc = work.vpc /\ work'.igw = work.igw /\ work'.nats = config.exNats
        /\ work'.pub = work.pub /\ work'.priv = work.priv
        /\ work'.rts = work.rts /\ work'.sgs = work.sgs /\ work'.bsg = work.bsg
        /\ work'.bastion = work.bastion
    BY <1>4, WorkFacts DEF UseExistingNats, Save, Object
  <2> QED BY <1>1, <2>1 DEF OnlyNamed
<1>5. CASE UseExistingRouteTables \/ UseExistingSecurityGroups
  <2>1. /\ work'.vpc = work.vpc /\ work'.igw = work.igw /\ work'.nats = work.nats
        /\ work'.pub = work.pub /\ work'.priv = work.priv
        /\ work'.rts \in {work.rts, config.exRts} /\ work'.sgs \in {work.sgs, config.exSgs}
        /\ work'.bsg = work.bsg /\ work'.bastion = work.bastion
    BY <1>5, WorkFacts DEF UseExistingRouteTables, UseExistingSecurityGroups, Enter, Save, Object
  <2> QED BY <1>1, <2>1 DEF OnlyNamed
<1> QED BY <1>2, <1>3, <1>4, <1>5

(* Steps that enter what they created, or may fail to.                     *)
LEMMA MadeIsNamed ==
  ASSUME IInv, Apart, UNCHANGED config,
         \/ ModifyVpc \/ AttachInternetGateway \/ RecordSubnet \/ CreateNatGateway
         \/ RecordRouteTable \/ AuthorizeIngress \/ CreateBastionSecurityGroup
         \/ RunInstance
  PROVE  OnlyNamed(work')
<1>1. OnlyNamed(work) /\ made \notin Foreign
  BY DEF Apart
<1>2. CASE Abort
  BY <1>2, PhaseIsNoName DEF Abort, Save
<1>3. CASE ~Abort
  <2>1. PICK n : /\ n \notin Foreign
                 /\ \/ \E p : work' = [work EXCEPT !.vpc = n, !.phase = p]
                    \/ \E p : work' = [work EXCEPT !.igw = n, !.phase = p]
                    \/ work' = [work EXCEPT !.pub = @ \cup {n}]
                    \/ work' = [work EXCEPT !.priv = @ \cup {n}]
                    \/ work' = [work EXCEPT !.nats = @ \cup {n}]
                    \/ work' = [work EXCEPT !.rts = @ \cup {n}]
                    \/ work' = [work EXCEPT !.sgs = @ \cup {n}]
                    \/ \E p : work' = [work EXCEPT !.bsg = n, !.phase = p]
                    \/ \E p : work' = [work EXCEPT !.bastion = n, !.phase = p]
                    \/ work' = work
    <3>1. CASE \/ ModifyVpc \/ AttachInternetGateway \/ RecordSubnet \/ RecordRouteTable
               \/ AuthorizeIngress
      BY <1>1, <1>3, <3>1
      DEF ModifyVpc, AttachInternetGateway, RecordSubnet, RecordRouteTable, AuthorizeIngress, Save
    <3>2. CASE CreateNatGateway \/ CreateBastionSecurityGroup \/ RunInstance
      <4>1. Unused # {}
        BY <1>3, <3>2 DEF CreateNatGateway, CreateBastionSecurityGroup, RunInstance
      <4>2. NewId \notin Foreign
        BY <4>1, NewIdIsOwn
      <4> QED BY <1>3, <3>2, <4>2
          DEF CreateNatGateway, CreateBastionSecurityGroup, RunInstance, Save
    <3> QED BY <3>1, <3>2
  <2>2. /\ work'.vpc \in {work.vpc, n} /\ work'.igw \in {work.igw, n}
        /\ work'.pub \subseteq work.pub \cup {n} /\ work'.priv \subseteq work.priv \cup {n}
        /\ work'.nats \subseteq work.nats \cup {n} /\ work'.rts \subseteq work.rts \cup {n}
        /\ work'.sgs \subseteq work.sgs \cup {n} /\ work'.bsg \in {work.bsg, n}
        /\ work'.bastion \in {work.bastion, n}
    BY <2>1, WorkFacts DEF Object
  <2> QED BY <1>1, <2>1, <2>2 DEF OnlyNamed
<1> QED BY <1>2, <1>3

(* What creation does to EC2.                                              *)
LEMMA CreatedInVpcSpares ==
  ASSUME IInv, Apart, Unused # {}, NEW kind, NEW state, NEW slot, NEW tagged,
         \/ cloud' = Created(kind, state, slot, tagged, {})
         \/ cloud' = Created(kind, state, slot, tagged, {work.vpc})
  PROVE  Spares
<1>1. PICK vpc : vpc = work.vpc
  OBVIOUS
<1>2. vpc \in Foreign => Preexisting[vpc].kind # "eip"
  BY <1>1, NamedAreNoAddresses
<1> QED BY <1>1, <1>2, CreatedSpares

LEMMA CreationSpares == ASSUME IInv, Apart, CreateStep PROVE Spares
<1>0. made \notin Foreign /\ (made # NoId => made \in Ids \ Foreign)
  BY DEF Apart, IInv, TypeOK
<1>1. CASE UNCHANGED cloud
  BY <1>1, SameSpares
<1>2. CASE CreateVpc \/ CreateInternetGateway \/ AllocateAddress \/ CreateRouteTable
  BY <1>2, CreatedInVpcSpares
  DEF CreateVpc, CreateInternetGateway, AllocateAddress, CreateRouteTable, Create
<1>3. CASE CreateSubnet /\ cloud' # cloud
  <2>1. PICK slot : slot = IF MissingPub THEN Cardinality(work.pub) + 1
                           ELSE WantedPub + Cardinality(work.priv) + 1
    OBVIOUS
  <2>2. Unused # {} /\ cloud' = Created("subnet", "pending", slot, TRUE, {work.vpc})
    BY <1>3, <2>1 DEF CreateSubnet, Create
  <2> QED BY <2>2, CreatedInVpcSpares
<1>4. CASE CreateSecurityGroup /\ cloud' # cloud
  <2>1. PICK slot : slot = Cardinality(work.sgs) + 1
    OBVIOUS
  <2>2. Unused # {} /\ cloud' = Created("sg", "available", slot, TRUE, {work.vpc})
    BY <1>4, <2>1 DEF CreateSecurityGroup, Create
  <2> QED BY <2>2, CreatedInVpcSpares
<1>5. CASE CreateBastionSecurityGroup /\ cloud' # cloud
  BY <1>5, CreatedInVpcSpares DEF CreateBastionSecurityGroup
<1>6. CASE CreateNatGateway
  <2>1. PICK subnet : subnet = Pick(work.pub \ UNION {cloud[n].uses : n \in work.nats})
    OBVIOUS
  <2>2. subnet \in work.pub
    <3>1. work.pub \ UNION {cloud[n].uses : n \in work.nats} # {}
      BY <1>6 DEF CreateNatGateway
    <3> QED BY <2>1, <3>1, PickIn
  <2>3. PICK uses : uses = {made, subnet, work.vpc}
    OBVIOUS
  <2>4. Unused # {} /\ cloud' = Created("nat", "pending", 0, TRUE, uses)
    BY <1>6, <2>1, <2>3 DEF CreateNatGateway
  <2>5. \A e \in uses \cap Foreign : Preexisting[e].kind # "eip"
    BY <1>0, <2>2, <2>3, NamedAreNoAddresses
  <2> QED BY <2>4, <2>5, CreatedSpares
<1>7. CASE RunInstance
  <2>1. PICK subnet : subnet = Pick(work.pub)
    OBVIOUS
  <2>2. subnet \in work.pub
    BY <1>7, <2>1, PickIn DEF RunInstance, IInv, AtPc, OneToMake
  <2>3. PICK uses : uses = {work.vpc, subnet, work.bsg}
    OBVIOUS
  <2>4. PICK tagged : tagged = ~config.ownName
    OBVIOUS
  <2>5. Unused # {} /\ cloud' = Created("instance", "pending", 0, tagged, uses)
    BY <1>7, <2>1, <2>3, <2>4 DEF RunInstance
  <2>6. \A e \in uses \cap Foreign : Preexisting[e].kind # "eip"
    BY <2>2, <2>3, NamedAreNoAddresses DEF Apart, OnlyNamed
  <2> QED BY <2>5, <2>6, CreatedSpares
<1>8. CASE AttachInternetGateway /\ cloud' # cloud
  <2>1. PICK old \in Resource : old = cloud[made] /\ made \in Ids \ Foreign
    BY <1>0, <1>8 DEF AttachInternetGateway, IInv, TypeOK
  <2>2. PICK r : r = [old EXCEPT !.uses = {work.vpc}]
    OBVIOUS
  <2>3. cloud' = [cloud EXCEPT ![made] = r] /\ r.uses = {work.vpc}
    BY <1>8, <2>1, <2>2 DEF AttachInternetGateway, Resource
  <2>4. \A e \in r.uses \cap Foreign : Preexisting[e].kind # "eip"
    BY <2>3, NamedAreNoAddresses
  <2>5. PICK j : j = made
    OBVIOUS
  <2> QED BY <2>1, <2>3, <2>4, <2>5, TouchedSpares
<1>9. CASE RecordRouteTable \/ RouteTableFails
  <2>1. made # NoId /\ \E S : cloud' = Associated(made, S)
    BY <1>9 DEF RecordRouteTable, RouteTableFails
  <2>2. PICK j \in Ids \ Foreign : j = made
    BY <1>0, <2>1
  <2> QED BY <2>1, <2>2, ChangesSpare
<1>10. CASE \/ UseExistingVpc \/ ModifyVpc \/ CheckVPCReady \/ UseExistingIgw
            \/ UseExistingSubnets \/ RecordSubnet \/ SubnetsCreated \/ CheckSubnetsReady
            \/ UseExistingNats \/ NoPublicSubnetPanic \/ NatsCreated
            \/ CheckNATGatewaysReady \/ UseExistingRouteTables \/ RouteTablesCreated
            \/ UseExistingSecurityGroups \/ AuthorizeIngress \/ SecurityGroupsCreated
            \/ PrepareBastion \/ StoreKey \/ CheckBastionReady
            \/ QuotaExceeded \/ CreateCallFails
  <2>1. UNCHANGED cloud
    BY <1>10
    DEF UseExistingVpc, ModifyVpc, CheckVPCReady, Wait, UseExistingIgw, UseExistingSubnets,
        RecordSubnet, SubnetsCreated, CheckSubnetsReady, UseExistingNats,
        NoPublicSubnetPanic, NatsCreated, CheckNATGatewaysReady, UseExistingRouteTables,
        RouteTablesCreated, UseExistingSecurityGroups, AuthorizeIngress,
        SecurityGroupsCreated, PrepareBastion, StoreKey, CheckBastionReady, QuotaExceeded,
        CreateCallFails
  <2> QED BY <2>1, SameSpares
<1> QED BY <1>1, <1>2, <1>3, <1>4, <1>5, <1>6, <1>7, <1>8, <1>9, <1>10 DEF CreateStep

LEMMA CreateStepApart ==
  ASSUME IInv, Apart, CreateStep, ~NoPublicSubnetPanic PROVE Apart'
<1>1. UNCHANGED kube
  BY DEF CreateStep, Creation, UseExistingVpc, CreateVpc, ModifyVpc, CheckVPCReady, Wait,
         UseExistingIgw, CreateInternetGateway, AttachInternetGateway, UseExistingSubnets,
         CreateSubnet, RecordSubnet, SubnetsCreated, CheckSubnetsReady, UseExistingNats,
         AllocateAddress, CreateNatGateway, NatsCreated, CheckNATGatewaysReady,
         UseExistingRouteTables, CreateRouteTable, RecordRouteTable, RouteTableFails,
         RouteTablesCreated, UseExistingSecurityGroups, CreateSecurityGroup,
         AuthorizeIngress, SecurityGroupsCreated, CreateBastionSecurityGroup,
         PrepareBastion, StoreKey, RunInstance, CheckBastionReady, QuotaExceeded,
         CreateCallFails
<1>2. UNCHANGED config
  BY <1>1 DEF kube
<1>3. OnlyNamed(work')
  BY <1>2, CallsNameNothing, ExistingIsNamed, MadeIsNamed DEF CreateStep
<1>4. HandsOff'
  <2>1. pc' \in CreatingPcs \cup {"idle", "write"}
    BY CreationGoesOn
  <2> QED BY <2>1 DEF HandsOff, CreatingPcs, CreationPhases
<1> QED BY <1>1, <1>3, <1>4, CreationSpares, MadeIsOwn, StepApart

-----------------------------------------------------------------------------
(* Deletion.                                                               *)

(* Of the user's the orphan searches find only what can be swept up, and   *)
(* that only once the deletion is asked for.                               *)
LEMMA TaggedIsSwept ==
  ASSUME IInv, Apart, NEW i \in Foreign, cloud[i].tagged,
         cloud[i].kind \in {"instance", "rt"}, TargetVpc \in cloud[i].uses
  PROVE  i \in Swept
<1>1. SameKind(i)
  BY DEF Apart, AsFound
<1>2. TargetVpc \in Foreign /\ TargetVpc \in Preexisting[i].uses
  BY <1>1, PreexistingAssumption DEF SameKind, Foreign
<1>3. TargetVpc = config.exVpc
  BY <1>2 DEF TargetVpc, Apart, OnlyNamed
<1> QED BY <1>1, <1>2, <1>3 DEF SameKind, Swept

LEMMA SweepIsAsked ==
  ASSUME IInv, Untouched, TerminateOrphan \/ DeleteOrphanRt PROVE ~Unswept
<1>1. pc \in DeletingPcs /\ pc # "idle"
  BY DEF TerminateOrphan, DeleteOrphanRt, DeletingPcs, DeletePhases
<1>2. work.deleting /\ (stack.exists => stack.deleting)
  BY <1>1 DEF IInv, InFlight
<1>3. ~config.retain
  BY DEF TerminateOrphan, DeleteOrphanRt, Untouched, DeletePhases
<1> QED BY <1>2, <1>3 DEF Unswept

LEMMA SweepSpares ==
  ASSUME IInv, Untouched, Apart, TerminateOrphan \/ DeleteOrphanRt,
         NEW i \in Ids, cloud[i].tagged, cloud[i].kind \in {"instance", "rt"},
         TargetVpc \in cloud[i].uses,
         cloud' = InState(i, "deleting") \/ cloud' = TableDeleted(i)
  PROVE  Spares
<1>1. CASE i \in Ids \ Foreign
  <2>1. (\E state : cloud' = InState(i, state)) \/ cloud' = TableDeleted(i)
    OBVIOUS
  <2> QED BY <1>1, <2>1, ChangesSpare
<1>2. CASE i \in Foreign
  <2>1. i \in Swept /\ ~Unswept
    BY <1>2, TaggedIsSwept, SweepIsAsked
  <2>2. PICK old \in Resource : old = cloud[i]
    BY DEF IInv, TypeOK
  <2>3. PICK r : r \in {[old EXCEPT !.state = "deleting"],
                        [old EXCEPT !.state = "deleted", !.assoc = {}]}
                 /\ cloud' = [cloud EXCEPT ![i] = r]
    BY <2>2 DEF InState, TableDeleted
  <2>4. \A j \in Ids : cloud'[j] = IF j = i THEN r ELSE cloud[j]
    BY <2>3 DEF IInv, TypeOK
  <2>5. /\ r.kind = old.kind /\ r.tagged = old.tagged /\ r.uses = old.uses
        /\ r.assoc \subseteq old.assoc /\ r.state \in Gone
    BY <2>2, <2>3 DEF Resource, Gone
  <2>6. SweptUp(i)
    BY <2>1, <2>2, <2>4, <2>5 DEF SweptUp
  <2> QED BY <1>2, <2>4, <2>6, IdsFacts DEF Spares
<1> QED BY <1>1, <1>2

(* The address behind a gateway of the stack's is not the user's.          *)
LEMMA EipIsOwn ==
  ASSUME IInv, Apart, NEW n \in Ids \ Foreign, NEW e \in EipOf(n) PROVE e \in Ids \ Foreign
<1>1. cloud[n] \in Resource
  BY DEF IInv, TypeOK
<1>2. e \in cloud[n].uses /\ cloud[e].kind = "eip" /\ e \in Ids
  BY <1>1 DEF EipOf, Resource
<1> QED BY <1>2 DEF Apart, AsFound, SameKind, OwnAddresses

(* What each deletion step is about to delete is not the user's.           *)
LEMMA DeletedIsOwn ==
  ASSUME IInv, Apart
  PROVE  /\ work.bastion # NoId => work.bastion \in Ids \ Foreign
         /\ pc = "deleteBastionSG" => work.bsg \in Ids \ Foreign
         /\ pc = "deleteRouteTable" => Pick(work.rts) \in Ids \ Foreign
         /\ pc = "deleteNat" => Pick(work.nats) \in Ids \ Foreign
         /\ pc = "deleteSubnet" => /\ work.pub # {} => Pick(work.pub) \in Ids \ Foreign
                                   /\ work.pub = {} => Pick(work.priv) \in Ids \ Foreign
         /\ pc = "deleteIgw" => work.igw \in Ids \ Foreign
         /\ pc = "deleteSecurityGroup" => Pick(work.sgs) \in Ids \ Foreign
         /\ pc = "deleteVpc" => work.vpc \in Ids \ Foreign
<1>1. /\ work.bastion \in Ids \cup {NoId} /\ work.bsg \in Ids \cup {NoId}
      /\ work.igw \in Ids \cup {NoId} /\ work.vpc \in Ids \cup {NoId}
      /\ work.rts \subseteq Ids /\ work.nats \subseteq Ids /\ work.pub \subseteq Ids
      /\ work.priv \subseteq Ids /\ work.sgs \subseteq Ids
  BY WorkFacts DEF Object
<1>2. OnlyNamed(work) /\ HandsOff /\ ToDelete
  BY DEF Apart, IInv, AtPc
<1>3. pc = "deleteRouteTable" => Pick(work.rts) \in work.rts /\ work.rts \cap Foreign = {}
  BY <1>2, PickIn DEF OnlyNamed, HandsOff, ToDelete
<1>4. pc = "deleteNat" => Pick(work.nats) \in work.nats /\ work.nats \cap Foreign = {}
  BY <1>2, PickIn DEF OnlyNamed, HandsOff, ToDelete
<1>5. pc = "deleteSubnet" =>
        /\ (work.pub \cup work.priv) \cap Foreign = {}
        /\ work.pub # {} => Pick(work.pub) \in work.pub
        /\ work.pub = {} => Pick(work.priv) \in work.priv
  BY <1>2, PickIn DEF OnlyNamed, HandsOff, ToDelete
<1>6. pc = "deleteSecurityGroup" => Pick(work.sgs) \in work.sgs /\ work.sgs \cap Foreign = {}
  BY <1>2, PickIn DEF OnlyNamed, HandsOff, ToDelete
<1>7. /\ pc = "deleteIgw" => work.igw \in Ids \ Foreign
      /\ pc = "deleteVpc" => work.vpc \in Ids \ Foreign
      /\ pc = "deleteBastionSG" => work.bsg \in Ids \ Foreign
      /\ work.bastion # NoId => work.bastion \in Ids \ Foreign
  BY <1>1, <1>2, IdsFacts DEF OnlyNamed, HandsOff, ToDelete
<1> QED BY <1>1, <1>3, <1>4, <1>5, <1>6, <1>7

LEMMA DeleteOrWaitSpares ==
  ASSUME IInv, Apart, NEW i \in Ids \ Foreign, \E o : DeleteOrWait(i, o) PROVE Spares
BY SameSpares, ChangesSpare DEF DeleteOrWait, Retry

LEMMA DeleteNatSpares == ASSUME IInv, Apart, DeleteNat PROVE Spares
<1>1. PICK n \in Ids \ Foreign : n = Pick(work.nats)
  BY DeletedIsOwn DEF DeleteNat
<1>2. CASE cloud' = InState(n, "deleting")
  BY <1>2, ChangesSpare
<1>3. CASE UNCHANGED cloud
  BY <1>3, SameSpares
<1>4. CASE cloud' = [i \in Ids |-> IF i \in EipOf(n) THEN [cloud[i] EXCEPT !.state = "deleted"]
                                   ELSE cloud[i]]
  <2>1. \A i \in Foreign : cloud'[i] = cloud[i]
    BY <1>4, EipIsOwn, IdsFacts
  <2>2. ASSUME NEW i \in Ids \ Foreign PROVE cloud'[i].uses = cloud[i].uses
    <3>1. PICK r \in Resource : r = cloud[i]
      BY DEF IInv, TypeOK
    <3>2. cloud'[i] = r \/ cloud'[i] = [r EXCEPT !.state = "deleted"]
      BY <1>4, <3>1
    <3> QED BY <3>1, <3>2 DEF Resource
  <2> QED BY <2>1, <2>2 DEF Spares
<1> QED BY <1>1, <1>2, <1>3, <1>4 DEF DeleteNat

LEMMA DeletionSpares == ASSUME IInv, Untouched, Apart, DeleteStep PROVE Spares
<1>1. CASE RetainResources \/ DeleteKeyPair \/ RemoveFinalizer \/ DeleteCallFails
  BY <1>1, SameSpares DEF RetainResources, DeleteKeyPair, RemoveFinalizer, DeleteCallFails, Retry
<1>2. CASE DeleteBastion
  <2>1. PICK i \in Ids \ Foreign : i = work.bastion
    BY <1>2, DeletedIsOwn DEF DeleteBastion
  <2>2. UNCHANGED cloud \/ cloud' = InState(i, "deleting")
    BY <1>2, <2>1 DEF DeleteBastion
  <2> QED BY <2>2, SameSpares, ChangesSpare
<1>3. CASE TerminateOrphan
  <2>1. Pick(OrphanBastions) \in OrphanBastions
    BY <1>3, PickIn DEF TerminateOrphan
  <2>2. PICK i \in Ids : /\ i = Pick(OrphanBastions) /\ cloud[i].tagged
                         /\ cloud[i].kind = "instance" /\ TargetVpc \in cloud[i].uses
    BY <2>1 DEF OrphanBastions, InVpc, LiveOf
  <2>3. cloud' = InState(i, "deleting")
    BY <1>3, <2>2 DEF TerminateOrphan
  <2> QED BY <1>3, <2>2, <2>3, SweepSpares
<1>4. CASE DeleteOrphanRt
  <2>1. Pick(OrphanRts) \in OrphanRts
    BY <1>4, PickIn DEF DeleteOrphanRt
  <2>2. PICK i \in Ids : /\ i = Pick(OrphanRts) /\ cloud[i].tagged
                         /\ cloud[i].kind = "rt" /\ TargetVpc \in cloud[i].uses
    BY <2>1 DEF OrphanRts, InVpc, LiveOf
  <2>3. cloud' = TableDeleted(i)
    BY <1>4, <2>2 DEF DeleteOrphanRt
  <2> QED BY <1>4, <2>2, <2>3, SweepSpares
<1>5. CASE DeleteRouteTable
  <2>1. PICK i \in Ids \ Foreign : i = Pick(work.rts)
    BY <1>5, DeletedIsOwn DEF DeleteRouteTable
  <2>2. cloud' = TableDeleted(i)
    BY <1>5, <2>1 DEF DeleteRouteTable
  <2> QED BY <2>2, ChangesSpare
<1>6. CASE DeleteBastionSG \/ DeleteSecurityGroup \/ DeleteVpc \/ DeleteSubnet
  <2>1. CASE DeleteBastionSG
    <3>1. PICK i \in Ids \ Foreign : i = work.bsg
      BY <2>1, DeletedIsOwn DEF DeleteBastionSG
    <3> QED BY <2>1, <3>1, DeleteOrWaitSpares DEF DeleteBastionSG
  <2>2. CASE DeleteSecurityGroup
    <3>1. PICK i \in Ids \ Foreign : i = Pick(work.sgs)
      BY <2>2, DeletedIsOwn DEF DeleteSecurityGroup
    <3> QED BY <2>2, <3>1, DeleteOrWaitSpares DEF DeleteSecurityGroup
  <2>3. CASE DeleteVpc
    <3>1. PICK i \in Ids \ Foreign : i = work.vpc
      BY <2>3, DeletedIsOwn DEF DeleteVpc
    <3> QED BY <2>3, <3>1, DeleteOrWaitSpares DEF DeleteVpc
  <2>4. CASE DeleteSubnet
    <3>1. PICK i \in Ids \ Foreign : i = IF work.pub # {} THEN Pick(work.pub) ELSE Pick(work.priv)
      BY <2>4, DeletedIsOwn DEF DeleteSubnet
    <3> QED BY <2>4, <3>1, DeleteOrWaitSpares DEF DeleteSubnet
  <2> QED BY <1>6, <2>1, <2>2, <2>3, <2>4
<1>7. CASE DeleteIgw
  <2>1. PICK i \in Ids \ Foreign : i = work.igw
    BY <1>7, DeletedIsOwn DEF DeleteIgw
  <2>2. \/ UNCHANGED cloud
        \/ cloud' = GatewayDeleted(i)
        \/ cloud' = [cloud EXCEPT ![i].uses = {}]
    BY <1>7, <2>1 DEF DeleteIgw, Retry
  <2> QED BY <2>2, SameSpares, ChangesSpare
<1> QED BY <1>1, <1>2, <1>3, <1>4, <1>5, <1>6, <1>7, DeleteNatSpares DEF DeleteStep

(* The copy lets go of ids, and takes none.                                *)
LEMMA DropNamesNothing ==
  ASSUME IInv, Apart, NEW i,
         \/ work' = work
         \/ work' = [work EXCEPT !.bastion = NoId]
         \/ work' = [work EXCEPT !.bsg = NoId]
         \/ work' = [work EXCEPT !.rts = @ \ {i}]
         \/ work' = [work EXCEPT !.nats = @ \ {i}]
         \/ work' = [work EXCEPT !.pub = @ \ {i}, !.priv = @ \ {i}]
         \/ work' = [work EXCEPT !.igw = NoId]
         \/ work' = [work EXCEPT !.sgs = @ \ {i}]
         \/ work' = [work EXCEPT !.vpc = NoId]
  PROVE  OnlyNamed(work')
<1>1. /\ work'.vpc \in {work.vpc, NoId} /\ work'.igw \in {work.igw, NoId}
      /\ work'.pub \subseteq work.pub /\ work'.priv \subseteq work.priv
      /\ work'.nats \subseteq work.nats /\ work'.rts \subseteq work.rts
      /\ work'.sgs \subseteq work.sgs /\ work'.bsg \in {work.bsg, NoId}
      /\ work'.bastion \in {work.bastion, NoId}
  BY WorkFacts DEF Object
<1> QED BY <1>1, IdsFacts DEF Apart, OnlyNamed

LEMMA DeletionNamesNothing ==
  ASSUME IInv, Apart, DeleteStep, ~RemoveFinalizer PROVE OnlyNamed(work')
<1>1. CASE DeleteRouteTable
  <2>1. \E i : work' = [work EXCEPT !.rts = @ \ {i}]
    BY <1>1 DEF DeleteRouteTable, Save
  <2> QED BY <2>1, DropNamesNothing
<1>2. CASE DeleteNat
  <2>1. \E i : work' = work \/ work' = [work EXCEPT !.nats = @ \ {i}]
    BY <1>2 DEF DeleteNat, Save
  <2> QED BY <2>1, DropNamesNothing
<1>3. CASE DeleteSubnet
  <2>1. \E i : work' = work \/ work' = [work EXCEPT !.pub = @ \ {i}, !.priv = @ \ {i}]
    BY <1>3 DEF DeleteSubnet, DeleteOrWait, Retry, Save
  <2> QED BY <2>1, DropNamesNothing
<1>4. CASE DeleteSecurityGroup
  <2>1. \E i : work' = work \/ work' = [work EXCEPT !.sgs = @ \ {i}]
    BY <1>4 DEF DeleteSecurityGroup, DeleteOrWait, Retry, Save
  <2> QED BY <2>1, DropNamesNothing
<1>5. CASE \/ RetainResources \/ DeleteBastion \/ TerminateOrphan \/ DeleteKeyPair
           \/ DeleteBastionSG \/ DeleteIgw \/ DeleteOrphanRt \/ DeleteVpc \/ DeleteCallFails
  <2>1. \/ work' = work
        \/ work' = [work EXCEPT !.bastion = NoId]
        \/ work' = [work EXCEPT !.bsg = NoId]
        \/ work' = [work EXCEPT !.igw = NoId]
        \/ work' = [work EXCEPT !.vpc = NoId]
    BY <1>5
    DEF RetainResources, DeleteBastion, TerminateOrphan, DeleteKeyPair, DeleteBastionSG,
        DeleteIgw, DeleteOrphanRt, DeleteVpc, DeleteCallFails, DeleteOrWait, Retry, Save
  <2>2. PICK i : i = NoId
    OBVIOUS
  <2> QED BY <2>1, <2>2, DropNamesNothing
<1> QED BY <1>1, <1>2, <1>3, <1>4, <1>5 DEF DeleteStep

(* The stages skip every list whose resources the spec names.              *)
LEMMA StageIsHandsOff == ASSUME UNCHANGED config, pc' = DeleteStage PROVE HandsOff'
<1>1. PICK p : p = DeleteStage
  OBVIOUS
<1>2. /\ p = "deleteRouteTable"    => config.exRts = {}
      /\ p = "deleteNat"           => config.exNats = {}
      /\ p = "deleteSubnet"        => ExistingSubnets = {}
      /\ p = "deleteIgw"           => config.exIgw = NoId
      /\ p = "deleteSecurityGroup" => config.exSgs = {}
      /\ p = "deleteVpc"           => config.exVpc = NoId
  BY <1>1 DEF DeleteStage
<1> QED BY <1>1, <1>2 DEF HandsOff, ExistingSubnets

LEMMA DeleteStepApart ==
  ASSUME IInv, Untouched, Apart, DeleteStep, ~RemoveFinalizer PROVE Apart'
<1>1. UNCHANGED kube
  BY DEF DeleteStep, Deletion, RetainResources, DeleteBastion, TerminateOrphan, DeleteKeyPair,
         DeleteBastionSG, DeleteRouteTable, DeleteNat, DeleteSubnet, DeleteIgw,
         DeleteSecurityGroup, DeleteOrphanRt, DeleteVpc, DeleteCallFails
<1>2. made' \in {made, NoId}
  BY DEF DeleteStep, RetainResources, DeleteBastion, TerminateOrphan, DeleteKeyPair,
         DeleteBastionSG, DeleteRouteTable, DeleteNat, DeleteSubnet, DeleteIgw,
         DeleteSecurityGroup, DeleteOrphanRt, DeleteVpc, DeleteCallFails, DeleteOrWait,
         Retry, Save
<1>3. HandsOff'
  <2>1. CASE DeleteKeyPair
    BY <1>1, <2>1, StageIsHandsOff DEF DeleteKeyPair, kube
  <2>2. CASE ~DeleteKeyPair
    <3>1. pc' \in {"write", "removeFinalizer"}
      BY <2>2
      DEF DeleteStep, RetainResources, DeleteBastion, TerminateOrphan, DeleteBastionSG,
          DeleteRouteTable, DeleteNat, DeleteSubnet, DeleteIgw, DeleteSecurityGroup,
          DeleteOrphanRt, DeleteVpc, DeleteCallFails, DeleteOrWait, Retry, Save
    <3> QED BY <3>1 DEF HandsOff
  <2> QED BY <2>1, <2>2
<1>4. made' \notin Foreign
  BY <1>2, IdsFacts DEF Apart
<1> QED BY <1>1, <1>3, <1>4, DeletionSpares, DeletionNamesNothing, StepApart

-----------------------------------------------------------------------------
(* The other steps.                                                        *)

LEMMA NoObjectIsNamed == OnlyNamed(NoObject)
BY IdsFacts DEF OnlyNamed, NoObject

(* The reconcile ends, or dies.                                            *)
LEMMA EndsApart ==
  ASSUME IInv, Apart,
         \/ WriteStatus \/ WriteLost \/ RemoveFinalizer \/ Crash \/ NoPublicSubnetPanic
  PROVE  Apart'
<1>1. /\ UNCHANGED <<cloud, config>> /\ pc' = "idle" /\ work' = NoObject /\ made' = NoId
      /\ stack' \in {stack, work, NoObject} /\ cache' \in {cache, stack}
  BY DEF WriteStatus, WriteLost, RemoveFinalizer, Crash, NoPublicSubnetPanic, Return, kube
<1>2. OnlyNamed(stack') /\ OnlyNamed(cache') /\ OnlyNamed(work')
  BY <1>1, NoObjectIsNamed DEF Apart
<1>3. OnlyNamed(stack)' /\ OnlyNamed(cache)' /\ OnlyNamed(work)'
  BY <1>1, <1>2 DEF OnlyNamed, ExistingSubnets
<1>4. HandsOff' /\ made' \notin Foreign
  BY <1>1, IdsFacts DEF HandsOff
<1>5. Unswept' => Unswept
  BY <1>1, UnsweptBefore DEF Next, Reconcile, CreateStep, DeleteStep
<1> QED BY <1>1, <1>3, <1>4, <1>5, SameSpares, SparesKeeps DEF Apart

(* Marks are no names.                                                     *)
LEMMA MarksAreNoNames ==
  ASSUME NEW o \in Object, OnlyNamed(o), NEW p, NEW r
  PROVE  /\ OnlyNamed([o EXCEPT !.phase = p])
         /\ OnlyNamed([o EXCEPT !.phase = p, !.ready = r])
         /\ OnlyNamed([o EXCEPT !.finalizer = r])
         /\ OnlyNamed([o EXCEPT !.deleting = r])
BY DEF OnlyNamed, Object

LEMMA StartsApart == ASSUME IInv, Apart, Begin \/ AddFinalizer PROVE Apart'
<1>1. UNCHANGED <<cloud, config, cache>>
  BY DEF Begin, AddFinalizer, kube
<1>2. /\ cache \in Object /\ OnlyNamed(cache) /\ work \in Object /\ OnlyNamed(work)
      /\ OnlyNamed(stack)
  BY CopiesFacts, WorkFacts DEF Apart
<1>3. PICK o \in Object :
        /\ OnlyNamed(o) /\ stack' \in {stack, o}
        /\ \/ Resume(o)
           \/ /\ work' = o \/ \E p, r : work' = [o EXCEPT !.phase = p, !.ready = r]
              /\ pc' \in {"delete", "write", "addFinalizer"} /\ UNCHANGED made
  <2>1. CASE Begin
    BY <1>2, <2>1 DEF Begin, kube
  <2>2. CASE AddFinalizer
    <3>1. PICK o : o = [work EXCEPT !.finalizer = TRUE]
      OBVIOUS
    <3>2. o \in Object /\ OnlyNamed(o)
      BY <1>2, <3>1, MarksAreNoNames DEF Object
    <3>3. stack' = o /\ Resume(o)
      BY <2>2, <3>1 DEF AddFinalizer
    <3> QED BY <3>2, <3>3
  <2> QED BY <2>1, <2>2
<1>4. OnlyNamed(work') /\ made' \notin Foreign /\ HandsOff'
  <2>1. CASE Resume(o)
    <3>1. \E p : work' = [o EXCEPT !.phase = p]
      BY <2>1 DEF Resume
    <3>2. made' = NoId /\ pc' \in {"write", "Ready", "Failed"} \cup CreationPhases
      BY <2>1, PhaseIsAPhase DEF Resume
    <3> QED BY <1>3, <3>1, <3>2, MarksAreNoNames, IdsFacts DEF HandsOff, CreationPhases
  <2>2. CASE ~Resume(o)
    <3>1. OnlyNamed(work')
      <4>1. work' = o \/ \E p, r : work' = [o EXCEPT !.phase = p, !.ready = r]
        BY <1>3, <2>2
      <4>2. /\ work'.vpc = o.vpc /\ work'.igw = o.igw /\ work'.pub = o.pub
            /\ work'.priv = o.priv /\ work'.nats = o.nats /\ work'.rts = o.rts
            /\ work'.sgs = o.sgs /\ work'.bsg = o.bsg /\ work'.bastion = o.bastion
        BY <4>1 DEF Object
      <4> QED BY <1>3, <4>2 DEF OnlyNamed
    <3>2. pc' \in {"delete", "write", "addFinalizer"} /\ UNCHANGED made
      BY <1>3, <2>2
    <3> QED BY <3>1, <3>2 DEF HandsOff, Apart
  <2> QED BY <2>1, <2>2
<1>5. OnlyNamed(stack)' /\ OnlyNamed(cache)' /\ OnlyNamed(work)'
  BY <1>1, <1>2, <1>3, <1>4 DEF OnlyNamed, ExistingSubnets
<1>6. Unswept' => Unswept
  BY <1>1, UnsweptBefore DEF Next, Reconcile
<1> QED BY <1>1, <1>4, <1>5, <1>6, SameSpares, SparesKeeps DEF Apart

LEMMA CloudStepSpares == ASSUME IInv, Apart, CloudStep PROVE Spares
<1>1. PICK j \in Ids : Settle(j) \/ NatFails(j)
  BY DEF CloudStep
<1>2. CASE j \notin Foreign
  <2>1. \E state : cloud' = InState(j, state)
    BY <1>1 DEF Settle, NatFails
  <2> QED BY <1>2, <2>1, ChangesSpare
<1>3. CASE j \in Foreign
  <2>1. SameKind(j) /\ (j \notin Swept \/ Unswept => cloud[j] = Preexisting[j])
    BY <1>3 DEF Apart, AsFound
  <2>2. cloud[j].state = "deleting" /\ cloud' = InState(j, "deleted")
    BY <1>1, <2>1 DEF Settle, NatFails, SameKind
  <2>3. j \in Swept /\ ~Unswept
    BY <1>3, <2>1, <2>2, PreexistingAssumption DEF Foreign
  <2>4. PICK old \in Resource : old = cloud[j]
    BY DEF IInv, TypeOK
  <2>5. PICK r : r = [old EXCEPT !.state = "deleted"] /\ cloud' = [cloud EXCEPT ![j] = r]
    BY <2>2, <2>4 DEF InState
  <2>6. \A i \in Ids : cloud'[i] = IF i = j THEN r ELSE cloud[i]
    BY <2>5 DEF IInv, TypeOK
  <2>7. SweptUp(j)
    BY <2>3, <2>4, <2>5, <2>6 DEF SweptUp, Resource, Gone
  <2> QED BY <1>3, <2>6, <2>7, IdsFacts DEF Spares
<1> QED BY <1>2, <1>3

LEMMA EnvironmentApart ==
  ASSUME IInv, Apart,
         RequestDelete \/ SyncCache \/ CloudStep \/ Resync \/ UNCHANGED vars
  PROVE  Apart'
<1>1. UNCHANGED <<config, pc, work, made>>
  BY DEF RequestDelete, SyncCache, CloudStep, Resync, vars, kube
<1>2. Spares
  <2>1. CloudStep \/ UNCHANGED cloud
    BY DEF RequestDelete, SyncCache, Resync, vars
  <2> QED BY <2>1, CloudStepSpares, SameSpares
<1>3. PICK o : o = [stack EXCEPT !.deleting = TRUE]
  OBVIOUS
<1>4. stack' \in {stack, o, NoObject} /\ cache' \in {cache, stack}
  BY <1>3 DEF RequestDelete, SyncCache, CloudStep, Resync, vars, kube
<1>5. OnlyNamed(o) /\ OnlyNamed(NoObject)
  BY <1>3, CopiesFacts, MarksAreNoNames, NoObjectIsNamed DEF Apart
<1>6. OnlyNamed(stack') /\ OnlyNamed(cache') /\ OnlyNamed(work')
  BY <1>1, <1>4, <1>5 DEF Apart
<1>7. OnlyNamed(stack)' /\ OnlyNamed(cache)' /\ OnlyNamed(work)'
  BY <1>1, <1>6 DEF OnlyNamed, ExistingSubnets
<1>8. HandsOff' /\ made' \notin Foreign
  BY <1>1 DEF HandsOff, ExistingSubnets, Apart
<1>9. Unswept' => Unswept
  BY <1>1, UnsweptBefore DEF Next, Reconcile
<1> QED BY <1>1, <1>2, <1>7, <1>8, <1>9, SparesKeeps DEF Apart

LEMMA ApartAtFirst == Init => Apart
<1> SUFFICES ASSUME Init PROVE Apart
  OBVIOUS
<1>1. /\ stack = [NoObject EXCEPT !.exists = TRUE] /\ cache = stack /\ work = NoObject
      /\ pc = "idle" /\ made = NoId
      /\ cloud = [i \in Ids |-> IF i \in Foreign THEN Preexisting[i] ELSE Unborn]
  BY DEF Init, CloudInit
<1>2. /\ \A i \in Foreign : cloud[i] = Preexisting[i]
      /\ \A i \in Ids \ Foreign : cloud[i].uses = {}
  BY <1>1, IdsFacts DEF Unborn
<1>3. OnlyNamed(stack) /\ OnlyNamed(work)
  BY <1>1, IdsFacts DEF NoObject, OnlyNamed
<1>4. HandsOff /\ made \notin Foreign
  BY <1>1, IdsFacts DEF HandsOff
<1>5. AsFound
  BY <1>2, PreexistingAssumption DEF AsFound, SameKind, Foreign
<1> QED BY <1>1, <1>2, <1>3, <1>4, <1>5 DEF Apart, OwnAddresses

LEMMA AlwaysApart == Spec => []Apart
<1>1. IInv /\ Untouched /\ Apart /\ [Next]_vars => Apart'
  BY CreateStepApart, DeleteStepApart, EndsApart, StartsApart, EnvironmentApart
  DEF Next, Reconcile
<1> QED BY <1>1, ApartAtFirst, Invariant, AlwaysUntouched, PTL DEF Spec

(* Whatever fails, crashes, is retried or is asked for twice, a resource   *)
(* the user brought along stays what it was: it is not deleted, detached,  *)
(* put into anything, or taken apart, nor is its address released.  The    *)
(* exceptions are the instances and route tables with the stack's tag in   *)
(* the VPC that the spec names, whatever else it names: these stay until   *)
(* the deletion is asked for, and for good under Retain.                   *)
THEOREM ForeignKept == Spec => []ForeignIntact
<1>1. Apart => ForeignIntact
  BY PreexistingAssumption DEF Apart, AsFound, Unswept, ForeignIntact, Foreign
<1> QED BY <1>1, AlwaysApart, PTL

-----------------------------------------------------------------------------
(* What exists in EC2 never becomes what was never created.                *)

BornForever == Unused' \subseteq Unused

LEMMA CreatesKeepsBorn == ASSUME IInv, Creates PROVE BornForever
<1>1. PICK kind, state, n, tagged, uses : cloud' = Created(kind, state, n, tagged, uses)
  BY DEF Creates
<1> SUFFICES ASSUME NEW i \in Ids, cloud'[i].kind = "none" PROVE cloud[i].kind = "none"
  BY DEF BornForever, Unused
<1>2. CASE i = NewId
  BY <1>2, NewIdIsUnused DEF Creates, Unused
<1>3. CASE i # NewId
  BY <1>1, <1>3 DEF Created, IInv, TypeOK
<1> QED BY <1>2, <1>3

LEMMA LinksKeepsBorn == ASSUME IInv, Links PROVE BornForever
<1>1. PICK S : cloud' = Associated(made, S) \/ cloud' = [cloud EXCEPT ![made].uses = S]
  BY DEF Links
<1> SUFFICES ASSUME NEW i \in Ids PROVE cloud'[i].kind = cloud[i].kind
  BY DEF BornForever, Unused
<1>2. cloud[i] \in Resource
  BY DEF IInv, TypeOK
<1> QED BY <1>1, <1>2 DEF Associated, IInv, TypeOK, Resource

LEMMA StillBorn == ASSUME IInv, [Next]_vars PROVE BornForever
<1>1. CASE CreateStep
  <2>1. CASE UNCHANGED cloud
    BY <2>1 DEF BornForever, Unused
  <2> QED BY <1>1, <2>1, CreateStepEffect, CreatesKeepsBorn, LinksKeepsBorn
<1>2. CASE DeleteStep \/ CloudStep
  BY <1>2, DeletionCreatesNothing DEF BornForever
<1>3. CASE \/ Begin \/ Resync \/ AddFinalizer \/ WriteStatus \/ WriteLost
           \/ RequestDelete \/ SyncCache \/ Crash \/ UNCHANGED vars
  <2>1. UNCHANGED cloud
    BY <1>3 DEF Begin, Resync, AddFinalizer, WriteStatus, WriteLost, RequestDelete,
                SyncCache, Crash, vars
  <2> QED BY <2>1 DEF BornForever, Unused
<1> QED BY <1>1, <1>2, <1>3 DEF Next, Reconcile

-----------------------------------------------------------------------------
(* Under Retain nothing ever goes.                                         *)

Retained == config.retain => \A i \in Ids : cloud[i].state \notin Gone

LEMMA ConfigStays == ASSUME [Next]_vars PROVE config' = config
<1>1. CASE CreateStep
  BY <1>1
  DEF CreateStep, Creation, kube, UseExistingVpc, CreateVpc, ModifyVpc, CheckVPCReady, Wait,
      UseExistingIgw, CreateInternetGateway, AttachInternetGateway, UseExistingSubnets,
      CreateSubnet, RecordSubnet, SubnetsCreated, CheckSubnetsReady, UseExistingNats,
      AllocateAddress, NoPublicSubnetPanic, CreateNatGateway, NatsCreated,
      CheckNATGatewaysReady, UseExistingRouteTables, CreateRouteTable, RecordRouteTable,
      RouteTableFails, RouteTablesCreated, UseExistingSecurityGroups, CreateSecurityGroup,
      AuthorizeIngress, SecurityGroupsCreated, CreateBastionSecurityGroup, PrepareBastion,
      StoreKey, RunInstance, CheckBastionReady, QuotaExceeded, CreateCallFails
<1>2. CASE DeleteStep
  BY <1>2
  DEF DeleteStep, Deletion, kube, RetainResources, DeleteBastion, TerminateOrphan,
      DeleteKeyPair, DeleteBastionSG, DeleteRouteTable, DeleteNat, DeleteSubnet, DeleteIgw,
      DeleteSecurityGroup, DeleteOrphanRt, DeleteVpc, RemoveFinalizer, DeleteCallFails
<1>3. CASE \/ Begin \/ Resync \/ AddFinalizer \/ WriteStatus \/ WriteLost
           \/ RequestDelete \/ SyncCache \/ CloudStep \/ Crash \/ UNCHANGED vars
  BY <1>3 DEF Begin, Resync, AddFinalizer, WriteStatus, WriteLost, RequestDelete, SyncCache,
              CloudStep, Crash, vars, kube
<1> QED BY <1>1, <1>2, <1>3 DEF Next, Reconcile

(* A state other than "none" is one of a resource that was created.        *)
LEMMA StateOfBorn ==
  ASSUME IInv, NEW i \in Ids
  PROVE  /\ cloud[i].state \in {"none"} \cup Standing \cup Gone
         /\ cloud[i].state = "none" <=> i \in Unused
         /\ Live(i) <=> cloud[i].state \in Standing \cup {"deleting"}
BY DEF IInv, TypeOK, CloudSane, Unused, Resource, States, Standing, Gone, Live, LiveStates

LEMMA UnbornStaysSane ==
  ASSUME IInv, IInv', Untouched, [Next]_vars, NEW i \in Ids, i \in Unused
  PROVE  cloud'[i].state \notin Gone
<1>1. CASE DeleteStep \/ CloudStep
  <2>1. i \in Unused'
    BY <1>1, DeletionCreatesNothing
  <2> QED BY <2>1 DEF IInv, CloudSane, Unused, Gone
<1>2. CASE ~DeleteStep
  <2>1. DeletesNothing
    BY <1>2, OthersDeleteNothing
  <2>2. cloud[i].state = "none"
    BY StateOfBorn
  <2> QED BY <2>1, <2>2 DEF DeletesNothing, Gone
<1> QED BY <1>1, <1>2

LEMMA RetainedStays ==
  ASSUME IInv, IInv', Untouched, Retained, [Next]_vars PROVE Retained'
<1> SUFFICES ASSUME config'.retain, NEW i \in Ids PROVE cloud'[i].state \notin Gone
  BY DEF Retained
<1>1. config.retain
  BY ConfigStays
<1>2. cloud[i].state \in {"none"} \cup Standing
  BY <1>1, StateOfBorn DEF Retained
<1>3. CASE cloud[i].state = "none"
  BY <1>3, StateOfBorn, UnbornStaysSane
<1>4. CASE cloud[i].state \in Standing
  BY <1>1, <1>4, UnaskedDeletesNothing
<1> QED BY <1>2, <1>3, <1>4

LEMMA RetainedAtFirst == Init => Retained
<1> SUFFICES ASSUME Init PROVE Retained
  OBVIOUS
<1>1. cloud = [i \in Ids |-> IF i \in Foreign THEN Preexisting[i] ELSE Unborn]
  BY DEF Init, CloudInit
<1>2. \A i \in Ids : cloud[i].state \in {"available", "none"}
  BY <1>1, PreexistingAssumption DEF Foreign, Unborn
<1> QED BY <1>2 DEF Retained, Gone

LEMMA AlwaysRetained == Spec => []Retained
<1>1. IInv /\ IInv' /\ Untouched /\ Retained /\ [Next]_vars => Retained'
  BY RetainedStays
<1> QED BY <1>1, RetainedAtFirst, Invariant, AlwaysUntouched, PTL DEF Spec

-----------------------------------------------------------------------------
(* Every step keeps the promise.                                           *)

(* While the object stands, and always under Retain, what lives goes on    *)
(* living.                                                                 *)
LEMMA NothingDies ==
  ASSUME IInv, IInv', Untouched, Untouched', Retained, [Next]_vars,
         config.retain \/ (stack'.exists /\ ~stack'.deleting),
         NEW i \in Ids, Live(i)
  PROVE  Live(i)'
<1>1. cloud[i].state \in Standing \cup {"deleting"} /\ i \notin Unused
  BY StateOfBorn DEF Standing
<1>2. i \notin Unused'
  BY <1>1, StillBorn DEF BornForever
<1>3. cloud'[i].state \notin Gone
  <2>1. CASE config.retain
    BY <2>1, RetainedStays, ConfigStays DEF Retained
  <2>2. CASE stack'.exists /\ ~stack'.deleting
    BY <2>2 DEF Untouched, Gone
  <2> QED BY <2>1, <2>2
<1>4. cloud'[i].state \in States \ {"none"}
  BY <1>2 DEF IInv, TypeOK, CloudSane, Unused, Resource
<1> QED BY <1>3, <1>4 DEF Live, LiveStates, States, Gone

(* The object changes only while EC2 stays as it is.                       *)
LEMMA ObjectStepsAlone ==
  ASSUME [Next]_vars, stack' # stack PROVE UNCHANGED <<cloud, config>>
<1>1. UNCHANGED cloud
  BY ObjectSteps DEF AddFinalizer, WriteStatus, RemoveFinalizer, RequestDelete
<1> QED BY <1>1, ConfigStays

(* What the writes of the object do to its existence and its deletion mark.*)
LEMMA MarkMoves ==
  ASSUME IInv, [Next]_vars, stack' # stack
  PROVE  /\ stack.exists
         /\ \/ stack'.exists /\ stack'.deleting = stack.deleting
            \/ /\ stack'.exists /\ ~stack.deleting /\ stack'.deleting
               /\ Recorded(stack') = Recorded(stack)
            \/ /\ ~stack'.exists /\ Recorded(stack') = {}
               /\ stack.deleting \/ Recorded(stack) = {}
<1>1. CASE AddFinalizer
  <2>1. stack' = [work EXCEPT !.finalizer = TRUE] /\ workFresh /\ pc = "addFinalizer"
    BY <1>1 DEF AddFinalizer
  <2>2. stack'.deleting = work.deleting /\ stack'.exists = work.exists
    BY <2>1, WorkFacts DEF Object
  <2> QED BY <2>1, <2>2 DEF IInv, InFlight
<1>2. CASE WriteStatus
  BY <1>2 DEF WriteStatus, IInv, InFlight
<1>3. CASE RemoveFinalizer
  <2>1. stack' = NoObject /\ workFresh /\ pc = "removeFinalizer"
    BY <1>3 DEF RemoveFinalizer
  <2>2. stack.exists /\ stack.deleting
    BY <2>1 DEF IInv, InFlight, DeletingPcs
  <2> QED BY <2>1, <2>2, NoObjectFacts DEF NoObject
<1>4. CASE RequestDelete
  <2>1. stack.exists /\ ~stack.deleting /\ stack \in Object
    BY <1>4, CopiesFacts DEF RequestDelete
  <2>2. CASE stack.finalizer
    <3>1. stack' = [stack EXCEPT !.deleting = TRUE]
      BY <1>4, <2>2 DEF RequestDelete
    <3>2. stack'.exists /\ stack'.deleting
      BY <2>1, <3>1 DEF Object
    <3>3. Recorded(stack') = Recorded(stack)
      BY <2>1, <3>1, PhaseRecordsNothing
    <3> QED BY <2>1, <3>2, <3>3
  <2>3. CASE ~stack.finalizer
    <3>1. stack' = NoObject
      BY <1>4, <2>3 DEF RequestDelete
    <3>2. Recorded(stack) = {}
      BY <2>3 DEF IInv, Guarded
    <3> QED BY <2>1, <3>1, <3>2, NoObjectFacts DEF NoObject
  <2> QED BY <2>2, <2>3
<1> QED BY <1>1, <1>2, <1>3, <1>4, ObjectSteps

LEMMA StepKeepsPromise ==
  ASSUME IInv, IInv', Untouched, Untouched', Retained, [Next]_vars
  PROVE  [Promise!Next]_(Promise!vars)
<1> DEFINE object   == IF ~stack.exists THEN "gone"
                       ELSE IF stack.deleting THEN "marked" ELSE "standing"
           recorded == Recorded(stack) \ Foreign
           live     == {i \in Ids \ Foreign : Live(i)}
<1>0. config' = config
  BY ConfigStays
<1>1. CASE stack' = stack
  <2>1. object' = object /\ recorded' = recorded
    BY <1>1
  <2>2. CASE config.retain \/ object = "standing"
    <3>1. (stack'.exists /\ ~stack'.deleting) \/ config.retain
      BY <1>1, <2>2
    <3>2. live \subseteq live'
      BY <3>1, NothingDies
    <3>3. Promise!Appear
      BY <1>0, <1>1, <3>2 DEF Promise!Appear
    <3> QED BY <3>3 DEF Promise!Next
  <2>3. CASE ~config.retain /\ object # "standing"
    <3>1. Promise!Destroy
      BY <1>0, <1>1, <2>3 DEF Promise!Destroy
    <3> QED BY <3>1 DEF Promise!Next
  <2> QED BY <2>2, <2>3
<1>2. CASE stack' # stack
  <2>1. live' = live
    BY <1>2, ObjectStepsAlone DEF Live
  <2>2. Promise!LetGo
    <3>1. \A i \in Recorded(stack) \ Recorded(stack') :
            i \in Foreign \/ config.retain \/ ~Live(i)
      BY ForgetsNothing DEF Forgotten
    <3> QED BY <3>1 DEF Promise!LetGo
  <2>3. CASE stack.exists /\ stack'.exists /\ stack'.deleting = stack.deleting
    <3>1. Promise!Record
      BY <1>0, <2>1, <2>2, <2>3 DEF Promise!Record
    <3> QED BY <3>1 DEF Promise!Next
  <2>4. CASE /\ stack.exists /\ stack'.exists /\ ~stack.deleting /\ stack'.deleting
             /\ Recorded(stack') = Recorded(stack)
    <3>1. Promise!Mark
      BY <1>0, <2>1, <2>4 DEF Promise!Mark
    <3> QED BY <3>1 DEF Promise!Next
  <2>5. CASE /\ stack.exists /\ ~stack'.exists /\ Recorded(stack') = {}
             /\ stack.deleting \/ Recorded(stack) = {}
    <3>1. Promise!Go
      BY <1>0, <2>1, <2>2, <2>5 DEF Promise!Go
    <3> QED BY <3>1 DEF Promise!Next
  <2> QED BY <1>2, <2>3, <2>4, <2>5, MarkMoves
<1> QED BY <1>1, <1>2

LEMMA PromiseAtFirst == Init => Promise!Init
<1> SUFFICES ASSUME Init PROVE Promise!Init
  OBVIOUS
<1>1. stack = [NoObject EXCEPT !.exists = TRUE]
  BY DEF Init
<1>2. stack.exists /\ ~stack.deleting /\ Recorded(stack) = {}
  BY <1>1 DEF NoObject, Recorded
<1>3. config.retain \in BOOLEAN
  BY ConfigAssumption DEF Init, ConfigType
<1> QED BY <1>2, <1>3 DEF Promise!Init

(* The controller refines Lifecycle: seen through its status and what it   *)
(* created in EC2, every behaviour of it is one the operator promises.     *)
THEOREM PromiseKept == Spec => KeepsPromise
<1>1. /\ IInv /\ IInv' /\ Untouched /\ Untouched' /\ Retained /\ [Next]_vars
      => [Promise!Next]_(Promise!vars)
  BY StepKeepsPromise
<1> QED BY <1>1, PromiseAtFirst, Invariant, AlwaysUntouched, AlwaysRetained, PTL
        DEF Spec, KeepsPromise, Promise!Spec

=============================================================================
