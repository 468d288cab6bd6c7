------------------------- MODULE ComputeStackProofs -------------------------
(* Proofs about ComputeStack, for every set of Configs, every account and *)
(* every MaxFaults: its type invariant, that no live resource is ever      *)
(* forgotten, and that a deletion, once begun, is final.                   *)
EXTENDS ComputeStackInv, FiniteSetTheorems, TLAPS

-----------------------------------------------------------------------------
(* Small facts.                                                            *)

LEMMA PickIn == ASSUME NEW S, S # {} PROVE Pick(S) \in S
BY DEF Pick

LEMMA NewIdIsUnused ==
  Unused # {} => NewId \in Ids /\ cloud[NewId].kind = "none"
BY PickIn DEF NewId, Unused

LEMMA IdsFacts == Ids \subseteq Nat /\ NoId \notin Ids /\ Foreign \subseteq Ids
BY QuotaAssumption, PreexistingAssumption DEF Ids, NoId, Foreign

(* The number of ids in a list of the status is a natural number.          *)
LEMMA Countable == ASSUME NEW S \in SUBSET Ids PROVE Cardinality(S) \in Nat
<1>1. IsFiniteSet(Ids)
  BY QuotaAssumption, FS_Interval DEF Ids
<1> QED BY <1>1, FS_Subset, FS_CardinalityType

LEMMA ConfigCounts ==
  ASSUME IInv
  PROVE  /\ config \in ConfigType
         /\ config.pub \in Nat /\ config.priv \in Nat /\ config.sgs \in Nat
         /\ WantedPub \in Nat
BY ConfigAssumption DEF ConfigType, WantedPub, IInv, TypeOK

-----------------------------------------------------------------------------
(* A status is made of ids.                                                *)
LEMMA RecordedIds == ASSUME NEW o \in Object PROVE Recorded(o) \subseteq Ids
BY DEF Object, Recorded

(* The marks of the object are no part of what its status records.         *)
LEMMA PhaseRecordsNothing ==
  ASSUME NEW o \in Object, NEW p, NEW r
  PROVE  /\ Recorded([o EXCEPT !.phase = p]) = Recorded(o)
         /\ Recorded([o EXCEPT !.phase = p, !.ready = r]) = Recorded(o)
         /\ Recorded([o EXCEPT !.finalizer = r]) = Recorded(o)
         /\ Recorded([o EXCEPT !.deleting = r]) = Recorded(o)
BY DEF Object, Recorded

LEMMA NoObjectFacts ==
  /\ NoObject \in Object
  /\ Recorded(NoObject) = {}
  /\ Provenance(NoObject)
BY DEF NoObject, Object, Recorded, Phases, Provenance, NoId

LEMMA PhaseIsAPhase ==
  ASSUME NEW o \in Object
  PROVE  DetermineCurrentPhase(o) \in CreationPhases \cup {"Ready", "Failed"}
BY DEF DetermineCurrentPhase, CreationPhases

-----------------------------------------------------------------------------
(* A step inside a reconcile, seen from afar: what it may do to EC2 and to *)
(* its copy of the object.                                                 *)

CloudMove ==
  /\ cloud' \in [Ids -> Resource]
  /\ \A i \in Ids : cloud[i].kind # "none" => cloud'[i].kind = cloud[i].kind
  /\ \A i \in Ids : cloud[i].state = "deleted" => cloud'[i].state = "deleted"
  /\ CloudSane'

WorkMove ==
  /\ work' \in Object
  /\ Provenance(work')
  /\ \A i \in Recorded(work') : cloud'[i].kind # "none"
  /\ work'.exists = work.exists
  /\ work'.deleting = work.deleting
  /\ work'.finalizer = work.finalizer
  /\ work'.deleting <=> work'.phase = "Deleting"
  /\ \A i \in Recorded(work) \ Recorded(work') : Released(i)'

(* Wherever the step goes, it is where it should be with what it knows.    *)
PcMove ==
  /\ pc' \in CreatingPcs \cup DeletingPcs \cup {"write"}
  /\ pc' # "addFinalizer"
  /\ pc' \in CreatingPcs => ~work'.deleting
  /\ pc' \in DeletingPcs => work'.deleting
  /\ pc' = "removeFinalizer" => \A i \in Recorded(work') : Released(i)'
  /\ AtPc'

OtherMoves ==
  /\ UNCHANGED <<kube, workFresh>>
  /\ made' \in Ids \cup {NoId}
  /\ made' # NoId => cloud'[made'].kind # "none"
  /\ routed' \in SUBSET Ids
  /\ keypair' \in BOOLEAN /\ secret' \in BOOLEAN
  /\ faults' \in 0 .. MaxFaults

LEMMA ReleasedStays ==
  ASSUME TypeOK, CloudMove, UNCHANGED config, NEW i \in Ids, Released(i)
  PROVE  Released(i)'
BY DEF CloudMove, Released

LEMMA BornStays ==
  ASSUME TypeOK, CloudMove, NEW S \in SUBSET Ids, Born(S)
  PROVE  \A i \in S : cloud'[i].kind # "none"
BY DEF CloudMove, Born

LEMMA LocalMove ==
  ASSUME IInv, pc \in (CreatingPcs \ {"addFinalizer"}) \cup DeletingPcs,
         CloudMove, WorkMove, PcMove, OtherMoves
  PROVE  IInv'
<1> USE DEF IInv
<1>0. pc \notin {"idle", "addFinalizer"} /\ pc' \notin {"idle", "addFinalizer"}
  BY DEF CreatingPcs, DeletingPcs, CreationPhases, DeletePhases, PcMove
<1>1. TypeOK'
  BY DEF TypeOK, CloudMove, WorkMove, PcMove, OtherMoves, kube, CreatingPcs, DeletingPcs
<1>2. CloudSane'
  BY DEF CloudMove
<1>3. NamesAreBorn'
  <2>1. Born(Foreign)' /\ Born(Recorded(stack))' /\ Born(Recorded(cache))'
    BY BornStays, RecordedIds, IdsFacts DEF OtherMoves, kube, TypeOK, NamesAreBorn, Born
  <2>2. Born(Recorded(work))' /\ Born({made} \ {NoId})'
    BY DEF WorkMove, OtherMoves, Born
  <2> QED BY <2>1, <2>2 DEF NamesAreBorn
<1>4. ExistingOnly'
  BY DEF ExistingSubnets, ExistingOnly, Provenance, WorkMove, OtherMoves, kube
<1>5. AtPc'
  BY DEF PcMove
<1>6. Fresh'
  <2>1. cacheFresh' => cache' = stack'
    BY DEF Fresh, OtherMoves, kube
  <2>2. ASSUME workFresh', NEW i \in Recorded(stack') \ Recorded(work')
        PROVE  Released(i)'
    <3>1. stack' = stack /\ UNCHANGED config /\ workFresh /\ i \in Ids
      BY <2>2, RecordedIds DEF OtherMoves, kube, TypeOK
    <3>2. CASE i \in Recorded(work)
      BY <2>2, <3>2 DEF WorkMove
    <3>3. CASE i \notin Recorded(work)
      <4>1. Released(i)
        BY <3>1, <3>3, <2>2, <1>0 DEF Fresh
      <4> QED BY <4>1, <3>1, ReleasedStays
    <3> QED BY <3>2, <3>3
  <2>3. pc' = "removeFinalizer" => \A i \in Recorded(work') : Released(i)'
    BY DEF PcMove
  <2> QED BY <2>1, <2>2, <2>3 DEF Fresh
<1>7. Guarded'
  BY <1>0 DEF Guarded, OtherMoves, kube, WorkMove
<1>8. Marked'
  BY <1>0 DEF Marked, OtherMoves, kube, WorkMove
<1>9. InFlight'
  BY <1>0 DEF InFlight, OtherMoves, kube, WorkMove, PcMove
<1> QED BY <1>1, <1>2, <1>3, <1>4, <1>5, <1>6, <1>7, <1>8, <1>9

(* A step that ends a phase and goes to the status write.                  *)
LEMMA SaveMove ==
  ASSUME IInv, pc \in (CreatingPcs \ {"addFinalizer"}) \cup DeletingPcs,
         NEW o, Save(o), CloudMove, WorkMove,
         UNCHANGED kube, keypair' \in BOOLEAN, secret' \in BOOLEAN,
         faults' \in 0 .. MaxFaults
  PROVE  IInv'
<1>1. PcMove
  BY DEF PcMove, Save, AtPc, OneToMake, ListToFill, HalfMade, MayMake, ToDelete, WithVpc,
         CreatingPcs, DeletingPcs, CreationPhases, DeletePhases
<1>2. OtherMoves
  BY IdsFacts DEF OtherMoves, Save, IInv, TypeOK
<1> QED BY <1>1, <1>2, LocalMove

-----------------------------------------------------------------------------
(* What the calls do to EC2.                                               *)

LEMMA CloudSame == ASSUME IInv, UNCHANGED cloud PROVE CloudMove
BY DEF IInv, TypeOK, CloudSane, CloudMove

LEMMA CloudCreated ==
  ASSUME IInv, Unused # {},
         NEW kind \in Kinds, NEW state \in States \ {"none"}, NEW slot \in Nat,
         NEW tagged \in BOOLEAN, NEW uses \in SUBSET Ids,
         cloud' = Created(kind, state, slot, tagged, uses)
  PROVE  /\ CloudMove
         /\ NewId \in Ids
         /\ NewId # NoId
         /\ cloud'[NewId].kind # "none"
<1>1. NewId \in Ids /\ cloud[NewId].kind = "none" /\ cloud[NewId].state = "none"
  BY NewIdIsUnused DEF IInv, CloudSane
<1>2. cloud' \in [Ids -> Resource]
  BY <1>1 DEF IInv, TypeOK, Created, Resource
<1>3. /\ cloud'[NewId].kind = kind /\ cloud'[NewId].state = state
      /\ \A i \in Ids \ {NewId} : cloud'[i] = cloud[i]
  BY <1>1 DEF IInv, TypeOK, Created
<1>4. kind # "none"
  BY DEF Kinds
<1> QED BY <1>1, <1>2, <1>3, <1>4, IdsFacts DEF CloudMove, CloudSane, IInv

LEMMA CloudInState ==
  ASSUME IInv, NEW i \in Ids, NEW state \in States \ {"none"},
         cloud[i].kind # "none",
         cloud[i].state = "deleted" => state = "deleted",
         cloud' = InState(i, state)
  PROVE  CloudMove /\ cloud'[i].state = state
<1>1. cloud' \in [Ids -> Resource]
  BY DEF IInv, TypeOK, InState, Resource
<1>2. /\ cloud'[i].kind = cloud[i].kind /\ cloud'[i].state = state
      /\ \A j \in Ids \ {i} : cloud'[j] = cloud[j]
  BY DEF IInv, TypeOK, InState, Resource
<1> QED BY <1>1, <1>2 DEF CloudMove, CloudSane, IInv

LEMMA CloudUses ==
  ASSUME IInv, NEW i \in Ids, NEW uses \in SUBSET Ids,
         cloud' = [cloud EXCEPT ![i].uses = uses]
  PROVE  CloudMove
<1>1. cloud' \in [Ids -> Resource]
  BY DEF IInv, TypeOK, Resource
<1>2. \A j \in Ids : cloud'[j].kind = cloud[j].kind /\ cloud'[j].state = cloud[j].state
  BY DEF IInv, TypeOK, Resource
<1> QED BY <1>1, <1>2 DEF CloudMove, CloudSane, IInv

LEMMA CloudAssociated ==
  ASSUME IInv, NEW i \in Ids, NEW subnets \in SUBSET Ids,
         cloud' = Associated(i, subnets)
  PROVE  CloudMove
<1>1. cloud' \in [Ids -> Resource]
  BY DEF IInv, TypeOK, Resource, Associated
<1>2. \A j \in Ids : cloud'[j].kind = cloud[j].kind /\ cloud'[j].state = cloud[j].state
  BY DEF IInv, TypeOK, Resource, Associated
<1> QED BY <1>1, <1>2 DEF CloudMove, CloudSane, IInv

LEMMA CloudTableDeleted ==
  ASSUME IInv, NEW i \in Ids, cloud[i].kind # "none",
         cloud' = TableDeleted(i)
  PROVE  CloudMove /\ cloud'[i].state = "deleted"
<1> DEFINE gone == [cloud[i] EXCEPT !.state = "deleted", !.assoc = {}]
<1>1. cloud' \in [Ids -> Resource]
  <2>1. cloud[i] \in Resource
    BY DEF IInv, TypeOK
  <2>2. gone \in Resource
    BY <2>1 DEF Resource, States
  <2>3. cloud' = [cloud EXCEPT ![i] = gone]
    BY DEF TableDeleted
  <2> HIDE DEF gone
  <2> QED BY <2>2, <2>3 DEF IInv, TypeOK
<1>2. /\ cloud'[i].kind = cloud[i].kind /\ cloud'[i].state = "deleted"
      /\ \A j \in Ids \ {i} : cloud'[j] = cloud[j]
  BY DEF IInv, TypeOK, Resource, TableDeleted
<1> QED BY <1>1, <1>2 DEF CloudMove, CloudSane, IInv

LEMMA CloudGatewayDeleted ==
  ASSUME IInv, NEW i \in Ids, cloud[i].kind # "none",
         cloud' = GatewayDeleted(i)
  PROVE  CloudMove /\ cloud'[i].state = "deleted"
<1> DEFINE gone == [cloud[i] EXCEPT !.state = "deleted", !.uses = {}]
<1>1. cloud' \in [Ids -> Resource]
  <2>1. cloud[i] \in Resource
    BY DEF IInv, TypeOK
  <2>2. gone \in Resource
    BY <2>1 DEF Resource, States
  <2>3. cloud' = [cloud EXCEPT ![i] = gone]
    BY DEF GatewayDeleted
  <2> HIDE DEF gone
  <2> QED BY <2>2, <2>3 DEF IInv, TypeOK
<1>2. /\ cloud'[i].kind = cloud[i].kind /\ cloud'[i].state = "deleted"
      /\ \A j \in Ids \ {i} : cloud'[j] = cloud[j]
  BY DEF IInv, TypeOK, Resource, GatewayDeleted
<1> QED BY <1>1, <1>2 DEF CloudMove, CloudSane, IInv

-----------------------------------------------------------------------------
(* What the steps do to the copy of the object.                            *)

SameMarks ==
  /\ work'.exists = work.exists
  /\ work'.deleting = work.deleting
  /\ work'.finalizer = work.finalizer

SameIds ==
  /\ work'.vpc = work.vpc /\ work'.igw = work.igw
  /\ work'.pub = work.pub /\ work'.priv = work.priv
  /\ work'.nats = work.nats /\ work'.rts = work.rts
  /\ work'.sgs = work.sgs
  /\ work'.bsg = work.bsg /\ work'.bastion = work.bastion

(* Ids are added to those it has.                                          *)
LEMMA WorkAdds ==
  ASSUME IInv, CloudMove, ~work.deleting, work' \in Object, SameMarks,
         work'.phase # "Deleting",
         Recorded(work) \subseteq Recorded(work'),
         \A i \in Recorded(work') \ Recorded(work) : cloud'[i].kind # "none",
         Provenance(work')
  PROVE  WorkMove
<1>1. \A i \in Recorded(work) : cloud'[i].kind # "none"
  BY RecordedIds, BornStays DEF IInv, TypeOK, NamesAreBorn
<1> QED BY <1>1 DEF WorkMove, SameMarks

(* Its phase, readiness and known states change; no id does.               *)
LEMMA WorkPhase ==
  ASSUME IInv, CloudMove, ~work.deleting,
         NEW p \in Phases \ {"Deleting"}, NEW r \in BOOLEAN, NEW a \in SUBSET Ids,
         \/ work' = [work EXCEPT !.avail = a, !.phase = p, !.ready = r]
         \/ work' = [work EXCEPT !.phase = p, !.ready = r]
         \/ work' = [work EXCEPT !.phase = p]
  PROVE  WorkMove
<1>0. work \in Object
  BY DEF IInv, TypeOK
<1>1. work' \in Object
  <2>1. CASE work' = [work EXCEPT !.avail = a, !.phase = p, !.ready = r]
    BY <1>0, <2>1 DEF Object
  <2>2. CASE work' = [work EXCEPT !.phase = p, !.ready = r]
    BY <1>0, <2>2 DEF Object
  <2>3. CASE work' = [work EXCEPT !.phase = p]
    BY <1>0, <2>3 DEF Object
  <2> QED BY <2>1, <2>2, <2>3
<1>2. /\ SameIds
      /\ SameMarks
      /\ work'.phase = p
  <2>1. CASE work' = [work EXCEPT !.avail = a, !.phase = p, !.ready = r]
    BY <1>0, <2>1 DEF Object, SameIds, SameMarks
  <2>2. CASE work' = [work EXCEPT !.phase = p, !.ready = r]
    BY <1>0, <2>2 DEF Object, SameIds, SameMarks
  <2>3. CASE work' = [work EXCEPT !.phase = p]
    BY <1>0, <2>3 DEF Object, SameIds, SameMarks
  <2> QED BY <2>1, <2>2, <2>3
<1>3. Recorded(work') = Recorded(work)
  BY <1>2 DEF SameIds, Recorded
<1>4. Provenance(work')
  BY <1>2 DEF IInv, ExistingOnly, Provenance, SameIds
<1> QED BY <1>1, <1>2, <1>3, <1>4, WorkAdds

LEMMA ForeignAreBorn ==
  ASSUME IInv, CloudMove PROVE \A i \in Foreign : cloud'[i].kind # "none"
BY IdsFacts DEF IInv, NamesAreBorn, Born, CloudMove

(* Nothing changes.                                                        *)
LEMMA WorkSame == ASSUME IInv, CloudMove, UNCHANGED work PROVE WorkMove
<1>1. \A i \in Recorded(work') : cloud'[i].kind # "none"
  BY RecordedIds, BornStays DEF IInv, TypeOK, NamesAreBorn
<1> QED BY <1>1 DEF WorkMove, IInv, TypeOK, ExistingOnly, InFlight

LEMMA FaultCounts == ASSUME IInv, Fault PROVE faults' \in 0 .. MaxFaults
BY ConfigAssumption DEF IInv, TypeOK, Fault

LEMMA KeysAndFaults ==
  ASSUME IInv
  PROVE  keypair \in BOOLEAN /\ secret \in BOOLEAN /\ faults \in 0 .. MaxFaults
BY DEF IInv, TypeOK

-----------------------------------------------------------------------------
(* Creation.                                                               *)

CallPcs == CreatingPcs \ {"addFinalizer"}

LEMMA Unmarked == ASSUME IInv, pc \in CallPcs PROVE ~work.deleting
BY DEF IInv, InFlight, CallPcs

LEMMA AbortKeeps ==
  ASSUME IInv, pc \in CallPcs, Abort, CloudMove,
         UNCHANGED <<kube, keys>>, faults' \in 0 .. MaxFaults
  PROVE  IInv'
<1>1. work' = [work EXCEPT !.phase = "Failed", !.ready = FALSE]
  BY DEF Abort, Save
<1>2. WorkMove
  BY <1>1, Unmarked, WorkPhase DEF IInv, TypeOK, Phases
<1> QED BY <1>2, SaveMove, KeysAndFaults DEF Abort, CallPcs, keys

LEMMA CreateCallFailsKeeps == ASSUME IInv, CreateCallFails PROVE IInv'
<1>1. pc \in CallPcs
  BY DEF CreateCallFails, CallPcs, CreatingPcs, CreationPhases
<1>2. CloudMove
  BY CloudSame DEF CreateCallFails
<1> QED BY <1>1, <1>2, AbortKeeps, FaultCounts DEF CreateCallFails

LEMMA QuotaExceededKeeps == ASSUME IInv, QuotaExceeded PROVE IInv'
<1>1. pc \in CallPcs
  BY DEF QuotaExceeded, CallPcs, CreatingPcs, CreationPhases
<1>2. CloudMove
  BY CloudSame DEF QuotaExceeded
<1> QED BY <1>1, <1>2, AbortKeeps, KeysAndFaults DEF QuotaExceeded, Creation

(* A Waiting phase.                                                        *)
LEMMA WaitKeeps ==
  ASSUME IInv, pc \in CallPcs, NEW S \in SUBSET Ids, NEW next \in CreationPhases \cup {"Ready"},
         Wait(S, next)
  PROVE  IInv'
<1> DEFINE a == (work.avail \ S) \cup AvailableOf(S)
           p == IF AvailableOf(S) = S THEN next ELSE work.phase
           r == work.ready \/ (AvailableOf(S) = S /\ next = "Ready")
<1>1. work' = [work EXCEPT !.avail = a, !.phase = p, !.ready = r]
  BY DEF Wait, Save
<1>2. p \in Phases \ {"Deleting"} /\ r \in BOOLEAN /\ a \in SUBSET Ids
  BY Unmarked DEF IInv, TypeOK, Object, Phases, CreationPhases, AvailableOf, InFlight
<1>3. CloudMove
  BY CloudSame DEF Wait
<1>4. WorkMove
  <2> HIDE DEF a, p, r
  <2> QED BY <1>1, <1>2, <1>3, Unmarked, WorkPhase
<1> QED BY <1>3, <1>4, SaveMove, KeysAndFaults DEF Wait, Creation, keys, CallPcs
(* Entering ids in the copy.                                               *)

LEMMA UseExistingVpcKeeps == ASSUME IInv, UseExistingVpc PROVE IInv'
<1>0. /\ pc \in CallPcs /\ ~work.deleting /\ work \in Object
      /\ Provenance(work) /\ Born({made} \ {NoId}) /\ made \in Ids \cup {NoId}
  BY Unmarked DEF UseExistingVpc, IInv, TypeOK, ExistingOnly, NamesAreBorn, CallPcs,
                  CreatingPcs, CreationPhases
<1>1. config.exVpc \in Foreign /\ work.vpc = NoId
  BY ConfigCounts DEF UseExistingVpc, ConfigType, IInv, AtPc, OneToMake
<1>2. CloudMove
  BY CloudSame DEF UseExistingVpc
<1>3. WorkMove
  <2>1. work' = [work EXCEPT !.vpc = config.exVpc, !.phase = "WaitingVPC",
                     !.avail = @ \cup {config.exVpc}]
    BY DEF UseExistingVpc, Save
  <2>2. work' \in Object
    <3>1. "WaitingVPC" \in Phases
      BY DEF Phases, CreationPhases
    <3> QED BY <1>0, <1>1, <2>1, <3>1, IdsFacts DEF Object
  <2>3. SameMarks /\ work'.phase # "Deleting"
    BY <1>0, <2>1 DEF Object, SameMarks
  <2>4. /\ Recorded(work) \subseteq Recorded(work')
        /\ Recorded(work') \subseteq Recorded(work) \cup {config.exVpc}
    BY <1>0, <1>1, <2>1 DEF Object, Recorded
  <2>5. \A i \in {config.exVpc} : cloud'[i].kind # "none"
    BY <1>1, <1>2, ForeignAreBorn DEF CloudMove
  <2>6. Provenance(work')
    BY <1>0, <1>1, <2>1 DEF Object, Provenance
  <2> QED BY <1>0, <1>2, <2>2, <2>3, <2>4, <2>5, <2>6, WorkAdds
<1> QED BY <1>0, <1>2, <1>3, SaveMove, KeysAndFaults DEF UseExistingVpc, Creation, CallPcs, keys

LEMMA ModifyVpcKeeps == ASSUME IInv, ModifyVpc PROVE IInv'
<1>0. /\ pc \in CallPcs /\ ~work.deleting /\ work \in Object
      /\ Provenance(work) /\ Born({made} \ {NoId}) /\ made \in Ids \cup {NoId}
  BY Unmarked DEF ModifyVpc, IInv, TypeOK, ExistingOnly, NamesAreBorn, CallPcs,
                  CreatingPcs, CreationPhases
<1>1. made \in Ids /\ work.vpc = NoId /\ config.exVpc = NoId
  BY <1>0 DEF ModifyVpc, IInv, AtPc, OneToMake, HalfMade, MayMake
<1>2. CloudMove
  BY CloudSame DEF ModifyVpc
<1>3. WorkMove
  <2>1. work' = [work EXCEPT !.vpc = made, !.phase = "WaitingVPC"]
    BY DEF ModifyVpc, Save
  <2>2. work' \in Object
    <3>1. "WaitingVPC" \in Phases
      BY DEF Phases, CreationPhases
    <3> QED BY <1>0, <1>1, <2>1, <3>1, IdsFacts DEF Object
  <2>3. SameMarks /\ work'.phase # "Deleting"
    BY <1>0, <2>1 DEF Object, SameMarks
  <2>4. /\ Recorded(work) \subseteq Recorded(work')
        /\ Recorded(work') \subseteq Recorded(work) \cup {made}
    BY <1>0, <1>1, <2>1 DEF Object, Recorded
  <2>5. \A i \in {made} : cloud'[i].kind # "none"
    BY <1>0, <1>1, <1>2, IdsFacts DEF Born, CloudMove
  <2>6. Provenance(work')
    BY <1>0, <1>1, <2>1 DEF Object, Provenance
  <2> QED BY <1>0, <1>2, <2>2, <2>3, <2>4, <2>5, <2>6, WorkAdds
<1> QED BY <1>0, <1>2, <1>3, SaveMove, KeysAndFaults DEF ModifyVpc, Creation, CallPcs, keys

LEMMA UseExistingIgwKeeps == ASSUME IInv, UseExistingIgw PROVE IInv'
<1>0. /\ pc \in CallPcs /\ ~work.deleting /\ work \in Object
      /\ Provenance(work) /\ Born({made} \ {NoId}) /\ made \in Ids \cup {NoId}
  BY Unmarked DEF UseExistingIgw, IInv, TypeOK, ExistingOnly, NamesAreBorn, CallPcs,
                  CreatingPcs, CreationPhases
<1>1. config.exIgw \in Foreign /\ work.igw = NoId
  BY ConfigCounts DEF UseExistingIgw, ConfigType, IInv, AtPc, OneToMake
<1>2. CloudMove
  BY CloudSame DEF UseExistingIgw
<1>3. WorkMove
  <2>1. work' = [work EXCEPT !.igw = config.exIgw, !.phase = "CreatingSubnets"]
    BY DEF UseExistingIgw, Save
  <2>2. work' \in Object
    <3>1. "CreatingSubnets" \in Phases
      BY DEF Phases, CreationPhases
    <3> QED BY <1>0, <1>1, <2>1, <3>1, IdsFacts DEF Object
  <2>3. SameMarks /\ work'.phase # "Deleting"
    BY <1>0, <2>1 DEF Object, SameMarks
  <2>4. /\ Recorded(work) \subseteq Recorded(work')
        /\ Recorded(work') \subseteq Recorded(work) \cup {config.exIgw}
    BY <1>0, <1>1, <2>1 DEF Object, Recorded
  <2>5. \A i \in {config.exIgw} : cloud'[i].kind # "none"
    BY <1>1, <1>2, ForeignAreBorn DEF CloudMove
  <2>6. Provenance(work')
    BY <1>0, <1>1, <2>1 DEF Object, Provenance
  <2> QED BY <1>0, <1>2, <2>2, <2>3, <2>4, <2>5, <2>6, WorkAdds
<1> QED BY <1>0, <1>2, <1>3, SaveMove, KeysAndFaults DEF UseExistingIgw, Creation, CallPcs, keys

LEMMA UseExistingSubnetsKeeps == ASSUME IInv, UseExistingSubnets PROVE IInv'
<1>0. /\ pc \in CallPcs /\ ~work.deleting /\ work \in Object
      /\ Provenance(work) /\ Born({made} \ {NoId}) /\ made \in Ids \cup {NoId}
  BY Unmarked DEF UseExistingSubnets, IInv, TypeOK, ExistingOnly, NamesAreBorn, CallPcs,
                  CreatingPcs, CreationPhases
<1>1. /\ config.exPub \subseteq Foreign /\ config.exPriv \subseteq Foreign
      /\ ExistingSubnets = config.exPub \cup config.exPriv
      /\ work.pub = {} /\ work.priv = {}
  BY ConfigCounts DEF UseExistingSubnets, ExistingSubnets, ConfigType, IInv, AtPc, ListToFill
<1>2. CloudMove
  BY CloudSame DEF UseExistingSubnets
<1>3. WorkMove
  <2>1. work' = [work EXCEPT !.pub = config.exPub, !.priv = config.exPriv,
                     !.avail = @ \cup ExistingSubnets, !.phase = "WaitingSubnets"]
    BY DEF UseExistingSubnets, Save
  <2>2. work' \in Object
    <3>1. "WaitingSubnets" \in Phases
      BY DEF Phases, CreationPhases
    <3> QED BY <1>0, <1>1, <2>1, <3>1, IdsFacts DEF Object
  <2>3. SameMarks /\ work'.phase # "Deleting"
    BY <1>0, <2>1 DEF Object, SameMarks
  <2>4. /\ Recorded(work) \subseteq Recorded(work')
        /\ Recorded(work') \subseteq Recorded(work) \cup (config.exPub \cup config.exPriv)
    BY <1>0, <1>1, <2>1 DEF Object, Recorded
  <2>5. \A i \in (config.exPub \cup config.exPriv) : cloud'[i].kind # "none"
    BY <1>1, <1>2, ForeignAreBorn DEF CloudMove
  <2>6. Provenance(work')
    BY <1>0, <1>1, <2>1 DEF Object, Provenance
  <2> QED BY <1>0, <1>2, <2>2, <2>3, <2>4, <2>5, <2>6, WorkAdds
<1> QED BY <1>0, <1>2, <1>3, SaveMove, KeysAndFaults DEF UseExistingSubnets, Creation, CallPcs, keys

LEMMA UseExistingNatsKeeps == ASSUME IInv, UseExistingNats PROVE IInv'
<1>0. /\ pc \in CallPcs /\ ~work.deleting /\ work \in Object
      /\ Provenance(work) /\ Born({made} \ {NoId}) /\ made \in Ids \cup {NoId}
  BY Unmarked DEF UseExistingNats, IInv, TypeOK, ExistingOnly, NamesAreBorn, CallPcs,
                  CreatingPcs, CreationPhases
<1>1. config.exNats \subseteq Foreign /\ work.nats = {}
  BY ConfigCounts DEF UseExistingNats, ConfigType, IInv, AtPc, ListToFill
<1>2. CloudMove
  BY CloudSame DEF UseExistingNats
<1>3. WorkMove
  <2>1. work' = [work EXCEPT !.nats = config.exNats, !.phase = "WaitingNATGateway",
                     !.avail = @ \cup config.exNats]
    BY DEF UseExistingNats, Save
  <2>2. work' \in Object
    <3>1. "WaitingNATGateway" \in Phases
      BY DEF Phases, CreationPhases
    <3> QED BY <1>0, <1>1, <2>1, <3>1, IdsFacts DEF Object
  <2>3. SameMarks /\ work'.phase # "Deleting"
    BY <1>0, <2>1 DEF Object, SameMarks
  <2>4. /\ Recorded(work) \subseteq Recorded(work')
        /\ Recorded(work') \subseteq Recorded(work) \cup config.exNats
    BY <1>0, <1>1, <2>1 DEF Object, Recorded
  <2>5. \A i \in config.exNats : cloud'[i].kind # "none"
    BY <1>1, <1>2, ForeignAreBorn DEF CloudMove
  <2>6. Provenance(work')
    BY <1>0, <1>1, <2>1 DEF Object, Provenance
  <2> QED BY <1>0, <1>2, <2>2, <2>3, <2>4, <2>5, <2>6, WorkAdds
<1> QED BY <1>0, <1>2, <1>3, SaveMove, KeysAndFaults DEF UseExistingNats, Creation, CallPcs, keys

LEMMA UseExistingRouteTablesKeeps == ASSUME IInv, UseExistingRouteTables PROVE IInv'
<1>0. /\ pc \in CallPcs /\ ~work.deleting /\ work \in Object
      /\ Provenance(work) /\ Born({made} \ {NoId}) /\ made \in Ids \cup {NoId}
  BY Unmarked DEF UseExistingRouteTables, IInv, TypeOK, ExistingOnly, NamesAreBorn, CallPcs,
                  CreatingPcs, CreationPhases
<1>1. config.exRts \subseteq Foreign /\ work.rts = {}
  BY ConfigCounts DEF UseExistingRouteTables, ConfigType, IInv, AtPc, ListToFill
<1>2. CloudMove
  BY CloudSame DEF UseExistingRouteTables
<1>3. WorkMove
  <2>1. work' = Enter([work EXCEPT !.rts = config.exRts], AfterRouteTables)
    BY DEF UseExistingRouteTables, Save
  <2>2. work' \in Object
    <3>1. AfterRouteTables \in Phases
      BY DEF Phases, CreationPhases, AfterRouteTables
    <3>2. [work EXCEPT !.rts = config.exRts] \in Object
      BY <1>0, <1>1, IdsFacts DEF Object
    <3> HIDE DEF AfterRouteTables
    <3> QED BY <2>1, <3>1, <3>2 DEF Object, Enter
  <2>3. SameMarks /\ work'.phase # "Deleting"
    BY <1>0, <2>1 DEF Object, SameMarks, Enter, AfterRouteTables
  <2>4. /\ Recorded(work) \subseteq Recorded(work')
        /\ Recorded(work') \subseteq Recorded(work) \cup config.exRts
    BY <1>0, <1>1, <2>1 DEF Object, Recorded, Enter
  <2>5. \A i \in config.exRts : cloud'[i].kind # "none"
    BY <1>1, <1>2, ForeignAreBorn DEF CloudMove
  <2>6. Provenance(work')
    BY <1>0, <1>1, <2>1 DEF Object, Provenance, Enter
  <2> QED BY <1>0, <1>2, <2>2, <2>3, <2>4, <2>5, <2>6, WorkAdds
<1> QED BY <1>0, <1>2, <1>3, SaveMove, KeysAndFaults DEF UseExistingRouteTables, Creation, CallPcs, keys

LEMMA UseExistingSecurityGroupsKeeps == ASSUME IInv, UseExistingSecurityGroups PROVE IInv'
<1>0. /\ pc \in CallPcs /\ ~work.deleting /\ work \in Object
      /\ Provenance(work) /\ Born({made} \ {NoId}) /\ made \in Ids \cup {NoId}
  BY Unmarked DEF UseExistingSecurityGroups, IInv, TypeOK, ExistingOnly, NamesAreBorn, CallPcs,
                  CreatingPcs, CreationPhases
<1>1. config.exSgs \subseteq Foreign /\ work.sgs = {}
  BY ConfigCounts DEF UseExistingSecurityGroups, ConfigType, IInv, AtPc, ListToFill
<1>2. CloudMove
  BY CloudSame DEF UseExistingSecurityGroups
<1>3. WorkMove
  <2>1. work' = Enter([work EXCEPT !.sgs = config.exSgs], AfterSecurityGroups)
    BY DEF UseExistingSecurityGroups, Save
  <2>2. work' \in Object
    <3>1. AfterSecurityGroups \in Phases
      BY DEF Phases, CreationPhases, AfterSecurityGroups
    <3>2. [work EXCEPT !.sgs = config.exSgs] \in Object
      BY <1>0, <1>1, IdsFacts DEF Object
    <3> HIDE DEF AfterSecurityGroups
    <3> QED BY <2>1, <3>1, <3>2 DEF Object, Enter
  <2>3. SameMarks /\ work'.phase # "Deleting"
    BY <1>0, <2>1 DEF Object, SameMarks, Enter, AfterSecurityGroups
  <2>4. /\ Recorded(work) \subseteq Recorded(work')
        /\ Recorded(work') \subseteq Recorded(work) \cup config.exSgs
    BY <1>0, <1>1, <2>1 DEF Object, Recorded, Enter
  <2>5. \A i \in config.exSgs : cloud'[i].kind # "none"
    BY <1>1, <1>2, ForeignAreBorn DEF CloudMove
  <2>6. Provenance(work')
    BY <1>0, <1>1, <2>1 DEF Object, Provenance, Enter
  <2> QED BY <1>0, <1>2, <2>2, <2>3, <2>4, <2>5, <2>6, WorkAdds
<1> QED BY <1>0, <1>2, <1>3, SaveMove, KeysAndFaults DEF UseExistingSecurityGroups, Creation, CallPcs, keys

-----------------------------------------------------------------------------
(* Creating, and filling the lists.                                        *)

LEMMA MayMakeAtCall == ASSUME MayMake PROVE pc \in CallPcs
BY DEF MayMake, CallPcs, CreatingPcs, CreationPhases

(* A creation phase goes on with its next call.                            *)
LEMMA StayMove ==
  ASSUME IInv, pc \in CallPcs, CloudMove, WorkMove, AtPc', pc' = pc, UNCHANGED workFresh,
         UNCHANGED <<kube, keys, faults>>, routed' \in SUBSET Ids,
         made' \in Ids \cup {NoId},
         made' # NoId => cloud'[made'].kind # "none"
  PROVE  IInv'
<1>1. PcMove
  <2>1. pc # "removeFinalizer" /\ pc \notin DeletingPcs
    BY DEF CallPcs, CreatingPcs, CreationPhases, DeletingPcs, DeletePhases
  <2> QED BY <2>1, Unmarked DEF PcMove, CallPcs, WorkMove
<1>2. OtherMoves
  BY KeysAndFaults DEF OtherMoves, keys
<1> QED BY <1>1, <1>2, LocalMove DEF CallPcs

(* A call whose resource is not entered yet.                               *)
LEMMA CreateKeeps ==
  ASSUME IInv, MayMake,
         NEW kind \in Kinds, NEW state \in States \ {"none"}, NEW slot \in Nat,
         NEW tagged \in BOOLEAN, NEW uses \in SUBSET Ids,
         Create(kind, state, slot, tagged, uses), Goto(pc), UNCHANGED work, Creation
  PROVE  IInv'
<1>1. /\ CloudMove
      /\ NewId \in Ids /\ cloud'[NewId].kind # "none"
  BY CloudCreated DEF Create
<1>2. WorkMove
  BY <1>1, WorkSame
<1>3. AtPc'
  BY DEF ExistingSubnets, AtPc, OneToMake, ListToFill, HalfMade, MayMake, ToDelete, IInv, Goto, Creation, kube
<1>4. made' = NewId /\ routed' = routed /\ routed \in SUBSET Ids
  BY DEF Create, Goto, IInv, TypeOK
<1> QED BY <1>1, <1>2, <1>3, <1>4, MayMakeAtCall, StayMove DEF Goto, Creation

LEMMA CreateVpcKeeps == ASSUME IInv, CreateVpc PROVE IInv'
<1>1. MayMake
  BY DEF CreateVpc, MayMake
<1>2. Create("vpc", "pending", 0, TRUE, {}) /\ Goto(pc) /\ UNCHANGED work /\ Creation
  BY DEF CreateVpc
<1>3. /\ "vpc" \in Kinds /\ "pending" \in States \ {"none"} /\ 0 \in Nat
      /\ {} \in SUBSET Ids
  BY DEF Kinds, States
<1> QED BY <1>1, <1>2, <1>3, CreateKeeps

LEMMA CreateInternetGatewayKeeps == ASSUME IInv, CreateInternetGateway PROVE IInv'
<1>1. MayMake
  BY DEF CreateInternetGateway, MayMake
<1>2. Create("igw", "available", 0, TRUE, {}) /\ Goto(pc) /\ UNCHANGED work /\ Creation
  BY DEF CreateInternetGateway
<1>3. /\ "igw" \in Kinds /\ "available" \in States \ {"none"} /\ 0 \in Nat
      /\ {} \in SUBSET Ids
  BY DEF Kinds, States
<1> QED BY <1>1, <1>2, <1>3, CreateKeeps

LEMMA AllocateAddressKeeps == ASSUME IInv, AllocateAddress PROVE IInv'
<1>1. MayMake
  BY DEF AllocateAddress, MissingNats, MayMake
<1>2. Create("eip", "available", 0, TRUE, {}) /\ Goto(pc) /\ UNCHANGED work /\ Creation
  BY DEF AllocateAddress
<1>3. /\ "eip" \in Kinds /\ "available" \in States \ {"none"} /\ 0 \in Nat
      /\ {} \in SUBSET Ids
  BY DEF Kinds, States
<1> QED BY <1>1, <1>2, <1>3, CreateKeeps

LEMMA VpcIsKnown == ASSUME IInv, pc \in WithVpc PROVE {work.vpc} \in SUBSET Ids
BY DEF IInv, TypeOK, Object, AtPc, OneToMake

LEMMA CreateRouteTableKeeps == ASSUME IInv, CreateRouteTable PROVE IInv'
<1>1. MayMake
  BY DEF CreateRouteTable, MayMake
<1>2. Create("rt", "available", 0, TRUE, {work.vpc}) /\ Goto(pc) /\ UNCHANGED work /\ Creation
  BY DEF CreateRouteTable
<1>3. {work.vpc} \in SUBSET Ids
  BY VpcIsKnown DEF CreateRouteTable, WithVpc, CreationPhases
<1>4. "rt" \in Kinds /\ "available" \in States \ {"none"} /\ 0 \in Nat
  BY DEF Kinds, States
<1> QED BY <1>1, <1>2, <1>3, <1>4, CreateKeeps

LEMMA CreateSubnetKeeps == ASSUME IInv, CreateSubnet PROVE IInv'
<1> DEFINE slot == IF MissingPub THEN Cardinality(work.pub) + 1
                   ELSE WantedPub + Cardinality(work.priv) + 1
<1>1. MayMake
  BY DEF CreateSubnet, MayMake
<1>2. CASE Clash("subnet", slot, work.vpc)
  <2>1. Abort /\ UNCHANGED cloud /\ Creation
    BY <1>2 DEF CreateSubnet
  <2> QED BY <2>1, <1>1, MayMakeAtCall, CloudSame, AbortKeeps, KeysAndFaults DEF Creation
<1>3. CASE ~Clash("subnet", slot, work.vpc)
  <2>1. Create("subnet", "pending", slot, TRUE, {work.vpc}) /\ Goto(pc)
          /\ UNCHANGED work /\ Creation
    BY <1>3 DEF CreateSubnet
  <2>2. {work.vpc} \in SUBSET Ids
    BY VpcIsKnown DEF CreateSubnet, WithVpc, CreationPhases
  <2>3. slot \in Nat
    <3>1. Cardinality(work.pub) \in Nat /\ Cardinality(work.priv) \in Nat
      BY Countable DEF IInv, TypeOK, Object
    <3> QED BY <3>1, ConfigCounts
  <2>4. "subnet" \in Kinds /\ "pending" \in States \ {"none"}
    BY DEF Kinds, States
  <2> HIDE DEF slot
  <2> QED BY <2>1, <2>2, <2>3, <2>4, <1>1, CreateKeeps
<1> QED BY <1>2, <1>3

LEMMA CreateSecurityGroupKeeps == ASSUME IInv, CreateSecurityGroup PROVE IInv'
<1> DEFINE slot == Cardinality(work.sgs) + 1
<1>1. MayMake
  BY DEF CreateSecurityGroup, MayMake
<1>2. CASE Clash("sg", slot, work.vpc)
  <2>1. Abort /\ UNCHANGED cloud /\ Creation
    BY <1>2 DEF CreateSecurityGroup
  <2> QED BY <2>1, <1>1, MayMakeAtCall, CloudSame, AbortKeeps, KeysAndFaults DEF Creation
<1>3. CASE ~Clash("sg", slot, work.vpc)
  <2>1. Create("sg", "available", slot, TRUE, {work.vpc}) /\ Goto(pc)
          /\ UNCHANGED work /\ Creation
    BY <1>3 DEF CreateSecurityGroup
  <2>2. {work.vpc} \in SUBSET Ids
    BY VpcIsKnown DEF CreateSecurityGroup, WithVpc, CreationPhases
  <2>3. slot \in Nat
    BY Countable DEF IInv, TypeOK, Object
  <2>4. "sg" \in Kinds /\ "available" \in States \ {"none"}
    BY DEF Kinds, States
  <2> HIDE DEF slot
  <2> QED BY <2>1, <2>2, <2>3, <2>4, <1>1, CreateKeeps
<1> QED BY <1>2, <1>3

LEMMA RecordSubnetKeeps == ASSUME IInv, RecordSubnet PROVE IInv'
<1>0. /\ pc \in CallPcs /\ ~work.deleting /\ work \in Object
      /\ Provenance(work) /\ made \in Ids /\ cloud[made].kind # "none"
      /\ ExistingSubnets = {} /\ work.phase # "Deleting"
  BY Unmarked, IdsFacts DEF RecordSubnet, IInv, TypeOK, ExistingOnly, NamesAreBorn, Born, AtPc,
       HalfMade, MayMake, InFlight, CallPcs, CreatingPcs, CreationPhases
<1>1. CloudMove
  BY CloudSame DEF RecordSubnet
<1>2. \/ work' = [work EXCEPT !.pub = @ \cup {made}]
      \/ work' = [work EXCEPT !.priv = @ \cup {made}]
  BY DEF RecordSubnet
<1>3. WorkMove
  <2>1. work' \in Object
    BY <1>0, <1>2 DEF Object
  <2>2. SameMarks /\ work'.phase = work.phase
    BY <1>0, <1>2 DEF Object, SameMarks
  <2>3. /\ Recorded(work) \subseteq Recorded(work')
        /\ Recorded(work') \subseteq Recorded(work) \cup {made}
    BY <1>0, <1>2 DEF Object, Recorded
  <2>4. Provenance(work')
    BY <1>0, <1>2 DEF Object, Provenance
  <2> QED BY <1>0, <1>1, <2>1, <2>2, <2>3, <2>4, WorkAdds DEF CloudMove
<1>4. AtPc'
  BY <1>0, <1>2 DEF ExistingSubnets, Object, RecordSubnet, Goto, IInv, AtPc, OneToMake, ListToFill,
       HalfMade, ToDelete, Creation, kube
<1>5. routed' \in SUBSET Ids /\ made' = NoId
  BY DEF RecordSubnet, Goto, IInv, TypeOK
<1> QED BY <1>0, <1>1, <1>3, <1>4, <1>5, StayMove DEF RecordSubnet, Goto, Creation

LEMMA AuthorizeIngressKeeps == ASSUME IInv, AuthorizeIngress PROVE IInv'
<1>0. /\ pc \in CallPcs /\ ~work.deleting /\ work \in Object
      /\ Provenance(work) /\ made \in Ids /\ cloud[made].kind # "none"
      /\ config.exSgs = {} /\ work.phase # "Deleting"
  BY Unmarked, IdsFacts DEF AuthorizeIngress, IInv, TypeOK, ExistingOnly, NamesAreBorn, Born, AtPc,
       HalfMade, MayMake, InFlight, CallPcs, CreatingPcs, CreationPhases
<1>1. CloudMove
  BY CloudSame DEF AuthorizeIngress
<1>2. work' = [work EXCEPT !.sgs = @ \cup {made}]
  BY DEF AuthorizeIngress
<1>3. WorkMove
  <2>1. work' \in Object
    BY <1>0, <1>2 DEF Object
  <2>2. SameMarks /\ work'.phase = work.phase
    BY <1>0, <1>2 DEF Object, SameMarks
  <2>3. /\ Recorded(work) \subseteq Recorded(work')
        /\ Recorded(work') \subseteq Recorded(work) \cup {made}
    BY <1>0, <1>2 DEF Object, Recorded
  <2>4. Provenance(work')
    BY <1>0, <1>2 DEF Object, Provenance
  <2> QED BY <1>0, <1>1, <2>1, <2>2, <2>3, <2>4, WorkAdds DEF CloudMove
<1>4. AtPc'
  BY <1>0, <1>2 DEF Object, AuthorizeIngress, Goto, IInv, AtPc, OneToMake, ListToFill,
       HalfMade, ToDelete, Creation, kube
<1>5. routed' \in SUBSET Ids /\ made' = NoId
  BY DEF AuthorizeIngress, Goto, IInv, TypeOK
<1> QED BY <1>0, <1>1, <1>3, <1>4, <1>5, StayMove DEF AuthorizeIngress, Goto, Creation

LEMMA CreateNatGatewayKeeps == ASSUME IInv, CreateNatGateway PROVE IInv'
<1> DEFINE taken  == UNION {cloud[n].uses : n \in work.nats}
           subnet == Pick(work.pub \ taken)
<1>0. /\ pc \in CallPcs /\ ~work.deleting /\ work \in Object
      /\ Provenance(work) /\ made \in Ids
      /\ config.exNats = {} /\ work.phase # "Deleting"
  BY Unmarked, IdsFacts DEF CreateNatGateway, IInv, TypeOK, ExistingOnly, AtPc,
       HalfMade, MayMake, InFlight, CallPcs, CreatingPcs, CreationPhases
<1>1. /\ CloudMove
      /\ NewId \in Ids /\ cloud'[NewId].kind # "none"
  <2>1. {made, subnet, work.vpc} \in SUBSET Ids
    <3>1. subnet \in work.pub
      BY PickIn DEF CreateNatGateway
    <3>2. {work.vpc} \in SUBSET Ids
      BY VpcIsKnown DEF CreateNatGateway, WithVpc, CreationPhases
    <3> HIDE DEF subnet
    <3> QED BY <1>0, <3>1, <3>2 DEF Object
  <2>2. "nat" \in Kinds /\ "pending" \in States \ {"none"} /\ 0 \in Nat
    BY DEF Kinds, States
  <2>3. Unused # {} /\ cloud' = Created("nat", "pending", 0, TRUE, {made, subnet, work.vpc})
    BY DEF CreateNatGateway
  <2> HIDE DEF subnet
  <2> QED BY <2>1, <2>2, <2>3, CloudCreated
<1>2. work' = [work EXCEPT !.nats = @ \cup {NewId}]
  BY DEF CreateNatGateway
<1>3. WorkMove
  <2>1. work' \in Object
    BY <1>0, <1>1, <1>2 DEF Object
  <2>2. SameMarks /\ work'.phase = work.phase
    BY <1>0, <1>2 DEF Object, SameMarks
  <2>3. /\ Recorded(work) \subseteq Recorded(work')
        /\ Recorded(work') \subseteq Recorded(work) \cup {NewId}
    BY <1>0, <1>2 DEF Object, Recorded
  <2>4. Provenance(work')
    BY <1>0, <1>2 DEF Object, Provenance
  <2> QED BY <1>0, <1>1, <2>1, <2>2, <2>3, <2>4, WorkAdds
<1>4. AtPc'
  BY <1>0, <1>2 DEF Object, CreateNatGateway, Goto, IInv, AtPc, OneToMake, ListToFill,
       HalfMade, ToDelete, Creation, kube
<1>5. routed' \in SUBSET Ids /\ made' = NoId
  BY DEF CreateNatGateway, Goto, IInv, TypeOK
<1> QED BY <1>0, <1>1, <1>3, <1>4, <1>5, StayMove DEF CreateNatGateway, Goto, Creation

LEMMA TargetsAreIds == ASSUME IInv PROVE Targets \in SUBSET Ids
<1> DEFINE served == UNION {cloud[r].assoc : r \in work.rts}
<1>1. work.pub \in SUBSET Ids /\ work.priv \in SUBSET Ids
  BY DEF IInv, TypeOK, Object
<1>2. ~(work.priv \subseteq served) => Pick(work.priv \ served) \in work.priv
  BY PickIn
<1> HIDE DEF served
<1>3. Targets \in {work.pub, work.priv, {}, {Pick(work.priv \ served)}}
      /\ (Targets = {Pick(work.priv \ served)} =>
             ~(work.priv \subseteq served) \/ Targets \in {work.pub, work.priv, {}})
  BY DEF Targets, served
<1> QED BY <1>1, <1>2, <1>3

LEMMA RecordRouteTableKeeps == ASSUME IInv, RecordRouteTable PROVE IInv'
<1>0. /\ pc \in CallPcs /\ ~work.deleting /\ work \in Object
      /\ Provenance(work) /\ made \in Ids /\ cloud[made].kind # "none"
      /\ config.exRts = {} /\ work.phase # "Deleting"
  BY Unmarked, IdsFacts DEF RecordRouteTable, IInv, TypeOK, ExistingOnly, NamesAreBorn, Born, AtPc,
       HalfMade, MayMake, InFlight, CallPcs, CreatingPcs, CreationPhases
<1>1. CloudMove
  BY <1>0, TargetsAreIds, CloudAssociated DEF RecordRouteTable
<1>2. \/ work' = work
      \/ work' = [work EXCEPT !.rts = @ \cup {made}]
  BY DEF RecordRouteTable
<1>3. WorkMove
  <2>1. work' \in Object
    BY <1>0, <1>2 DEF Object
  <2>2. SameMarks /\ work'.phase = work.phase
    BY <1>0, <1>2 DEF Object, SameMarks
  <2>3. /\ Recorded(work) \subseteq Recorded(work')
        /\ Recorded(work') \subseteq Recorded(work) \cup {made}
    BY <1>0, <1>2 DEF Object, Recorded
  <2>4. Provenance(work')
    BY <1>0, <1>2 DEF Object, Provenance
  <2> QED BY <1>0, <1>1, <2>1, <2>2, <2>3, <2>4, WorkAdds DEF CloudMove
<1>4. AtPc'
  BY <1>0, <1>2 DEF Object, RecordRouteTable, IInv, AtPc, OneToMake, ListToFill,
       HalfMade, ToDelete, Creation, kube
<1>5. routed' \in SUBSET Ids
  <2>1. work.rts # {} /\ config.ha => routed' = routed \cup {Pick(Unrouted)}
    BY DEF RecordRouteTable
  <2>2. work.rts # {} => Unrouted # {} /\ Unrouted \subseteq work.nats
    BY DEF RecordRouteTable, MissingRts, Unrouted
  <2> QED BY <1>0, <2>1, <2>2, PickIn DEF RecordRouteTable, IInv, TypeOK, Object
<1> QED BY <1>0, <1>1, <1>3, <1>4, <1>5, StayMove DEF RecordRouteTable, Creation

-----------------------------------------------------------------------------
(* The ends of the creation phases.                                        *)

(* The last step of a phase: no id changes.                                *)
LEMMA PhaseDone ==
  ASSUME IInv, pc \in CallPcs, UNCHANGED cloud, Creation,
         NEW p \in CreationPhases \cup {"Ready"},
         \/ Save([work EXCEPT !.phase = p])
         \/ Save(Enter(work, p))
  PROVE  IInv'
<1>1. CloudMove
  BY CloudSame
<1>2. p \in Phases \ {"Deleting"} /\ work.avail \in SUBSET Ids
      /\ (work.ready \/ p = "Ready") \in BOOLEAN
  BY DEF Phases, CreationPhases, IInv, TypeOK, Object
<1>3. \/ work' = [work EXCEPT !.phase = p]
      \/ work' = [work EXCEPT !.phase = p, !.ready = work.ready \/ p = "Ready"]
  BY DEF Save, Enter
<1>4. WorkMove
  BY <1>1, <1>2, <1>3, Unmarked, WorkPhase
<1> QED BY <1>1, <1>4, SaveMove, KeysAndFaults DEF Creation, keys, CallPcs

LEMMA SubnetsCreatedKeeps == ASSUME IInv, SubnetsCreated PROVE IInv'
BY PhaseDone DEF SubnetsCreated, CallPcs, CreatingPcs, CreationPhases

LEMMA NatsCreatedKeeps == ASSUME IInv, NatsCreated PROVE IInv'
BY PhaseDone DEF NatsCreated, CallPcs, CreatingPcs, CreationPhases

LEMMA RouteTablesCreatedKeeps == ASSUME IInv, RouteTablesCreated PROVE IInv'
<1>1. AfterRouteTables \in CreationPhases \cup {"Ready"}
  BY DEF AfterRouteTables, CreationPhases
<1>2. /\ pc = "CreatingRouteTables" /\ UNCHANGED cloud /\ Creation
      /\ Save(Enter(work, AfterRouteTables))
  BY DEF RouteTablesCreated
<1> QED BY <1>1, <1>2, PhaseDone DEF CallPcs, CreatingPcs, CreationPhases

LEMMA SecurityGroupsCreatedKeeps == ASSUME IInv, SecurityGroupsCreated PROVE IInv'
<1>1. AfterSecurityGroups \in CreationPhases \cup {"Ready"}
  BY DEF AfterSecurityGroups, CreationPhases
<1>2. /\ pc = "CreatingSecurityGroups" /\ UNCHANGED cloud /\ Creation
      /\ Save(Enter(work, AfterSecurityGroups))
  BY DEF SecurityGroupsCreated
<1> QED BY <1>1, <1>2, PhaseDone DEF CallPcs, CreatingPcs, CreationPhases

LEMMA ChecksKeep ==
  ASSUME IInv,
         \/ CheckVPCReady \/ CheckSubnetsReady \/ CheckNATGatewaysReady \/ CheckBastionReady
  PROVE  IInv'
<1>1. /\ work.pub \cup work.priv \in SUBSET Ids /\ work.nats \in SUBSET Ids
      /\ work.vpc \in Ids \cup {NoId} /\ work.bastion \in Ids \cup {NoId}
  BY DEF IInv, TypeOK, Object
<1>2. CASE CheckVPCReady
  <2>1. {work.vpc} \in SUBSET Ids
    BY <1>2, VpcIsKnown DEF CheckVPCReady, WithVpc, CreationPhases
  <2> QED BY <1>2, <2>1, WaitKeeps DEF CheckVPCReady, CallPcs, CreatingPcs, CreationPhases
<1>3. CASE CheckSubnetsReady
  <2>1. (IF NeedsNAT THEN "CreatingNATGateway" ELSE "CreatingRouteTables")
          \in CreationPhases \cup {"Ready"}
    BY DEF CreationPhases
  <2> QED BY <1>1, <1>3, <2>1, WaitKeeps DEF CheckSubnetsReady, CallPcs, CreatingPcs, CreationPhases
<1>4. CASE CheckNATGatewaysReady
  BY <1>1, <1>4, WaitKeeps DEF CheckNATGatewaysReady, CallPcs, CreatingPcs, CreationPhases
<1>5. CASE CheckBastionReady
  <2>1. {work.bastion} \in SUBSET Ids
    BY <1>1, <1>5 DEF CheckBastionReady, IInv, AtPc, OneToMake
  <2> QED BY <1>5, <2>1, WaitKeeps DEF CheckBastionReady, CallPcs, CreatingPcs, CreationPhases
<1> QED BY <1>2, <1>3, <1>4, <1>5

LEMMA AttachInternetGatewayKeeps == ASSUME IInv, AttachInternetGateway PROVE IInv'
<1>0. /\ pc \in CallPcs /\ ~work.deleting /\ work \in Object
      /\ Provenance(work) /\ made \in Ids /\ cloud[made].kind # "none"
      /\ config.exIgw = NoId /\ work.igw = NoId
  BY Unmarked, IdsFacts DEF AttachInternetGateway, IInv, TypeOK, ExistingOnly, NamesAreBorn, Born,
       AtPc, OneToMake, HalfMade, MayMake, CallPcs, CreatingPcs, CreationPhases
<1>1. CASE Abort /\ UNCHANGED cloud
  BY <1>0, <1>1, CloudSame, AbortKeeps, KeysAndFaults DEF AttachInternetGateway, Creation
<1>2. CASE /\ cloud' = [cloud EXCEPT ![made].uses = {work.vpc}]
           /\ Save([work EXCEPT !.igw = made, !.phase = "CreatingSubnets"])
  <2>1. {work.vpc} \in SUBSET Ids
    BY VpcIsKnown DEF AttachInternetGateway, WithVpc, CreationPhases
  <2>2. CloudMove
    BY <1>0, <1>2, <2>1, CloudUses
  <2>3. work' = [work EXCEPT !.igw = made, !.phase = "CreatingSubnets"]
    BY <1>2 DEF Save
  <2>4. work' \in Object
    <3>1. "CreatingSubnets" \in Phases
      BY DEF Phases, CreationPhases
    <3> QED BY <1>0, <2>3, <3>1 DEF Object
  <2>5. SameMarks /\ work'.phase # "Deleting"
    BY <1>0, <2>3 DEF Object, SameMarks
  <2>6. /\ Recorded(work) \subseteq Recorded(work')
        /\ Recorded(work') \subseteq Recorded(work) \cup {made}
    BY <1>0, <2>3 DEF Object, Recorded
  <2>7. Provenance(work')
    BY <1>0, <2>3 DEF Object, Provenance
  <2>8. WorkMove
    BY <1>0, <2>2, <2>4, <2>5, <2>6, <2>7, WorkAdds DEF CloudMove
  <2> QED BY <1>0, <1>2, <2>2, <2>8, SaveMove, KeysAndFaults
          DEF AttachInternetGateway, Creation, keys, CallPcs
<1> QED BY <1>1, <1>2 DEF AttachInternetGateway

LEMMA RouteTableFailsKeeps == ASSUME IInv, RouteTableFails PROVE IInv'
<1>0. pc \in CallPcs /\ made \in Ids
  BY DEF RouteTableFails, IInv, TypeOK, CallPcs, CreatingPcs, CreationPhases
<1>1. PICK done \in SUBSET (Targets \ Held(made)) : cloud' = Associated(made, done)
  BY DEF RouteTableFails
<1>2. CloudMove
  BY <1>0, <1>1, TargetsAreIds, CloudAssociated
<1> QED BY <1>0, <1>2, AbortKeeps, FaultCounts, KeysAndFaults DEF RouteTableFails

LEMMA CreateBastionSecurityGroupKeeps ==
  ASSUME IInv, CreateBastionSecurityGroup PROVE IInv'
<1>0. /\ pc \in CallPcs /\ ~work.deleting /\ work \in Object
      /\ Provenance(work) /\ work.bsg = NoId
  BY Unmarked DEF CreateBastionSecurityGroup, IInv, TypeOK, ExistingOnly,
       AtPc, OneToMake, CallPcs, CreatingPcs, CreationPhases
<1>1. CASE Abort /\ UNCHANGED cloud
  BY <1>0, <1>1, CloudSame, AbortKeeps, KeysAndFaults DEF CreateBastionSecurityGroup, Creation
<1>2. CASE /\ Unused # {}
           /\ cloud' = Created("sg", "available", 0, TRUE, {work.vpc})
           /\ Save([work EXCEPT !.bsg = NewId, !.phase = "CreatingBastionInstance"])
  <2>1. /\ CloudMove
        /\ NewId \in Ids /\ cloud'[NewId].kind # "none"
    <3>1. {work.vpc} \in SUBSET Ids
      BY VpcIsKnown DEF CreateBastionSecurityGroup, WithVpc, CreationPhases
    <3>2. "sg" \in Kinds /\ "available" \in States \ {"none"} /\ 0 \in Nat
      BY DEF Kinds, States
    <3> QED BY <1>2, <3>1, <3>2, CloudCreated
  <2>2. work' = [work EXCEPT !.bsg = NewId, !.phase = "CreatingBastionInstance"]
    BY <1>2 DEF Save
  <2>3. work' \in Object
    <3>1. "CreatingBastionInstance" \in Phases
      BY DEF Phases, CreationPhases
    <3> QED BY <1>0, <2>1, <2>2, <3>1 DEF Object
  <2>4. SameMarks /\ work'.phase # "Deleting"
    BY <1>0, <2>2 DEF Object, SameMarks
  <2>5. /\ Recorded(work) \subseteq Recorded(work')
        /\ Recorded(work') \subseteq Recorded(work) \cup {NewId}
    BY <1>0, <2>2 DEF Object, Recorded
  <2>6. Provenance(work')
    BY <1>0, <2>2 DEF Object, Provenance
  <2>7. WorkMove
    BY <1>0, <2>1, <2>3, <2>4, <2>5, <2>6, WorkAdds
  <2> QED BY <1>0, <1>2, <2>1, <2>7, SaveMove, KeysAndFaults
          DEF CreateBastionSecurityGroup, Creation, keys, CallPcs
<1> QED BY <1>1, <1>2 DEF CreateBastionSecurityGroup

LEMMA RunInstanceKeeps == ASSUME IInv, RunInstance PROVE IInv'
<1>0. /\ pc \in CallPcs /\ ~work.deleting /\ work \in Object
      /\ Provenance(work) /\ work.bastion = NoId /\ work.bsg # NoId /\ work.pub # {}
  BY Unmarked DEF RunInstance, IInv, TypeOK, ExistingOnly,
       AtPc, OneToMake, CallPcs, CreatingPcs, CreationPhases
<1>1. /\ CloudMove
      /\ NewId \in Ids /\ cloud'[NewId].kind # "none"
  <2>1. {work.vpc, Pick(work.pub), work.bsg} \in SUBSET Ids
    <3>1. {work.vpc} \in SUBSET Ids
      BY VpcIsKnown DEF RunInstance, WithVpc, CreationPhases
    <3> QED BY <1>0, <3>1, PickIn DEF Object
  <2>2. "instance" \in Kinds /\ "pending" \in States \ {"none"} /\ 0 \in Nat
        /\ (~config.ownName) \in BOOLEAN
    BY DEF Kinds, States
  <2> QED BY <2>1, <2>2, CloudCreated DEF RunInstance
<1>2. work' = [work EXCEPT !.bastion = NewId, !.phase = "WaitingBastionInstance"]
  BY DEF RunInstance, Save
<1>3. WorkMove
  <2>1. work' \in Object
    <3>1. "WaitingBastionInstance" \in Phases
      BY DEF Phases, CreationPhases
    <3> QED BY <1>0, <1>1, <1>2, <3>1 DEF Object
  <2>2. SameMarks /\ work'.phase # "Deleting"
    BY <1>0, <1>2 DEF Object, SameMarks
  <2>3. /\ Recorded(work) \subseteq Recorded(work')
        /\ Recorded(work') \subseteq Recorded(work) \cup {NewId}
    BY <1>0, <1>2 DEF Object, Recorded
  <2>4. Provenance(work')
    BY <1>0, <1>2 DEF Object, Provenance
  <2> QED BY <1>0, <1>1, <2>1, <2>2, <2>3, <2>4, WorkAdds
<1> QED BY <1>0, <1>1, <1>3, SaveMove, KeysAndFaults DEF RunInstance, Creation, keys, CallPcs

(* Within the creation of the bastion, only the keys change.               *)
LEMMA BastionMove ==
  ASSUME IInv,
         pc \in {"CreatingBastionInstance", "StoreKey"},
         pc' \in {"StoreKey", "RunInstance"}, work.pub # {},
         UNCHANGED <<cloud, kube, work, workFresh, made, routed, faults>>,
         keypair' \in BOOLEAN, secret' \in BOOLEAN
  PROVE  IInv'
<1>0. pc \in CallPcs
  BY DEF CallPcs, CreatingPcs, CreationPhases
<1>1. CloudMove /\ WorkMove
  BY CloudSame, WorkSame
<1>2. PcMove
  <2>1. made = NoId /\ work.vpc # NoId /\ work.bsg # NoId /\ work.bastion = NoId
    BY DEF IInv, AtPc, OneToMake, HalfMade, MayMake, WithVpc, CreationPhases
  <2>2. AtPc'
    BY <2>1 DEF AtPc, OneToMake, ListToFill, HalfMade, ToDelete
  <2> QED BY <1>0, <2>2, Unmarked DEF PcMove, CreatingPcs, DeletingPcs, DeletePhases
<1>3. OtherMoves
  <2>1. made = NoId
    BY DEF IInv, AtPc, HalfMade, MayMake
  <2> QED BY <2>1, KeysAndFaults DEF OtherMoves, IInv, TypeOK
<1> QED BY <1>0, <1>1, <1>2, <1>3, LocalMove DEF CallPcs

LEMMA PrepareBastionKeeps == ASSUME IInv, PrepareBastion PROVE IInv'
<1>0. pc = "CreatingBastionInstance" /\ pc \in CallPcs
  BY DEF PrepareBastion, CallPcs, CreatingPcs, CreationPhases
<1>1. CASE work.pub = {}
  BY <1>0, <1>1, CloudSame, AbortKeeps, KeysAndFaults DEF PrepareBastion, keys
<1>2. CASE work.pub # {}
  BY <1>0, <1>2, BastionMove, KeysAndFaults DEF PrepareBastion
<1> QED BY <1>1, <1>2

LEMMA StoreKeyKeeps == ASSUME IInv, StoreKey PROVE IInv'
<1>1. work.pub # {}
  BY DEF StoreKey, IInv, AtPc, OneToMake
<1> QED BY <1>1, BastionMove, KeysAndFaults DEF StoreKey

-----------------------------------------------------------------------------
(* Deletion.                                                               *)

LEMMA WorkDrops ==
  ASSUME IInv, CloudMove, work' \in Object, SameMarks, work'.phase = work.phase,
         Recorded(work') \subseteq Recorded(work), Provenance(work'),
         \A i \in Recorded(work) \ Recorded(work') : Released(i)'
  PROVE  WorkMove
<1>1. \A i \in Recorded(work) : cloud'[i].kind # "none"
  BY RecordedIds, BornStays DEF IInv, TypeOK, NamesAreBorn
<1> QED BY <1>1 DEF WorkMove, SameMarks, IInv, InFlight

LEMMA DeletePhaseIsDeleting == ASSUME pc \in DeletePhases PROVE pc \in DeletingPcs
BY DEF DeletingPcs

(* The copy goes back as it is.                                            *)
LEMMA SaveWorkKeeps ==
  ASSUME IInv, pc \in DeletePhases, CloudMove, Save(work),
         UNCHANGED <<kube, keys>>, faults' \in 0 .. MaxFaults
  PROVE  IInv'
<1>1. WorkMove
  BY WorkSame DEF Save
<1> QED BY <1>1, SaveMove, DeletePhaseIsDeleting, KeysAndFaults DEF keys

LEMMA RetryKeeps ==
  ASSUME IInv, pc \in DeletePhases, Retry,
         UNCHANGED <<kube, keys>>, faults' \in 0 .. MaxFaults
  PROVE  IInv'
BY CloudSame, SaveWorkKeeps DEF Retry

LEMMA DeleteCallFailsKeeps == ASSUME IInv, DeleteCallFails PROVE IInv'
BY RetryKeeps, FaultCounts DEF DeleteCallFails

(* One resource, and with it its record, goes.                             *)
LEMMA DropKeeps ==
  ASSUME IInv, pc \in DeletePhases, CloudMove,
         NEW o \in Object, NEW i \in Ids, Save(o),
         SameMarks, o.phase = work.phase,
         Recorded(o) \subseteq Recorded(work),
         Recorded(work) \subseteq Recorded(o) \cup {i},
         Provenance(o), Released(i)',
         UNCHANGED <<kube, keys>>, faults' \in 0 .. MaxFaults
  PROVE  IInv'
<1>1. work' = o
  BY DEF Save
<1>2. WorkMove
  BY <1>1, WorkDrops
<1> QED BY <1>2, SaveMove, DeletePhaseIsDeleting, KeysAndFaults DEF keys

LEMMA DeleteOrWaitKeeps ==
  ASSUME IInv, pc \in DeletePhases, NEW o \in Object, NEW i \in Recorded(work),
         DeleteOrWait(i, o), Deletion,
         o.exists = work.exists, o.deleting = work.deleting,
         o.finalizer = work.finalizer, o.phase = work.phase,
         Recorded(o) \subseteq Recorded(work),
         Recorded(work) \subseteq Recorded(o) \cup {i},
         Provenance(o)
  PROVE  IInv'
<1>1. i \in Ids /\ cloud[i].kind # "none"
  BY RecordedIds DEF IInv, TypeOK, NamesAreBorn, Born
<1>2. CASE Live(i) /\ InUse(i)
  BY <1>2, RetryKeeps, KeysAndFaults DEF DeleteOrWait, Deletion
<1>3. CASE ~(Live(i) /\ InUse(i))
  <2>1. cloud' = InState(i, "deleted") /\ Save(o)
    BY <1>3 DEF DeleteOrWait
  <2>2. "deleted" \in States \ {"none"}
    BY DEF States
  <2>3. CloudMove /\ cloud'[i].state = "deleted"
    BY <1>1, <2>1, <2>2, CloudInState
  <2>4. Released(i)'
    BY <2>3 DEF Released
  <2>5. SameMarks
    BY <2>1 DEF Save, SameMarks
  <2> QED BY <1>1, <2>1, <2>3, <2>4, <2>5, DropKeeps, KeysAndFaults DEF Deletion
<1> QED BY <1>2, <1>3

LEMMA WorkFacts ==
  ASSUME IInv PROVE work \in Object /\ Provenance(work) /\ Born(Recorded(work))
BY DEF IInv, TypeOK, ExistingOnly, NamesAreBorn

LEMMA DeleteBastionSGKeeps == ASSUME IInv, DeleteBastionSG PROVE IInv'
<1> DEFINE o == [work EXCEPT !.bsg = NoId]
<1>1. work.bsg # NoId /\ pc \in DeletePhases
  BY DEF DeleteBastionSG, IInv, AtPc, ToDelete, DeletePhases
<1>2. /\ o \in Object
      /\ o.exists = work.exists /\ o.deleting = work.deleting
      /\ o.finalizer = work.finalizer /\ o.phase = work.phase
  BY WorkFacts DEF Object
<1>3. /\ work.bsg \in Recorded(work)
      /\ Recorded(o) \subseteq Recorded(work)
      /\ Recorded(work) \subseteq Recorded(o) \cup {work.bsg}
  BY <1>1, WorkFacts DEF Object, Recorded
<1>4. Provenance(o)
  BY WorkFacts DEF Object, Provenance
<1>5. DeleteOrWait(work.bsg, o) /\ Deletion
  BY DEF DeleteBastionSG
<1> HIDE DEF o
<1> QED BY <1>1, <1>2, <1>3, <1>4, <1>5, DeleteOrWaitKeeps

LEMMA DeleteVpcKeeps == ASSUME IInv, DeleteVpc PROVE IInv'
<1> DEFINE o == [work EXCEPT !.vpc = NoId]
<1>1. work.vpc # NoId /\ pc \in DeletePhases
  BY DEF DeleteVpc, IInv, AtPc, ToDelete, DeletePhases
<1>2. /\ o \in Object
      /\ o.exists = work.exists /\ o.deleting = work.deleting
      /\ o.finalizer = work.finalizer /\ o.phase = work.phase
  BY WorkFacts DEF Object
<1>3. /\ work.vpc \in Recorded(work)
      /\ Recorded(o) \subseteq Recorded(work)
      /\ Recorded(work) \subseteq Recorded(o) \cup {work.vpc}
  BY <1>1, WorkFacts DEF Object, Recorded
<1>4. Provenance(o)
  BY WorkFacts DEF Object, Provenance
<1>5. DeleteOrWait(work.vpc, o) /\ Deletion
  BY DEF DeleteVpc
<1> HIDE DEF o
<1> QED BY <1>1, <1>2, <1>3, <1>4, <1>5, DeleteOrWaitKeeps

LEMMA DeleteSecurityGroupKeeps == ASSUME IInv, DeleteSecurityGroup PROVE IInv'
<1> DEFINE sg == Pick(work.sgs)
           o  == [work EXCEPT !.sgs = @ \ {sg}]
<1>1. sg \in work.sgs /\ pc \in DeletePhases
  BY PickIn DEF DeleteSecurityGroup, IInv, AtPc, ToDelete, DeletePhases
<1>2. DeleteOrWait(sg, o) /\ Deletion
  BY DEF DeleteSecurityGroup
<1> HIDE DEF sg
<1>3. /\ o \in Object
      /\ o.exists = work.exists /\ o.deleting = work.deleting
      /\ o.finalizer = work.finalizer /\ o.phase = work.phase
  BY WorkFacts DEF Object
<1>4. /\ sg \in Recorded(work)
      /\ Recorded(o) \subseteq Recorded(work)
      /\ Recorded(work) \subseteq Recorded(o) \cup {sg}
  BY <1>1, WorkFacts DEF Object, Recorded
<1>5. Provenance(o)
  BY WorkFacts DEF Object, Provenance
<1> HIDE DEF o
<1> QED BY <1>1, <1>2, <1>3, <1>4, <1>5, DeleteOrWaitKeeps

LEMMA DeleteSubnetKeeps == ASSUME IInv, DeleteSubnet PROVE IInv'
<1> DEFINE subnet == IF work.pub # {} THEN Pick(work.pub) ELSE Pick(work.priv)
           o == [work EXCEPT !.pub = @ \ {subnet}, !.priv = @ \ {subnet}]
<1>1. subnet \in work.pub \cup work.priv /\ pc \in DeletePhases
  BY PickIn DEF DeleteSubnet, IInv, AtPc, ToDelete, DeletePhases
<1>2. DeleteOrWait(subnet, o) /\ Deletion
  BY DEF DeleteSubnet
<1> HIDE DEF subnet
<1>3. /\ o \in Object
      /\ o.exists = work.exists /\ o.deleting = work.deleting
      /\ o.finalizer = work.finalizer /\ o.phase = work.phase
  BY WorkFacts DEF Object
<1>4. /\ subnet \in Recorded(work)
      /\ Recorded(o) \subseteq Recorded(work)
      /\ Recorded(work) \subseteq Recorded(o) \cup {subnet}
  BY <1>1, WorkFacts DEF Object, Recorded
<1>5. Provenance(o)
  BY WorkFacts DEF Object, Provenance
<1> HIDE DEF o
<1> QED BY <1>1, <1>2, <1>3, <1>4, <1>5, DeleteOrWaitKeeps

LEMMA NotLiveIsReleased ==
  ASSUME IInv, NEW i \in Ids, cloud[i].state # "none", ~Live(i), CloudMove
  PROVE  Released(i)'
BY DEF IInv, TypeOK, Resource, States, Live, LiveStates, CloudMove, Released

LEMMA DeleteBastionKeeps == ASSUME IInv, DeleteBastion PROVE IInv'
<1>0. PICK i : i = work.bastion
  OBVIOUS
<1>1. /\ pc \in DeletePhases /\ i \in Recorded(work)
      /\ i \in Ids /\ cloud[i].kind # "none"
  BY <1>0, WorkFacts DEF DeleteBastion, DeletePhases, Recorded, Object, Born
<1>2. CASE Live(i)
  <2>1. cloud' = InState(i, "deleting") /\ Save(work)
    BY <1>0, <1>2 DEF DeleteBastion
  <2>2. "deleting" \in States \ {"none"} /\ cloud[i].state # "deleted"
    BY <1>2 DEF States, Live, LiveStates
  <2>3. CloudMove
    BY <1>1, <2>1, <2>2, CloudInState
  <2> QED BY <1>1, <2>1, <2>3, SaveWorkKeeps, KeysAndFaults DEF DeleteBastion, Deletion
<1>3. CASE ~Live(i)
  <2> DEFINE o == [work EXCEPT !.bastion = NoId]
  <2>1. UNCHANGED cloud /\ Save(o) /\ Deletion
    BY <1>0, <1>3 DEF DeleteBastion
  <2>2. CloudMove /\ Released(i)'
    BY <1>1, <1>3, <2>1, CloudSame, NotLiveIsReleased DEF IInv, CloudSane
  <2>3. /\ o \in Object
        /\ o.exists = work.exists /\ o.deleting = work.deleting
        /\ o.finalizer = work.finalizer /\ o.phase = work.phase
    BY WorkFacts DEF Object
  <2>4. /\ Recorded(o) \subseteq Recorded(work)
        /\ Recorded(work) \subseteq Recorded(o) \cup {i}
    BY <1>0, WorkFacts DEF Object, Recorded
  <2>5. Provenance(o)
    BY WorkFacts DEF Object, Provenance
  <2>6. SameMarks
    BY <2>1, <2>3 DEF Save, SameMarks
  <2> HIDE DEF o
  <2> QED BY <1>1, <2>1, <2>2, <2>3, <2>4, <2>5, <2>6, DropKeeps, KeysAndFaults DEF Deletion
<1> QED BY <1>2, <1>3

LEMMA TerminateOrphanKeeps == ASSUME IInv, TerminateOrphan PROVE IInv'
<1> DEFINE i == Pick(OrphanBastions)
<1>1. /\ pc \in DeletePhases /\ i \in OrphanBastions
      /\ cloud' = InState(i, "deleting") /\ Save(work) /\ Deletion
  BY PickIn DEF TerminateOrphan, DeletePhases
<1> HIDE DEF i
<1>2. i \in Ids /\ cloud[i].kind # "none" /\ cloud[i].state # "deleted"
  BY <1>1 DEF OrphanBastions, InVpc, LiveOf, Live, LiveStates
<1>3. "deleting" \in States \ {"none"}
  BY DEF States
<1>4. CloudMove
  BY <1>1, <1>2, <1>3, CloudInState
<1> QED BY <1>1, <1>4, SaveWorkKeeps, KeysAndFaults DEF Deletion

LEMMA DeleteOrphanRtKeeps == ASSUME IInv, DeleteOrphanRt PROVE IInv'
<1> DEFINE rt == Pick(OrphanRts)
<1>1. /\ pc \in DeletePhases /\ rt \in OrphanRts
      /\ cloud' = TableDeleted(rt) /\ Save(work) /\ Deletion
  BY PickIn DEF DeleteOrphanRt, DeletePhases
<1> HIDE DEF rt
<1>2. rt \in Ids /\ cloud[rt].kind # "none"
  BY <1>1 DEF OrphanRts, InVpc, LiveOf, Live, LiveStates
<1>3. CloudMove
  BY <1>1, <1>2, CloudTableDeleted
<1> QED BY <1>1, <1>3, SaveWorkKeeps, KeysAndFaults DEF Deletion

LEMMA DeleteRouteTableKeeps == ASSUME IInv, DeleteRouteTable PROVE IInv'
<1>0. PICK rt : rt = Pick(work.rts)
  OBVIOUS
<1> DEFINE o == [work EXCEPT !.rts = @ \ {rt}]
<1>1. rt \in work.rts /\ pc \in DeletePhases
  BY <1>0, PickIn DEF DeleteRouteTable, IInv, AtPc, ToDelete, DeletePhases
<1>2. cloud' = TableDeleted(rt) /\ Save(o) /\ Deletion
  BY <1>0 DEF DeleteRouteTable
<1>3. /\ o \in Object
      /\ o.exists = work.exists /\ o.deleting = work.deleting
      /\ o.finalizer = work.finalizer /\ o.phase = work.phase
  BY WorkFacts DEF Object
<1>4. /\ rt \in Recorded(work)
      /\ Recorded(o) \subseteq Recorded(work)
      /\ Recorded(work) \subseteq Recorded(o) \cup {rt}
  BY <1>1, WorkFacts DEF Object, Recorded
<1>5. Provenance(o)
  BY WorkFacts DEF Object, Provenance
<1> HIDE DEF o
<1>6. rt \in Ids /\ cloud[rt].kind # "none"
  BY <1>4, WorkFacts, RecordedIds DEF Born
<1>7. CloudMove /\ Released(rt)'
  BY <1>2, <1>6, CloudTableDeleted DEF Released
<1>8. SameMarks
  BY <1>2, <1>3 DEF Save, SameMarks
<1> QED BY <1>1, <1>2, <1>3, <1>4, <1>5, <1>6, <1>7, <1>8, DropKeeps, KeysAndFaults DEF Deletion

LEMMA DeleteIgwKeeps == ASSUME IInv, DeleteIgw PROVE IInv'
<1>0. PICK i : i = work.igw
  OBVIOUS
<1> DEFINE o == [work EXCEPT !.igw = NoId]
<1>1. /\ pc \in DeletePhases /\ i \in Recorded(work)
      /\ i \in Ids /\ cloud[i].kind # "none"
  BY <1>0, WorkFacts DEF DeleteIgw, DeletePhases, Recorded, Object, Born, IInv, AtPc, ToDelete
<1>2. \/ Retry /\ UNCHANGED faults
      \/ cloud' = GatewayDeleted(i) /\ Save(o) /\ UNCHANGED faults
      \/ cloud' = [cloud EXCEPT ![i].uses = {}] /\ Save(work) /\ Fault
  BY <1>0 DEF DeleteIgw
<1>3. UNCHANGED <<kube, keys>>
  BY DEF DeleteIgw
<1>4. CASE Retry /\ UNCHANGED faults
  BY <1>1, <1>3, <1>4, RetryKeeps, KeysAndFaults
<1>5. CASE cloud' = GatewayDeleted(i) /\ Save(o) /\ UNCHANGED faults
  <2>1. /\ o \in Object
        /\ o.exists = work.exists /\ o.deleting = work.deleting
        /\ o.finalizer = work.finalizer /\ o.phase = work.phase
    BY WorkFacts DEF Object
  <2>2. /\ Recorded(o) \subseteq Recorded(work)
        /\ Recorded(work) \subseteq Recorded(o) \cup {i}
    BY <1>0, WorkFacts DEF Object, Recorded
  <2>3. Provenance(o)
    BY WorkFacts DEF Object, Provenance
  <2> HIDE DEF o
  <2>4. CloudMove /\ Released(i)'
    BY <1>1, <1>5, CloudGatewayDeleted DEF Released
  <2>5. SameMarks
    BY <1>5, <2>1 DEF Save, SameMarks
  <2> QED BY <1>1, <1>3, <1>5, <2>1, <2>2, <2>3, <2>4, <2>5, DropKeeps, KeysAndFaults
<1>6. CASE cloud' = [cloud EXCEPT ![i].uses = {}] /\ Save(work) /\ Fault
  <2>1. CloudMove
    <3>1. {} \in SUBSET Ids
      OBVIOUS
    <3> QED BY <1>1, <1>6, <3>1, CloudUses
  <2> QED BY <1>1, <1>3, <1>6, <2>1, SaveWorkKeeps, FaultCounts
<1> QED BY <1>2, <1>4, <1>5, <1>6

LEMMA DeleteNatKeeps == ASSUME IInv, DeleteNat PROVE IInv'
<1>0. PICK nat : nat = Pick(work.nats)
  OBVIOUS
<1> DEFINE gone == [i \in Ids |-> IF i \in EipOf(nat)
                                  THEN [cloud[i] EXCEPT !.state = "deleted"]
                                  ELSE cloud[i]]
           o == [work EXCEPT !.nats = @ \ {nat}]
<1>1. nat \in work.nats /\ pc \in DeletePhases
  BY <1>0, PickIn DEF DeleteNat, IInv, AtPc, ToDelete, DeletePhases
<1>2. /\ o \in Object
      /\ o.exists = work.exists /\ o.deleting = work.deleting
      /\ o.finalizer = work.finalizer /\ o.phase = work.phase
  BY WorkFacts DEF Object
<1>3. /\ nat \in Recorded(work)
      /\ Recorded(o) \subseteq Recorded(work)
      /\ Recorded(work) \subseteq Recorded(o) \cup {nat}
  BY <1>1, WorkFacts DEF Object, Recorded
<1>4. Provenance(o)
  BY WorkFacts DEF Object, Provenance
<1>5. nat \in Ids /\ cloud[nat].kind # "none" /\ cloud[nat].state # "none"
  BY <1>3, WorkFacts, RecordedIds DEF Born, IInv, CloudSane
<1>6. \/ /\ Live(nat) /\ cloud' = InState(nat, "deleting")
         /\ Save(work) /\ UNCHANGED faults
      \/ /\ ~Live(nat) /\ Save(o)
         /\ \/ cloud' = gone /\ UNCHANGED faults
            \/ Fault /\ UNCHANGED cloud
  BY <1>0 DEF DeleteNat
<1>7. UNCHANGED <<kube, keys>>
  BY DEF DeleteNat
<1> HIDE DEF o
<1>8. CASE /\ Live(nat) /\ cloud' = InState(nat, "deleting")
           /\ Save(work) /\ UNCHANGED faults
  <2>1. "deleting" \in States \ {"none"} /\ cloud[nat].state # "deleted"
    BY <1>8 DEF States, Live, LiveStates
  <2>2. CloudMove
    BY <1>5, <1>8, <2>1, CloudInState
  <2> QED BY <1>1, <1>7, <1>8, <2>2, SaveWorkKeeps, KeysAndFaults
<1>9. CASE /\ ~Live(nat) /\ Save(o)
           /\ \/ cloud' = gone /\ UNCHANGED faults
              \/ Fault /\ UNCHANGED cloud
  <2>1. CloudMove
    <3>1. CASE UNCHANGED cloud
      BY <3>1, CloudSame
    <3>2. CASE cloud' = gone
      <4>1. cloud' \in [Ids -> Resource]
        BY <3>2 DEF IInv, TypeOK, Resource, States
      <4>2. \A i \in Ids : /\ cloud'[i].kind = cloud[i].kind
                           /\ \/ cloud'[i].state = cloud[i].state
                              \/ cloud[i].kind = "eip" /\ cloud'[i].state = "deleted"
        <5> TAKE i \in Ids
        <5>1. cloud[i] \in Resource
          BY DEF IInv, TypeOK
        <5>2. CASE i \in EipOf(nat)
          <6>1. cloud[i].kind = "eip"
            BY <5>2 DEF EipOf
          <6>2. cloud'[i] = [cloud[i] EXCEPT !.state = "deleted"]
            BY <3>2, <5>2
          <6> QED BY <5>1, <6>1, <6>2 DEF Resource
        <5>3. CASE i \notin EipOf(nat)
          <6>1. cloud'[i] = cloud[i]
            BY <3>2, <5>3
          <6> QED BY <6>1
        <5> QED BY <5>2, <5>3
      <4> HIDE DEF gone
      <4>3. \A i \in Ids : cloud[i].kind = "none" <=> cloud[i].state = "none"
        BY DEF CloudSane, IInv
      <4>4. CloudSane'
        BY <4>2, <4>3 DEF CloudSane
      <4> QED BY <4>1, <4>2, <4>4 DEF CloudMove
    <3> HIDE DEF gone
    <3> QED BY <1>9, <3>1, <3>2
  <2>2. Released(nat)'
    BY <1>5, <1>9, <2>1, NotLiveIsReleased
  <2>3. SameMarks
    BY <1>2, <1>9 DEF Save, SameMarks
  <2>4. faults' \in 0 .. MaxFaults
    BY <1>9, FaultCounts, KeysAndFaults
  <2> QED BY <1>1, <1>2, <1>3, <1>4, <1>5, <1>7, <1>9, <2>1, <2>2, <2>3, <2>4, DropKeeps
<1> QED BY <1>6, <1>8, <1>9

(* Where DeleteStage leads there is something to delete, and it leads to   *)
(* the removal of the finalizer only when nothing but the user's own is    *)
(* recorded any more.                                                      *)
LEMMA StageFacts ==
  ASSUME IInv, work.bastion = NoId
  PROVE  /\ DeleteStage \in DeletingPcs \ {"delete"}
         /\ DeleteStage = "deleteBastionSG"     => work.bsg # NoId
         /\ DeleteStage = "deleteRouteTable"    => work.rts # {}
         /\ DeleteStage = "deleteNat"           => work.nats # {}
         /\ DeleteStage = "deleteSubnet"        => work.pub \cup work.priv # {}
         /\ DeleteStage = "deleteIgw"           => work.igw # NoId
         /\ DeleteStage = "deleteSecurityGroup" => work.sgs # {}
         /\ DeleteStage = "deleteVpc"           => work.vpc # NoId
         /\ DeleteStage = "removeFinalizer"     => Recorded(work) \subseteq Foreign
<1>1. DeleteStage \in DeletingPcs \ {"delete"}
  BY DEF DeleteStage, DeletingPcs, DeletePhases
<1>2. ASSUME DeleteStage = "removeFinalizer" PROVE Recorded(work) \subseteq Foreign
  <2>1. /\ work.bsg = NoId
        /\ config.exRts = {} => work.rts = {}
        /\ config.exNats = {} => work.nats = {}
        /\ ExistingSubnets = {} => work.pub \cup work.priv = {}
        /\ config.exIgw = NoId => work.igw = NoId
        /\ config.exSgs = {} => work.sgs = {}
        /\ config.exVpc = NoId => work.vpc = NoId
    BY <1>2 DEF DeleteStage
  <2>2. Provenance(work)
    BY WorkFacts
  <2> QED BY <2>1, <2>2 DEF Provenance, Recorded
<1> QED BY <1>1, <1>2 DEF DeleteStage

(* On to the stage of the deletion that is due.                            *)
LEMMA StageMove ==
  ASSUME IInv, pc = "delete", pc' \in DeletingPcs \ {"delete"}, ToDelete',
         pc' = "removeFinalizer" => \A i \in Recorded(work) : Released(i),
         UNCHANGED <<cloud, kube, work, workFresh, made, routed>>,
         keypair' \in BOOLEAN, secret' \in BOOLEAN, faults' \in 0 .. MaxFaults
  PROVE  IInv'
<1>0. /\ pc \in DeletingPcs /\ pc \notin CreatingPcs
      /\ pc' \notin CreatingPcs \cup CreationPhases /\ work.deleting
  BY DEF DeletingPcs, DeletePhases, CreatingPcs, CreationPhases, IInv, InFlight
<1>1. CloudMove /\ WorkMove
  BY CloudSame, WorkSame
<1>2. made = NoId
  BY DEF IInv, AtPc, HalfMade, MayMake
<1>3. PcMove
  <2>1. AtPc'
    BY <1>0, <1>2 DEF AtPc, OneToMake, ListToFill, HalfMade, WithVpc, CreatingPcs, CreationPhases
  <2>2. pc' # "addFinalizer"
    BY <1>0 DEF CreatingPcs
  <2>3. pc' = "removeFinalizer" => \A i \in Recorded(work') : Released(i)'
    BY DEF Released, kube
  <2> QED BY <1>0, <2>1, <2>2, <2>3 DEF PcMove
<1>4. OtherMoves
  BY <1>2 DEF OtherMoves, IInv, TypeOK
<1> QED BY <1>0, <1>1, <1>3, <1>4, LocalMove

LEMMA DeleteKeyPairKeeps == ASSUME IInv, DeleteKeyPair PROVE IInv'
<1>1. /\ pc = "delete" /\ work.bastion = NoId /\ pc' = DeleteStage
      /\ UNCHANGED <<cloud, kube, work, workFresh, made, routed, secret>>
  BY DEF DeleteKeyPair
<1>2. keypair' \in BOOLEAN /\ faults' \in 0 .. MaxFaults
  BY FaultCounts, KeysAndFaults DEF DeleteKeyPair
<1>3. ToDelete'
  BY <1>1, StageFacts DEF ToDelete
<1>4. pc' = "removeFinalizer" => \A i \in Recorded(work) : Released(i)
  BY <1>1, StageFacts DEF Released
<1> QED BY <1>1, <1>2, <1>3, <1>4, StageFacts, StageMove, KeysAndFaults

LEMMA RetainResourcesKeeps == ASSUME IInv, RetainResources PROVE IInv'
<1>1. /\ pc = "delete" /\ config.retain /\ pc' = "removeFinalizer"
      /\ UNCHANGED <<cloud, kube, work, workFresh, made, routed, keys, faults>>
  BY DEF RetainResources
<1>2. ToDelete' /\ pc' \in DeletingPcs \ {"delete"}
  BY <1>1 DEF ToDelete, DeletingPcs
<1> QED BY <1>1, <1>2, StageMove, KeysAndFaults DEF Released, keys

-----------------------------------------------------------------------------
(* Reading the object and writing it back.                                 *)

(* A reconcile that ends, whatever it did to the object.                   *)
LEMMA ReturnKeeps ==
  ASSUME IInv, Return, UNCHANGED <<cloud, config, keys>>, faults' \in 0 .. MaxFaults,
         stack' \in Object, cache' \in Object, cacheFresh' \in BOOLEAN,
         Born(Recorded(stack')), Born(Recorded(cache')),
         Provenance(stack'), Provenance(cache'),
         cacheFresh' => cache' = stack',
         ~stack'.finalizer => Recorded(stack') = {},
         ~cache'.finalizer => Recorded(cache') = {},
         stack'.phase = "Deleting" => stack'.deleting /\ cache'.deleting,
         cache'.phase = "Deleting" => cache'.deleting,
         cache'.deleting /\ stack'.exists => stack'.deleting
  PROVE  IInv'
<1>1. TypeOK'
  BY NoObjectFacts, KeysAndFaults DEF IInv, TypeOK, Return, keys
<1>2. CloudSane' /\ NamesAreBorn'
  BY NoObjectFacts DEF IInv, CloudSane, NamesAreBorn, Born, Return
<1>3. ExistingOnly'
  BY NoObjectFacts DEF ExistingSubnets, ExistingOnly, Return, Provenance
<1>4. AtPc'
  BY DEF AtPc, OneToMake, ListToFill, HalfMade, ToDelete, Return, WithVpc, CreationPhases
<1>5. Fresh'
  BY NoObjectFacts DEF Fresh, Return
<1>6. Guarded' /\ Marked'
  BY DEF Guarded, Marked, Return
<1>7. InFlight'
  BY DEF InFlight, Return, NoObject, CreatingPcs, DeletingPcs, CreationPhases, DeletePhases
<1> QED BY <1>1, <1>2, <1>3, <1>4, <1>5, <1>6, <1>7 DEF IInv

LEMMA CopiesFacts ==
  ASSUME IInv
  PROVE  /\ stack \in Object /\ cache \in Object
         /\ Born(Recorded(stack)) /\ Born(Recorded(cache))
         /\ Provenance(stack) /\ Provenance(cache)
BY DEF IInv, TypeOK, NamesAreBorn, ExistingOnly

LEMMA RestartKeeps ==
  ASSUME IInv, Return, cache' = stack, cacheFresh' = TRUE,
         UNCHANGED <<cloud, config, stack, keys>>, faults' \in 0 .. MaxFaults
  PROVE  IInv'
<1>1. ~stack.finalizer => Recorded(stack) = {}
  BY DEF IInv, Guarded
<1>2. stack.phase = "Deleting" => stack.deleting
  BY DEF IInv, Marked
<1> QED BY <1>1, <1>2, CopiesFacts, ReturnKeeps

LEMMA CrashKeeps == ASSUME IInv, Crash PROVE IInv'
BY RestartKeeps, FaultCounts DEF Crash

LEMMA NoPublicSubnetPanicKeeps == ASSUME IInv, NoPublicSubnetPanic PROVE IInv'
BY RestartKeeps, KeysAndFaults DEF NoPublicSubnetPanic

LEMMA WriteLostKeeps == ASSUME IInv, WriteLost PROVE IInv'
<1>1. faults' \in 0 .. MaxFaults
  BY FaultCounts, KeysAndFaults DEF WriteLost
<1>2. UNCHANGED <<cloud, config, stack, cache, cacheFresh, keys>> /\ Return
  BY DEF WriteLost, kube
<1>3. cacheFresh \in BOOLEAN /\ (cacheFresh => cache = stack)
  BY DEF IInv, TypeOK, Fresh
<1>4. /\ ~stack.finalizer => Recorded(stack) = {}
      /\ ~cache.finalizer => Recorded(cache) = {}
  BY DEF IInv, Guarded
<1>5. /\ stack.phase = "Deleting" => stack.deleting /\ cache.deleting
      /\ cache.phase = "Deleting" => cache.deleting
      /\ cache.deleting /\ stack.exists => stack.deleting
  BY DEF IInv, Marked
<1> QED BY <1>1, <1>2, <1>3, <1>4, <1>5, CopiesFacts, ReturnKeeps

LEMMA WriteStatusKeeps == ASSUME IInv, WriteStatus PROVE IInv'
<1>1. /\ pc = "write" /\ workFresh /\ Return /\ stack' = work /\ cacheFresh' = FALSE
      /\ UNCHANGED <<cloud, config, cache, keys, faults>>
  BY DEF WriteStatus
<1>2. work.finalizer /\ (~cache.finalizer => Recorded(cache) = {})
  BY <1>1 DEF IInv, Guarded
<1>3. /\ work.exists /\ stack.exists /\ stack.deleting = work.deleting
      /\ work.deleting => cache.deleting
      /\ work.deleting <=> work.phase = "Deleting"
  BY <1>1 DEF IInv, InFlight
<1>4. /\ cache.phase = "Deleting" => cache.deleting
      /\ cache.deleting => work.deleting
  BY <1>3 DEF IInv, Marked
<1> QED BY <1>1, <1>2, <1>3, <1>4, CopiesFacts, WorkFacts, KeysAndFaults, ReturnKeeps

LEMMA RemoveFinalizerKeeps == ASSUME IInv, RemoveFinalizer PROVE IInv'
<1>1. /\ Return /\ stack' = NoObject /\ cacheFresh' = FALSE
      /\ UNCHANGED <<cloud, config, cache, keys, faults>>
  BY DEF RemoveFinalizer
<1>2. /\ ~cache.finalizer => Recorded(cache) = {}
      /\ cache.phase = "Deleting" => cache.deleting
  BY DEF IInv, Guarded, Marked
<1>3. NoObject.phase # "Deleting" /\ ~NoObject.exists /\ Born(Recorded(NoObject))
  BY NoObjectFacts DEF NoObject, Born
<1> QED BY <1>1, <1>2, <1>3, NoObjectFacts, CopiesFacts, KeysAndFaults, ReturnKeeps

(* The phase that is resumed is one that still has its work to do.         *)
LEMMA ResumeFacts ==
  ASSUME NEW o \in Object, UNCHANGED config, Resume(o), Provenance(o),
         o.phase # "Deleting"
  PROVE  /\ work' \in Object /\ Provenance(work') /\ Recorded(work') = Recorded(o)
         /\ work'.exists = o.exists /\ work'.deleting = o.deleting
         /\ work'.finalizer = o.finalizer /\ work'.phase # "Deleting"
         /\ pc' \in CreationPhases \cup {"write"}
         /\ made' = NoId /\ routed' = {}
         /\ AtPc'
<1>1. PICK p \in CreationPhases \cup {"Pending"} :
         /\ work' = [o EXCEPT !.phase = p]
         /\ pc' = "write" \/ (pc' = p /\ p = DetermineCurrentPhase(o) /\ p \in CreationPhases)
  <2>1. CASE pc' = "write" /\ work' = [o EXCEPT !.phase = "Pending"]
    BY <2>1
  <2>2. CASE /\ DetermineCurrentPhase(o) \notin {"Failed", "Ready"}
             /\ pc' = DetermineCurrentPhase(o)
             /\ work' = [o EXCEPT !.phase = DetermineCurrentPhase(o)]
    BY <2>2, PhaseIsAPhase
  <2> QED BY <2>1, <2>2 DEF Resume
<1>2. p \in Phases \ {"Deleting"}
  BY DEF Phases, CreationPhases
<1>3. /\ work' \in Object /\ work'.exists = o.exists /\ work'.deleting = o.deleting
      /\ work'.finalizer = o.finalizer /\ work'.phase = p
      /\ work'.vpc = o.vpc /\ work'.igw = o.igw /\ work'.pub = o.pub
      /\ work'.priv = o.priv /\ work'.nats = o.nats /\ work'.rts = o.rts
      /\ work'.sgs = o.sgs /\ work'.bsg = o.bsg /\ work'.bastion = o.bastion
  BY <1>1, <1>2 DEF Object
<1>4. Provenance(work') /\ Recorded(work') = Recorded(o)
  BY <1>3 DEF Provenance, Recorded
<1>5. made' = NoId /\ routed' = {}
  BY DEF Resume
<1>6. AtPc'
  <2>1. CASE pc' = "write"
    BY <1>5, <2>1 DEF AtPc, OneToMake, ListToFill, HalfMade, ToDelete, WithVpc, CreationPhases
  <2>2. CASE pc' = DetermineCurrentPhase(o) /\ pc' \in CreationPhases
    <3>1. OneToMake' /\ ListToFill'
      BY <1>3, <2>2 DEF OneToMake, ListToFill, WithVpc, CreationPhases, DetermineCurrentPhase
    <3>2. ToDelete'
      BY <2>2 DEF ToDelete, CreationPhases
    <3> QED BY <1>5, <3>1, <3>2 DEF AtPc, HalfMade
  <2> QED BY <1>1, <2>1, <2>2
<1> QED BY <1>1, <1>2, <1>3, <1>4, <1>5, <1>6

(* A reconcile that begins with the cache's copy.                          *)
LEMMA BeginMove ==
  ASSUME IInv, pc = "idle", workFresh' = cacheFresh,
         UNCHANGED <<cloud, kube, keys>>, faults' \in 0 .. MaxFaults,
         cache.exists,
         work' \in Object, Provenance(work'), Recorded(work') = Recorded(cache),
         work'.exists = cache.exists, work'.deleting = cache.deleting,
         work'.deleting <=> work'.phase = "Deleting",
         pc' \in CreatingPcs => ~work'.deleting,
         pc' \in DeletingPcs => work'.deleting,
         pc' \in CreationPhases \cup {"addFinalizer", "write", "delete"},
         pc' # "addFinalizer" => work'.finalizer,
         made' = NoId, routed' \in SUBSET Ids, AtPc'
  PROVE  IInv'
<1>0. pc' \notin {"idle", "removeFinalizer"}
  BY DEF CreationPhases
<1>1. TypeOK'
  BY DEF IInv, TypeOK, kube, keys, DeletePhases
<1>2. CloudSane' /\ NamesAreBorn'
  BY DEF IInv, CloudSane, NamesAreBorn, Born, kube
<1>3. ExistingOnly'
  BY DEF ExistingSubnets, IInv, ExistingOnly, Provenance, kube
<1>4. Fresh'
  BY <1>0 DEF IInv, Fresh, kube
<1>5. Guarded'
  BY <1>0 DEF IInv, Guarded, kube
<1>6. Marked'
  BY DEF IInv, Marked, kube
<1>7. InFlight'
  BY <1>0 DEF IInv, InFlight, Fresh, Marked, kube
<1> QED BY <1>1, <1>2, <1>3, <1>4, <1>5, <1>6, <1>7 DEF IInv

LEMMA BeginKeeps == ASSUME IInv, Begin PROVE IInv'
<1>1. /\ pc = "idle" /\ ~Settled(cache) /\ workFresh' = cacheFresh
      /\ UNCHANGED <<cloud, kube, config, keys>>
  BY DEF Begin, kube
<1>2. faults' \in 0 .. MaxFaults
  BY FaultCounts, KeysAndFaults DEF Begin, Read
<1>3. /\ cache \in Object /\ Provenance(cache) /\ cache.exists
      /\ cache.deleting => cache.finalizer
      /\ cache.phase = "Deleting" => cache.deleting
  BY <1>1, CopiesFacts DEF Settled, IInv, Marked
<1>4. made = NoId /\ routed \in SUBSET Ids /\ work.deleting \in BOOLEAN
  BY <1>1, WorkFacts DEF IInv, TypeOK, AtPc, HalfMade, MayMake, Object
<1>5. CASE /\ cache.deleting
           /\ pc' = IF cache.phase = "Deleting" THEN "delete" ELSE "write"
           /\ work' = [cache EXCEPT !.phase = "Deleting", !.ready = FALSE]
           /\ UNCHANGED <<made, routed>>
  <2>1. /\ work' \in Object /\ work'.exists = cache.exists
        /\ work'.deleting /\ work'.finalizer /\ work'.phase = "Deleting"
    BY <1>3, <1>5 DEF Object, Phases
  <2>2. Provenance(work') /\ Recorded(work') = Recorded(cache)
    <3>1. Recorded(work') = Recorded(cache)
      BY <1>3, <1>5 DEF Object, Recorded
    <3>2. Provenance(work')
      BY <1>3, <1>5 DEF Provenance, Object
    <3> QED BY <3>1, <3>2
  <2>3. AtPc'
    BY <1>4, <1>5 DEF AtPc, OneToMake, ListToFill, HalfMade, ToDelete, WithVpc, CreationPhases
  <2>4. pc' \notin CreatingPcs /\ pc' \in {"write", "delete"}
    BY <1>5 DEF CreatingPcs, CreationPhases
  <2> QED BY <1>1, <1>2, <1>3, <1>4, <1>5, <2>1, <2>2, <2>3, <2>4, BeginMove
<1>6. CASE /\ ~cache.deleting /\ ~cache.finalizer
           /\ pc' = "addFinalizer" /\ work' = cache /\ UNCHANGED <<made, routed>>
  <2>1. AtPc'
    BY <1>4, <1>6 DEF AtPc, OneToMake, ListToFill, HalfMade, ToDelete, WithVpc, CreationPhases
  <2>2. pc' \notin DeletingPcs
    BY <1>6 DEF DeletingPcs, DeletePhases
  <2> QED BY <1>1, <1>2, <1>3, <1>4, <1>6, <2>1, <2>2, BeginMove
<1>7. CASE ~cache.deleting /\ cache.finalizer /\ Resume(cache)
  <2>1. pc' \in CreationPhases \cup {"write"} => pc' \notin DeletingPcs
    BY DEF CreationPhases, DeletingPcs, DeletePhases
  <2>2. routed' \in SUBSET Ids
    BY <1>1, <1>3, <1>7, ResumeFacts
  <2> QED BY <1>1, <1>2, <1>3, <1>7, <2>1, <2>2, ResumeFacts, BeginMove
<1> QED BY <1>5, <1>6, <1>7 DEF Begin

LEMMA AddFinalizerKeeps == ASSUME IInv, AddFinalizer PROVE IInv'
<1> DEFINE o == [work EXCEPT !.finalizer = TRUE]
<1>1. /\ pc = "addFinalizer" /\ workFresh /\ stack' = o /\ cacheFresh' = FALSE
      /\ Resume(o) /\ UNCHANGED <<cloud, config, cache, workFresh, keys, faults>>
  BY DEF AddFinalizer
<1>2. /\ o \in Object /\ o.exists = work.exists /\ o.deleting = work.deleting
      /\ o.finalizer /\ o.phase = work.phase
  BY WorkFacts DEF Object
<1>3. Provenance(o) /\ Recorded(o) = Recorded(work)
  BY WorkFacts, PhaseRecordsNothing DEF Provenance, Object
<1>4. /\ work.exists /\ ~work.deleting /\ work.phase # "Deleting"
      /\ stack.exists /\ ~stack.deleting
  BY <1>1 DEF IInv, InFlight, CreatingPcs
<1>5. ~cache.deleting
  BY <1>4 DEF IInv, Marked
<1> HIDE DEF o
<1>6. /\ work' \in Object /\ Provenance(work') /\ Recorded(work') = Recorded(o)
      /\ work'.exists = o.exists /\ work'.deleting = o.deleting
      /\ work'.finalizer = o.finalizer /\ work'.phase # "Deleting"
      /\ pc' \in CreationPhases \cup {"write"}
      /\ made' = NoId /\ routed' = {}
      /\ AtPc'
  BY <1>1, <1>2, <1>3, <1>4, ResumeFacts
<1>7. pc' \notin {"idle", "removeFinalizer"} \cup DeletingPcs
  BY <1>6 DEF CreationPhases, DeletingPcs, DeletePhases
<1>8. TypeOK'
  BY <1>1, <1>2, <1>6 DEF IInv, TypeOK, keys
<1>9. CloudSane' /\ NamesAreBorn'
  BY <1>1, <1>3, <1>6, WorkFacts DEF IInv, CloudSane, NamesAreBorn, Born
<1>10. ExistingOnly'
  BY <1>1, <1>3, <1>6 DEF ExistingSubnets, IInv, ExistingOnly, Provenance
<1>11. Fresh'
  BY <1>1, <1>6, <1>7 DEF Fresh
<1>12. Guarded'
  BY <1>1, <1>2, <1>6 DEF IInv, Guarded
<1>13. Marked'
  BY <1>1, <1>2, <1>4, <1>5 DEF IInv, Marked
<1>14. InFlight'
  BY <1>1, <1>2, <1>4, <1>6, <1>7 DEF InFlight
<1> QED BY <1>6, <1>8, <1>9, <1>10, <1>11, <1>12, <1>13, <1>14 DEF IInv

-----------------------------------------------------------------------------
(* The environment.                                                        *)

LEMMA RequestDeleteKeeps == ASSUME IInv, RequestDelete PROVE IInv'
<1> DEFINE o == IF stack.finalizer THEN [stack EXCEPT !.deleting = TRUE] ELSE NoObject
<1>1. /\ stack.exists /\ ~stack.deleting /\ stack' = o
      /\ cacheFresh' = FALSE /\ workFresh' = FALSE
      /\ UNCHANGED <<cloud, config, cache, pc, work, made, routed, keys, faults>>
  BY DEF RequestDelete
<1>2. /\ o \in Object /\ Provenance(o) /\ Recorded(o) \subseteq Recorded(stack)
      /\ o.exists => o.deleting
      /\ o.phase = "Deleting" => stack.phase = "Deleting"
      /\ ~o.finalizer => Recorded(o) = {}
  <2>1. CASE stack.finalizer
    BY <2>1, CopiesFacts, PhaseRecordsNothing DEF Object, Provenance
  <2>2. CASE ~stack.finalizer
    <3>1. NoObject.phase # "Deleting" /\ ~NoObject.exists
      BY DEF NoObject
    <3> QED BY <2>2, <3>1, NoObjectFacts
  <2> QED BY <2>1, <2>2
<1> HIDE DEF o
<1>3. stack.phase # "Deleting"
  BY <1>1 DEF IInv, Marked
<1>4. TypeOK'
  BY <1>1, <1>2 DEF IInv, TypeOK, keys
<1>5. CloudSane' /\ NamesAreBorn'
  BY <1>1, <1>2 DEF IInv, CloudSane, NamesAreBorn, Born
<1>6. ExistingOnly'
  BY <1>1, <1>2 DEF ExistingSubnets, IInv, ExistingOnly, Provenance
<1>7. AtPc'
  BY <1>1 DEF ExistingSubnets, IInv, AtPc, OneToMake, ListToFill, HalfMade, MayMake, ToDelete
<1>8. Fresh'
  BY <1>1 DEF IInv, Fresh, Released
<1>9. Guarded'
  BY <1>1, <1>2 DEF IInv, Guarded
<1>10. Marked'
  BY <1>1, <1>2, <1>3 DEF IInv, Marked
<1>11. InFlight'
  BY <1>1, <1>2 DEF IInv, InFlight
<1> QED BY <1>4, <1>5, <1>6, <1>7, <1>8, <1>9, <1>10, <1>11 DEF IInv

LEMMA SyncCacheKeeps == ASSUME IInv, SyncCache PROVE IInv'
<1>1. /\ cache' = stack /\ cacheFresh' = TRUE
      /\ UNCHANGED <<cloud, config, stack, pc, work, workFresh, made, routed, keys, faults>>
  BY DEF SyncCache
<1>2. TypeOK' /\ CloudSane' /\ NamesAreBorn'
  BY <1>1 DEF IInv, TypeOK, keys, CloudSane, NamesAreBorn, Born
<1>3. ExistingOnly'
  BY <1>1 DEF ExistingSubnets, IInv, ExistingOnly, Provenance
<1>4. AtPc'
  BY <1>1 DEF ExistingSubnets, IInv, AtPc, OneToMake, ListToFill, HalfMade, MayMake, ToDelete
<1>5. Fresh' /\ Guarded' /\ Marked' /\ InFlight'
  BY <1>1 DEF IInv, Fresh, Released, Guarded, Marked, InFlight
<1> QED BY <1>2, <1>3, <1>4, <1>5 DEF IInv

LEMMA CloudStepKeeps == ASSUME IInv, CloudStep PROVE IInv'
<1>1. faults' \in 0 .. MaxFaults /\ UNCHANGED <<kube, pc, work, workFresh, made, routed, keys>>
  BY FaultCounts, KeysAndFaults DEF CloudStep
<1>2. PICK i \in Ids : Settle(i) \/ NatFails(i)
  BY DEF CloudStep
<1>3. PICK state \in {"available", "deleted", "failed"} :
        /\ cloud' = InState(i, state)
        /\ cloud[i].state \in {"pending", "deleting"}
  BY <1>2 DEF Settle, NatFails
<1>4. CloudMove
  <2>1. state \in States \ {"none"}
    BY DEF States
  <2>2. cloud[i].kind # "none" /\ cloud[i].state # "deleted"
    BY <1>3 DEF IInv, CloudSane
  <2> QED BY <1>3, <2>1, <2>2, CloudInState
<1>5. TypeOK' /\ CloudSane'
  BY <1>1, <1>4 DEF IInv, TypeOK, keys, kube, CloudMove
<1>6. NamesAreBorn'
  <2>1. /\ Born(Foreign) /\ Born(Recorded(stack)) /\ Born(Recorded(cache))
        /\ Born(Recorded(work)) /\ Born({made} \ {NoId})
        /\ Recorded(stack) \subseteq Ids /\ Recorded(cache) \subseteq Ids
        /\ Recorded(work) \subseteq Ids /\ {made} \ {NoId} \subseteq Ids
    BY RecordedIds DEF IInv, TypeOK, NamesAreBorn
  <2> QED BY <1>1, <1>4, <2>1, IdsFacts DEF NamesAreBorn, Born, CloudMove, kube
<1>7. ExistingOnly'
  BY <1>1 DEF ExistingSubnets, IInv, ExistingOnly, Provenance, kube
<1>8. AtPc'
  BY <1>1 DEF ExistingSubnets, IInv, AtPc, OneToMake, ListToFill, HalfMade, MayMake, ToDelete, kube
<1>9. Fresh'
  <2>1. Recorded(stack) \subseteq Ids /\ Recorded(work) \subseteq Ids
    BY RecordedIds DEF IInv, TypeOK
  <2>2. \A j \in Ids : Released(j) => Released(j)'
    BY <1>1, <1>4, ReleasedStays DEF IInv, kube
  <2> QED BY <1>1, <2>1, <2>2 DEF IInv, Fresh, kube
<1>10. Guarded' /\ Marked' /\ InFlight'
  BY <1>1 DEF IInv, Guarded, Marked, InFlight, kube
<1> QED BY <1>5, <1>6, <1>7, <1>8, <1>9, <1>10 DEF IInv

-----------------------------------------------------------------------------
(* Every step preserves the invariant.                                     *)

LEMMA InitKeeps == Init => IInv
<1> SUFFICES ASSUME Init PROVE IInv
  OBVIOUS
<1> DEFINE o == [NoObject EXCEPT !.exists = TRUE]
<1>1. /\ config \in Configs
      /\ stack = o /\ cache = o /\ cacheFresh = TRUE /\ pc = "idle"
      /\ work = NoObject /\ workFresh = FALSE /\ made = NoId /\ routed = {}
      /\ keypair = FALSE /\ secret = FALSE /\ faults = 0
  BY DEF Init
<1>2. /\ o \in Object /\ Recorded(o) = {} /\ Provenance(o)
      /\ o.exists /\ ~o.deleting /\ o.phase = ""
  BY DEF NoObject, Object, Recorded, Phases, Provenance, NoId
<1> HIDE DEF o
<1>3. /\ cloud \in [Ids -> Resource]
      /\ CloudSane
      /\ Born(Foreign)
  <2>1. Unborn \in Resource /\ Unborn.kind = "none" /\ Unborn.state = "none"
    BY DEF Unborn, Resource, States
  <2>2. cloud = [i \in Ids |-> IF i \in Foreign THEN Preexisting[i] ELSE Unborn]
    BY DEF Init, CloudInit
  <2>3. \A i \in Foreign : /\ Preexisting[i] \in Resource
                           /\ Preexisting[i].kind # "none"
                           /\ Preexisting[i].state = "available"
    BY PreexistingAssumption DEF Foreign
  <2>4. cloud \in [Ids -> Resource]
    BY <2>1, <2>2, <2>3
  <2>5. \A i \in Ids : IF i \in Foreign THEN cloud[i] = Preexisting[i]
                       ELSE cloud[i] = Unborn
    BY <2>2
  <2>6. CloudSane
    BY <2>1, <2>3, <2>5 DEF CloudSane
  <2>7. Born(Foreign)
    BY <2>3, <2>5, IdsFacts DEF Born
  <2> QED BY <2>4, <2>6, <2>7
<1>4. TypeOK
  <2>1. faults \in 0 .. MaxFaults
    BY <1>1, ConfigAssumption
  <2>2. stack \in Object /\ cache \in Object /\ work \in Object
    BY <1>1, <1>2, NoObjectFacts
  <2> QED BY <1>1, <1>3, <2>1, <2>2 DEF TypeOK
<1>5. NamesAreBorn
  BY <1>1, <1>2, <1>3, NoObjectFacts DEF NamesAreBorn, Born
<1>6. ExistingOnly
  BY <1>1, <1>2, NoObjectFacts DEF ExistingOnly
<1>7. AtPc
  BY <1>1 DEF AtPc, OneToMake, ListToFill, HalfMade, ToDelete, WithVpc, CreationPhases
<1>8. Fresh /\ Guarded /\ Marked
  BY <1>1, <1>2 DEF Fresh, Guarded, Marked
<1>9. InFlight
  BY <1>1 DEF InFlight, NoObject, CreatingPcs, DeletingPcs, CreationPhases, DeletePhases
<1> QED BY <1>3, <1>4, <1>5, <1>6, <1>7, <1>8, <1>9 DEF IInv

LEMMA CreateStepKeeps == ASSUME IInv, CreateStep PROVE IInv'
BY UseExistingVpcKeeps, CreateVpcKeeps, ModifyVpcKeeps, ChecksKeep,
   UseExistingIgwKeeps, CreateInternetGatewayKeeps, AttachInternetGatewayKeeps,
   UseExistingSubnetsKeeps, CreateSubnetKeeps, RecordSubnetKeeps, SubnetsCreatedKeeps,
   UseExistingNatsKeeps, AllocateAddressKeeps, NoPublicSubnetPanicKeeps,
   CreateNatGatewayKeeps, NatsCreatedKeeps,
   UseExistingRouteTablesKeeps, CreateRouteTableKeeps, RecordRouteTableKeeps,
   RouteTableFailsKeeps, RouteTablesCreatedKeeps,
   UseExistingSecurityGroupsKeeps, CreateSecurityGroupKeeps, AuthorizeIngressKeeps,
   SecurityGroupsCreatedKeeps, CreateBastionSecurityGroupKeeps, PrepareBastionKeeps,
   StoreKeyKeeps, RunInstanceKeeps, QuotaExceededKeeps, CreateCallFailsKeeps
DEF CreateStep

LEMMA DeleteStepKeeps == ASSUME IInv, DeleteStep PROVE IInv'
BY RetainResourcesKeeps, DeleteBastionKeeps, TerminateOrphanKeeps, DeleteKeyPairKeeps,
   DeleteBastionSGKeeps, DeleteRouteTableKeeps, DeleteNatKeeps, DeleteSubnetKeeps,
   DeleteIgwKeeps, DeleteSecurityGroupKeeps, DeleteOrphanRtKeeps, DeleteVpcKeeps,
   RemoveFinalizerKeeps, DeleteCallFailsKeeps
DEF DeleteStep

LEMMA StutterKeeps == ASSUME IInv, UNCHANGED vars PROVE IInv'
<1>1. /\ UNCHANGED <<cloud, config, stack, cache, cacheFresh, pc, work, workFresh>>
      /\ UNCHANGED <<made, routed, keypair, secret, faults>>
  BY DEF vars, kube, keys
<1>2. TypeOK' /\ CloudSane' /\ NamesAreBorn'
  BY <1>1 DEF IInv, TypeOK, CloudSane, NamesAreBorn, Born
<1>3. ExistingOnly'
  BY <1>1 DEF ExistingSubnets, IInv, ExistingOnly, Provenance
<1>4. AtPc'
  BY <1>1 DEF ExistingSubnets, IInv, AtPc, OneToMake, ListToFill, HalfMade, MayMake, ToDelete
<1>5. Fresh' /\ Guarded' /\ Marked' /\ InFlight'
  BY <1>1 DEF IInv, Fresh, Released, Guarded, Marked, InFlight
<1> QED BY <1>2, <1>3, <1>4, <1>5 DEF IInv

LEMMA NextKeeps == IInv /\ [Next]_vars => IInv'
BY BeginKeeps, AddFinalizerKeeps, CreateStepKeeps, DeleteStepKeeps, WriteStatusKeeps,
   WriteLostKeeps, RequestDeleteKeeps, SyncCacheKeeps, CloudStepKeeps, CrashKeeps,
   StutterKeeps
DEF Next, Reconcile, Resync

(* Every reachable state satisfies the inductive invariant.                *)
THEOREM Invariant == Spec => []IInv
BY InitKeeps, NextKeeps, PTL DEF Spec

(* The type invariant holds for every spec of the object, every set of     *)
(* preexisting resources, every quota and any number of faults.            *)
THEOREM TypeCorrect == Spec => []TypeOK
<1>1. IInv => TypeOK
  BY DEF IInv
<1> QED BY <1>1, Invariant, PTL

-----------------------------------------------------------------------------
(* Nothing is forgotten: only four steps change the object.                *)

LEMMA ObjectSteps ==
  ASSUME [Next]_vars
  PROVE  AddFinalizer \/ WriteStatus \/ RemoveFinalizer \/ RequestDelete \/ UNCHANGED stack
<1>1. CASE CreateStep
  BY <1>1
  DEF CreateStep, Creation, kube, UseExistingVpc, CreateVpc, ModifyVpc, CheckVPCReady, Wait,
      UseExistingIgw, CreateInternetGateway, AttachInternetGateway, UseExistingSubnets,
      CreateSubnet, RecordSubnet, SubnetsCreated, CheckSubnetsReady, UseExistingNats,
      AllocateAddress, NoPublicSubnetPanic, CreateNatGateway, NatsCreated,
      CheckNATGatewaysReady, UseExistingRouteTables, CreateRouteTable, RecordRouteTable,
      RouteTableFails, RouteTablesCreated, UseExistingSecurityGroups, CreateSecurityGroup,
      AuthorizeIngress, SecurityGroupsCreated, CreateBastionSecurityGroup, PrepareBastion,
      StoreKey, RunInstance, CheckBastionReady, QuotaExceeded, CreateCallFails
<1>2. CASE DeleteStep
  BY <1>2
  DEF DeleteStep, Deletion, kube, RetainResources, DeleteBastion, TerminateOrphan,
      DeleteKeyPair, DeleteBastionSG, DeleteRouteTable, DeleteNat, DeleteSubnet, DeleteIgw,
      DeleteSecurityGroup, DeleteOrphanRt, DeleteVpc, DeleteCallFails
<1>3. CASE Begin \/ Resync \/ WriteLost \/ SyncCache \/ CloudStep \/ Crash \/ UNCHANGED vars
  BY <1>3 DEF Begin, Resync, WriteLost, SyncCache, CloudStep, Crash, vars, kube
<1> QED BY <1>1, <1>2, <1>3 DEF Next, Reconcile

LEMMA ReleasedIsNotLive ==
  ASSUME NEW i, Released(i)
  PROVE  i \in Foreign \/ config.retain \/ ~Live(i)
BY DEF Released, Live, LiveStates

LEMMA ForgetsNothing ==
  ASSUME IInv, [Next]_vars, NEW i \in Forgotten
  PROVE  i \in Foreign \/ config.retain \/ ~Live(i)
<1>0. i \in Recorded(stack) /\ i \notin Recorded(stack')
  BY DEF Forgotten
<1>1. CASE AddFinalizer
  <2>1. stack' = [work EXCEPT !.finalizer = TRUE] /\ workFresh /\ pc = "addFinalizer"
    BY <1>1 DEF AddFinalizer
  <2>2. Recorded(stack') = Recorded(work)
    BY <2>1, WorkFacts, PhaseRecordsNothing
  <2> QED BY <1>0, <2>1, <2>2, ReleasedIsNotLive DEF IInv, Fresh
<1>2. CASE WriteStatus
  BY <1>0, <1>2, ReleasedIsNotLive DEF WriteStatus, IInv, Fresh
<1>3. CASE RemoveFinalizer
  BY <1>0, <1>3, ReleasedIsNotLive DEF RemoveFinalizer, IInv, Fresh
<1>4. CASE RequestDelete
  <2>1. stack.finalizer
    BY <1>0 DEF IInv, Guarded
  <2>2. stack' = [stack EXCEPT !.deleting = TRUE]
    BY <1>4, <2>1 DEF RequestDelete
  <2> QED BY <1>0, <2>2, CopiesFacts, PhaseRecordsNothing
<1>5. CASE UNCHANGED stack
  BY <1>0, <1>5
<1> QED BY <1>1, <1>2, <1>3, <1>4, <1>5, ObjectSteps

(* The object never lets go of a live resource the operator created: no    *)
(* lost write, stale read, crash or retry, in any number and in any order, *)
(* makes the status -- or the removal of the finalizer -- drop one.        *)
THEOREM NothingForgotten == Spec => NoLiveResourceForgotten
<1>1. IInv /\ [Next]_vars =>
        [\A i \in Forgotten : i \in Foreign \/ config.retain \/ ~Live(i)]_vars
  BY ForgetsNothing
<1> QED BY <1>1, Invariant, PTL DEF Spec, NoLiveResourceForgotten

-----------------------------------------------------------------------------
(* A deletion, once begun, is final.                                       *)

LEMMA KindsStay ==
  ASSUME IInv, NEW i, NEW state,
         \/ UNCHANGED cloud
         \/ cloud' = InState(i, state)
         \/ cloud' = TableDeleted(i)
         \/ cloud' = GatewayDeleted(i)
         \/ cloud' = [cloud EXCEPT ![i].uses = {}]
  PROVE  Unused' = Unused
<1> SUFFICES ASSUME NEW j \in Ids PROVE cloud'[j].kind = cloud[j].kind
  BY DEF Unused
<1>1. cloud \in [Ids -> Resource] /\ cloud[j] \in Resource
  BY DEF IInv, TypeOK
<1>2. CASE i # j
  BY <1>1, <1>2 DEF InState, TableDeleted, GatewayDeleted
<1>3. CASE i = j
  <2>1. CASE cloud' = TableDeleted(i)
    BY <1>1, <1>3, <2>1 DEF TableDeleted, Resource
  <2>2. CASE cloud' = GatewayDeleted(i)
    BY <1>1, <1>3, <2>2 DEF GatewayDeleted, Resource
  <2>3. CASE \/ UNCHANGED cloud \/ cloud' = InState(i, state)
             \/ cloud' = [cloud EXCEPT ![i].uses = {}]
    BY <1>1, <1>3, <2>3 DEF InState, Resource
  <2> QED BY <2>1, <2>2, <2>3
<1> QED BY <1>2, <1>3

LEMMA NatDeletionKeepsKinds == ASSUME IInv, DeleteNat PROVE Unused' = Unused
<1>0. PICK nat : nat = Pick(work.nats)
  OBVIOUS
<1> DEFINE gone == [i \in Ids |-> IF i \in EipOf(nat)
                                  THEN [cloud[i] EXCEPT !.state = "deleted"]
                                  ELSE cloud[i]]
<1>1. cloud' = InState(nat, "deleting") \/ cloud' = gone \/ UNCHANGED cloud
  BY <1>0 DEF DeleteNat
<1>2. CASE cloud' = gone
  <2> SUFFICES ASSUME NEW j \in Ids PROVE cloud'[j].kind = cloud[j].kind
    BY DEF Unused
  <2>1. cloud[j] \in Resource
    BY DEF IInv, TypeOK
  <2>2. \/ cloud'[j] = [cloud[j] EXCEPT !.state = "deleted"]
        \/ cloud'[j] = cloud[j]
    BY <1>2
  <2> HIDE DEF gone
  <2> QED BY <2>1, <2>2 DEF Resource
<1> HIDE DEF gone
<1> QED BY <1>1, <1>2, KindsStay

(* No step of a deletion, and none of EC2's own, creates anything.         *)
LEMMA DeletionCreatesNothing ==
  ASSUME IInv, DeleteStep \/ CloudStep PROVE Unused' = Unused
<1>1. CASE DeleteBastionSG \/ DeleteVpc \/ DeleteSubnet \/ DeleteSecurityGroup
  <2>1. PICK i, o : DeleteOrWait(i, o)
    BY <1>1 DEF DeleteBastionSG, DeleteVpc, DeleteSubnet, DeleteSecurityGroup
  <2>2. UNCHANGED cloud \/ cloud' = InState(i, "deleted")
    BY <2>1 DEF DeleteOrWait, Retry
  <2> QED BY <2>2, KindsStay
<1>2. CASE DeleteBastion \/ TerminateOrphan
  <2>1. UNCHANGED cloud \/ \E i : cloud' = InState(i, "deleting")
    BY <1>2 DEF DeleteBastion, TerminateOrphan
  <2> QED BY <2>1, KindsStay
<1>3. CASE DeleteRouteTable \/ DeleteOrphanRt
  <2>1. \E i : cloud' = TableDeleted(i)
    BY <1>3 DEF DeleteRouteTable, DeleteOrphanRt
  <2> QED BY <2>1, KindsStay
<1>4. CASE DeleteIgw
  <2>1. \/ UNCHANGED cloud
        \/ cloud' = GatewayDeleted(work.igw)
        \/ cloud' = [cloud EXCEPT ![work.igw].uses = {}]
    BY <1>4 DEF DeleteIgw, Retry
  <2> QED BY <2>1, KindsStay
<1>5. CASE RetainResources \/ DeleteKeyPair \/ RemoveFinalizer \/ DeleteCallFails
  <2>1. UNCHANGED cloud
    BY <1>5 DEF RetainResources, DeleteKeyPair, RemoveFinalizer, DeleteCallFails, Retry
  <2> QED BY <2>1 DEF Unused
<1>6. CASE CloudStep
  <2>1. \E i, state : cloud' = InState(i, state)
    BY <1>6 DEF CloudStep, Settle, NatFails
  <2> QED BY <2>1, KindsStay
<1> QED BY <1>1, <1>2, <1>3, <1>4, <1>5, <1>6, NatDeletionKeepsKinds DEF DeleteStep

LEMMA CreationIsOver ==
  ASSUME IInv, stack.phase = "Deleting"
  PROVE  ~CreateStep /\ ~AddFinalizer /\ ~RequestDelete
<1>1. pc \notin CreatingPcs
  BY DEF IInv, Marked, InFlight, CreatingPcs, CreationPhases
<1>2. ~CreateStep
  BY <1>1
  DEF CreateStep, CreatingPcs, CreationPhases, UseExistingVpc, CreateVpc, ModifyVpc,
      CheckVPCReady, UseExistingIgw, CreateInternetGateway, AttachInternetGateway,
      UseExistingSubnets, CreateSubnet, RecordSubnet, SubnetsCreated, CheckSubnetsReady,
      UseExistingNats, AllocateAddress, NoPublicSubnetPanic, CreateNatGateway, NatsCreated,
      CheckNATGatewaysReady, UseExistingRouteTables, CreateRouteTable, RecordRouteTable,
      RouteTableFails, RouteTablesCreated, UseExistingSecurityGroups, CreateSecurityGroup,
      AuthorizeIngress, SecurityGroupsCreated, CreateBastionSecurityGroup, PrepareBastion,
      StoreKey, RunInstance, CheckBastionReady, QuotaExceeded, CreateCallFails
<1>3. ~AddFinalizer
  BY <1>1 DEF AddFinalizer, CreatingPcs
<1>4. ~RequestDelete
  BY DEF RequestDelete, IInv, Marked
<1> QED BY <1>2, <1>3, <1>4

LEMMA StaysDeleting ==
  ASSUME IInv, [Next]_vars, stack.phase = "Deleting", stack'.exists
  PROVE  stack'.phase = "Deleting" /\ Unused' = Unused
<1>1. stack'.phase = "Deleting"
  <2>1. CASE WriteStatus
    BY <2>1 DEF WriteStatus, IInv, Marked, InFlight
  <2>2. CASE RemoveFinalizer
    BY <2>2 DEF RemoveFinalizer, NoObject
  <2>3. CASE UNCHANGED stack
    BY <2>3
  <2> QED BY <2>1, <2>2, <2>3, ObjectSteps, CreationIsOver
<1>2. Unused' = Unused
  <2>1. CASE DeleteStep \/ CloudStep
    BY <2>1, DeletionCreatesNothing
  <2>2. CASE Begin \/ Resync \/ WriteStatus \/ WriteLost \/ SyncCache \/ Crash \/ UNCHANGED vars
    <3>1. UNCHANGED cloud
      BY <2>2 DEF Begin, Resync, WriteStatus, WriteLost, SyncCache, Crash, vars
    <3> QED BY <3>1 DEF Unused
  <2> QED BY <2>1, <2>2, CreationIsOver DEF Next, Reconcile
<1> QED BY <1>1, <1>2

(* Once the status says Deleting, no reconcile that had begun before, and  *)
(* none that reads a stale cache, writes another phase or creates anything.*)
THEOREM DeletingStays == Spec => DeletingIsFinal
<1>1. IInv /\ [Next]_vars =>
        [stack.phase = "Deleting" /\ stack'.exists =>
           /\ stack'.phase = "Deleting"
           /\ Unused' = Unused]_vars
  BY StaysDeleting
<1> QED BY <1>1, Invariant, PTL DEF Spec, DeletingIsFinal
=============================================================================
