----------------------- MODULE SetupEKSDeletionProofs -----------------------
(* What the SetupEKS controller takes out of the status, for all setups of *)
(* a VPC of their own, as long as nothing goes wrong: from the first phase *)
(* to the deletion's end, nothing that lives on.                           *)
EXTENDS SetupEKSProofs

-----------------------------------------------------------------------------
(* What is known of the state, and what changes the object.                *)

LEMMA RecordsKnown ==
  ASSUME IInv
  PROVE  /\ object \in ObjectType /\ cache \in ObjectType /\ work \in ObjectType
         /\ object.rec \in RecordType /\ cache.rec \in RecordType /\ work.rec \in RecordType
         /\ made \in RecordType /\ None \notin Ids /\ cloud \in [Ids -> ResourceType]
         /\ \A i \in Ids : cloud[i].state = "none" <=> cloud[i].part = ""
         /\ config \in Setups /\ faults \in Nat /\ todo \in Seq(Steps)
<1>1. TypeOK
  BY DEF IInv
<1>2. faults \in Nat
  <2>1. faults \in 0..MaxFaults
    BY <1>1 DEF TypeOK
  <2> QED BY <2>1, BoundsAssumption
<1>3. None \notin Ids
  BY BoundsAssumption DEF Ids, None
<1>4. object.rec \in RecordType /\ cache.rec \in RecordType /\ work.rec \in RecordType
  BY <1>1 DEF TypeOK, ObjectType
<1> QED BY <1>1, <1>2, <1>3, <1>4 DEF TypeOK

(* No step takes back a fault, or brings an object into being.             *)
LEMMA FaultsStay ==
  ASSUME [Next]_vars
  PROVE  UNCHANGED faults \/ Fault
<1>1. CASE Script
  <2>1. CASE MakeRefused \/ SetRefused \/ DeleteRefused \/ CallFails
    BY <2>1 DEF MakeRefused, SetRefused, DeleteRefused, CallFails, Refused
  <2>2. CASE MakeCall \/ FindCall \/ SetCall \/ DeleteCall \/ AwaitCall \/ DetachCall \/ ClearStep
    BY <2>2, Zenon DEF MakeCall, FindCall, SetCall, DeleteCall, AwaitCall, DetachCall, ClearStep, Unaltered
  <2>3. CASE SweepCall \/ SweepHeldUp
    BY <2>3 DEF SweepCall, SweepHeldUp
  <2> QED BY <1>1, <2>1, <2>2, <2>3 DEF Script
<1>2. CASE Reconcile /\ ~Script
  <2>1. CASE BeginSync \/ BeginDeletion
    BY <2>1 DEF BeginSync, BeginDeletion, ReadObject
  <2>2. CASE AddFinalizer \/ BeginPhase \/ EndPhase \/ EndDeletion \/ Check
    BY <2>2 DEF AddFinalizer, BeginPhase, EndPhase, EndDeletion, Check
  <2>3. CASE CheckFails \/ WriteStatus \/ RemoveFinalizer \/ WriteFails
    BY <2>3 DEF CheckFails, WriteStatus, RemoveFinalizer, WritesBack, WriteFails
  <2> QED BY <1>2, <2>1, <2>2, <2>3 DEF Reconcile
<1>3. CASE Environment
  BY <1>3 DEF Environment, Crash, SyncCache, RequestDelete, CloudStep, FailToStart, Expose
<1>4. CASE UNCHANGED vars
  BY <1>4 DEF vars
<1> QED BY <1>1, <1>2, <1>3, <1>4 DEF Next

LEMMA ScriptKeepsObject ==
  ASSUME Script
  PROVE  UNCHANGED <<config, object, cache, cacheFresh, workFresh>>
<1>1. (\E ids : Proceed(ids)) \/ PhaseFails \/ Halt \/ PassOver
  BY StepEnds
<1>2. ASSUME NEW ids, Proceed(ids) PROVE Keeping
  BY <1>2 DEF Proceed
<1>3. Keeping
  BY <1>1, <1>2 DEF PhaseFails, Wait, Halt, PassOver
<1> QED BY <1>3 DEF Keeping, kube

LEMMA ObjectSteps ==
  ASSUME [Next]_vars
  PROVE  UNCHANGED object \/ AddFinalizer \/ WriteStatus \/ RemoveFinalizer \/ RequestDelete
<1>1. CASE Script
  BY <1>1, ScriptKeepsObject
<1>2. CASE Reconcile /\ ~Script
  BY <1>2 DEF Reconcile, BeginSync, BeginDeletion, ReadObject, BeginPhase, EndPhase, EndDeletion,
     Check, CheckFails, PhaseFails, WriteFails, Keeping, kube
<1>3. CASE Environment
  BY <1>3 DEF Environment, Crash, SyncCache, CloudStep, FailToStart, Expose, kube
<1>4. CASE UNCHANGED vars
  BY <1>4 DEF vars
<1> QED BY <1>1, <1>2, <1>3, <1>4 DEF Next

LEMMA GoneFacts == ~Gone.exists /\ Gone.rec = NoRecord
BY DEF Gone, Object

LEMMA MindedBefore ==
  ASSUME IInv, [Next]_vars, Minded'
  PROVE  Minded /\ ~Fault /\ UNCHANGED <<config, faults>>
<1>1. config' = config
  BY ConfigStays
<1>2. ~Fault /\ UNCHANGED faults
  <2>1. faults \in Nat /\ faults' = 0
    BY RecordsKnown DEF Minded
  <2>2. ~Fault
    BY <2>1 DEF Fault
  <2> QED BY <2>2, FaultsStay
<1>3. object.exists
  <2>1. CASE AddFinalizer
    BY <2>1, RecordsKnown DEF AddFinalizer, ObjectType, Minded
  <2>2. CASE WriteStatus \/ RemoveFinalizer
    BY <2>2 DEF WriteStatus, RemoveFinalizer, WritesBack, IInv, Copies, Minded
  <2>3. CASE RequestDelete
    BY <2>3 DEF RequestDelete
  <2> QED BY <2>1, <2>2, <2>3, ObjectSteps DEF Minded
<1> QED BY <1>1, <1>2, <1>3 DEF Minded, OwnVpc

-----------------------------------------------------------------------------
(* What the records stand for, while AWS changes.                          *)

(* Nothing becomes something else, and nothing comes up again.             *)
Alike ==
  \A i \in Ids :
    /\ cloud'[i].part = cloud[i].part /\ cloud'[i].network = cloud[i].network
    /\ cloud'[i].address = cloud[i].address
    /\ cloud'[i].state = "none" <=> cloud[i].state = "none"

Fades == Alike /\ Live' \subseteq Live /\ Described' \subseteq Described

Stands == Alike /\ Live' = Live /\ Described' \subseteq Described

LEMMA SameStands == ASSUME UNCHANGED cloud PROVE Stands
BY DEF Stands, Alike, Described, Live

LEMMA LivesIn == \A i \in Live : i \in Ids /\ i \in Described
BY DEF Live, Described

LEMMA FadesWithin ==
  ASSUME Fades
  PROVE  \A network, parts : Within(network, parts)' \subseteq Within(network, parts)
<1>1. SUFFICES ASSUME NEW network, NEW parts, NEW i \in Within(network, parts)'
               PROVE  i \in Within(network, parts)
  OBVIOUS
<1>2. i \in Described' /\ cloud'[i].part \in parts /\ cloud'[i].network = network
  BY <1>1 DEF Within, Of
<1>3. i \in Described /\ i \in Ids
  BY <1>2 DEF Fades, Described, Live
<1> QED BY <1>2, <1>3 DEF Within, Of, Fades, Alike

(* A record stays true as long as there is a subnet to tell.               *)
LEMMA SituatedFades ==
  ASSUME IInv, Fades, NEW rec \in RecordType, Situated(rec),
         rec["vpc"] # None /\ Within(rec["vpc"], Hanging)' # {} => \E part \in Subnets : rec[part] \in Live'
  PROVE  Situated(rec)'
<1>1. \A part \in Parts : rec[part] \in Ids \cup {None}
  BY DEF RecordType
<1>2. InVpc \subseteq Parts /\ \A z \in Zones : Eip[z] \in Parts /\ NAT[z] \in Parts
  BY PartNames DEF InVpc
<1>3. ASSUME NEW part \in Parts \ NoPart(rec)
      PROVE  cloud'[rec[part]].part = part
  BY <1>1, <1>3 DEF Situated, Titled, Fades, Alike, NoPart
<1>4. ASSUME NEW part \in InVpc \ NoPart(rec)
      PROVE  rec["vpc"] # None /\ cloud'[rec[part]].network = rec["vpc"]
  BY <1>1, <1>2, <1>4 DEF Situated, Fades, Alike, NoPart
<1>5. ASSUME NEW z \in Zones, rec[Eip[z]] # None
      PROVE  /\ rec[NAT[z]] # None
             /\ \A i \in Ids : cloud'[i].address = rec[Eip[z]] => i = rec[NAT[z]]
  BY <1>5 DEF Situated, Fades, Alike
<1> QED BY <1>3, <1>4, <1>5 DEF Situated, Titled, NoPart

LEMMA SituatedStands ==
  ASSUME IInv, Stands, NEW rec \in RecordType, Situated(rec)
  PROVE  Situated(rec)'
<1>1. Fades
  BY DEF Fades, Stands
<1>2. rec["vpc"] # None /\ Within(rec["vpc"], Hanging)' # {} => \E part \in Subnets : rec[part] \in Live'
  <2>1. Within(rec["vpc"], Hanging)' \subseteq Within(rec["vpc"], Hanging)
    <3>1. Hanging' = Hanging
      BY DEF Hanging
    <3> QED BY <1>1, <3>1, FadesWithin
  <2>2. rec["vpc"] # None /\ Within(rec["vpc"], Hanging) # {} => \E part \in Subnets : rec[part] \in Live
    BY DEF Situated
  <2> QED BY <2>1, <2>2 DEF Stands
<1> QED BY <1>1, <1>2, SituatedFades

-----------------------------------------------------------------------------
(* A step that nothing goes wrong with.                                    *)
Watched ==
  /\ IInv /\ IInv' /\ RInv /\ RInv' /\ Minded /\ Minded' /\ Mindful
  /\ ~Fault /\ UNCHANGED <<config, faults>>

LEMMA MindedFacts ==
  ASSUME IInv, Minded
  PROVE  /\ Kept = {} /\ Foreign = {} /\ OwnVpc /\ OwnSubnets /\ config.policy = "Delete"
         /\ faults = 0 /\ object.exists
<1>1. config.existing = "nothing"
  BY DEF Minded, OwnVpc
<1>2. Foreign = {}
  BY <1>1 DEF Foreign, ForeignPart, ForeignParts
<1>3. OwnVpc /\ OwnSubnets
  BY <1>1 DEF OwnVpc, OwnSubnets
<1> QED BY <1>2, <1>3 DEF Kept, Minded

LEMMA SameSituated ==
  ASSUME UNCHANGED cloud, NEW rec, Situated(rec)
  PROVE  Situated(rec)'
<1>1. Live' = Live /\ Described' = Described
  BY DEF Live, Described
<1>2. Within(rec["vpc"], Hanging)' = Within(rec["vpc"], Hanging)
  BY <1>1 DEF Within, Of, Hanging
<1> QED BY <1>1, <1>2 DEF Situated, Titled, NoPart

LEMMA RankIs == \A phase : Rank(phase) \in 0..17
BY RankOf DEF Rank, Ranks

(* Where neither what is recorded nor AWS changes.                         *)
LEMMA SameStanding ==
  ASSUME UNCHANGED <<object.rec, object.phase, cloud>>
  PROVE  /\ Standing => Standing'
         /\ \A rec : Situated(rec) => Situated(rec)'
         /\ FoundedSteps' = FoundedSteps
<1>1. Live' = Live /\ Described' = Described
  BY DEF Live, Described
<1>2. \A parts : Of(parts)' = Of(parts)
  BY <1>1 DEF Of
<1>4. Hanging' = Hanging /\ Rank(object.phase)' = Rank(object.phase)
  BY DEF Rank
<1>5. Standing => Standing'
  <2>1. Of(Hanging)' = Of(Hanging)
    BY <1>2, <1>4
  <2> QED BY <1>4, <2>1 DEF Standing
<1>6. ASSUME NEW rec, Situated(rec)
      PROVE  Situated(rec)'
  BY <1>6, SameSituated
<1>7. FoundedSteps' = FoundedSteps
  BY DEF FoundedSteps
<1> QED BY <1>5, <1>6, <1>7

LEMMA LocalMindful ==
  ASSUME Mindful, UNCHANGED <<object.rec, object.phase, cloud>>,
         object.finalizer => object'.finalizer,
         pc' = "idle" \/ ~work'.deleting => pc = "idle" \/ ~work.deleting,
         pc' # "idle" => IF work'.deleting THEN Departing' ELSE Arriving'
  PROVE  Mindful'
<1>1. object'.phase # "Deleting" => Standing'
  BY SameStanding DEF Mindful
<1>2. pc' = "idle" \/ ~work'.deleting => Situated(object.rec)'
  <2>1. PICK rec : rec = object.rec
    OBVIOUS
  <2>2. Situated(rec) => Situated(rec)'
    BY SameStanding
  <2>3. Situated(rec)' <=> Situated(object.rec)'
    BY <2>1
  <2> QED BY <2>1, <2>2, <2>3 DEF Mindful
<1>3. Titled(object.rec)'
  BY DEF Mindful, Titled, NoPart
<1> QED BY <1>1, <1>2, <1>3 DEF Mindful

LEMMA ArrivesStill ==
  ASSUME Arriving, UNCHANGED <<object.rec, object.phase, cloud, made>>, workFresh' => workFresh,
         work'.rec = work.rec,
         pc' # "release", pc' \in {"finalizer", "phase", "run"} => work'.phase = object.phase,
         todo' \in Seq(FoundedSteps)
  PROVE  Arriving'
<1>1. PICK rec : rec = work.rec
  OBVIOUS
<1>2. Situated(rec) => Situated(rec)'
  BY SameStanding
<1>3. Situated(work.rec) => Situated(work.rec)'
  BY <1>1, <1>2
<1>4. InStep => InStep'
  BY DEF InStep, Live
<1>5. todo' \in Seq(FoundedSteps')
  BY SameStanding
<1> QED BY <1>3, <1>4, <1>5 DEF Arriving, NoPart

LEMMA DepartsStill ==
  ASSUME Departing, UNCHANGED <<object.rec, object.phase, cloud, workFresh>>,
         work'.rec = work.rec,
         work'.phase = "Deleting",
         pc' \in {"phase", "run", "release"} => object.phase = "Deleting",
         pc' = "run" => Clearing(todo)', pc' = "release" => work.rec = NoRecord
  PROVE  Departing'
<1>1. PICK rec : rec = work.rec
  OBVIOUS
<1>2. Situated(rec) => Situated(rec)'
  BY SameStanding
<1>3. Situated(work.rec)'
  BY <1>1, <1>2 DEF Departing
<1>4. InStep'
  BY DEF Departing, InStep, Live
<1> QED BY <1>3, <1>4 DEF Departing

LEMMA ReadMinds ==
  ASSUME Watched, BeginSync \/ BeginDeletion
  PROVE  Mindful'
<1>1. /\ pc = "idle" /\ cacheFresh /\ workFresh' = cacheFresh /\ todo' = <<>> /\ made' = NoRecord
      /\ UNCHANGED <<object, cache, cloud>>
  BY DEF Watched, BeginSync, BeginDeletion, ReadObject
<1>2. cache = object /\ Sound(object) /\ object \in ObjectType /\ Mindful
  BY <1>1, RecordsKnown DEF Watched, IInv, Copies
<1>3. work'.rec = object.rec /\ work'.deleting = object.deleting
  BY <1>2 DEF BeginSync, BeginDeletion, ObjectType
<1>4. Situated(work.rec)' /\ InStep'
  <2>1. Situated(object.rec)
    BY <1>1 DEF Watched, Mindful
  <2>2. PICK rec : rec = object.rec
    OBVIOUS
  <2>3. Situated(rec)'
    BY <1>1, <2>1, <2>2, SameStanding
  <2>4. work'.rec = rec
    BY <1>3, <2>2
  <2> QED BY <1>1, <1>3, <2>3, <2>4 DEF InStep
<1>5. CASE BeginSync
  <2>1. ~work'.deleting /\ pc' \in {"phase", "finalizer"} /\ work' = object
    BY <1>2, <1>5 DEF BeginSync
  <2>2. object.phase # "Deleting"
    BY <1>2, <2>1 DEF Sound
  <2>3. \A part \in Parts : NoRecord[part] = None
    BY DEF NoRecord
  <2>4. \A z \in Zones : Eip[z] \in Parts
    BY PartNames
  <2>5. (InVpc \ NoPart(made)) ' = {}
    BY <1>1, <2>3, PartNames DEF NoPart, InVpc
  <2>6. todo' \in Seq(FoundedSteps')
    BY <1>1
  <2>7. Arriving'
    BY <1>1, <1>3, <1>4, <2>1, <2>2, <2>3, <2>4, <2>5, <2>6 DEF Arriving
  <2> QED BY <1>1, <1>2, <2>1, <2>7, LocalMindful
<1>6. CASE BeginDeletion
  <2>1. work'.deleting /\ work'.phase = "Deleting" /\ pc' \in {"phase", "status"}
    BY <1>2, <1>6 DEF BeginDeletion, ObjectType
  <2>2. pc' = "phase" => object.phase = "Deleting"
    BY <1>2, <1>6 DEF BeginDeletion
  <2>3. Departing'
    BY <1>1, <1>4, <2>1, <2>2 DEF Departing
  <2> QED BY <1>1, <1>2, <2>1, <2>3, LocalMindful
<1> QED BY <1>5, <1>6

LEMMA NoMoreSteps == <<>> \in Seq(FoundedSteps) /\ Coming(<<>>) = {}
<1>1. Len(<<>>) = 0
  OBVIOUS
<1>2. Coming(<<>>) = {}
  BY <1>1 DEF Coming
<1> QED BY <1>2

LEMMA EndMinds ==
  ASSUME Watched, EndPhase \/ EndDeletion \/ Check
  PROVE  Mindful'
<1>1. UNCHANGED <<object, cloud, made, workFresh, todo>> /\ work \in ObjectType /\ Mindful
  BY RecordsKnown DEF Watched, EndPhase, EndDeletion, Check, Keeping, kube
<1>2. CASE EndPhase
  <2>1. /\ ~work.deleting /\ ~work'.deleting /\ work'.rec = work.rec
        /\ pc = "run" /\ pc' = "status" /\ todo = <<>>
    BY <1>1, <1>2 DEF EndPhase, ObjectType
  <2>2. Arriving'
    BY <1>1, <2>1, ArrivesStill, NoMoreSteps DEF Mindful
  <2> QED BY <1>1, <2>1, <2>2, LocalMindful
<1>3. CASE EndDeletion
  <2>1. /\ work.deleting /\ work' = work /\ pc = "run" /\ pc' = "release" /\ todo = <<>>
    BY <1>3 DEF EndDeletion
  <2>2. Departing /\ Clearing(<<>>)
    BY <1>1, <2>1 DEF Mindful, Departing
  <2>3. work.rec = NoRecord
    <3>1. Parts \subseteq NoPart(work.rec)
      BY <2>2, NoMoreSteps DEF Clearing
    <3>2. work.rec \in [Parts -> Ids \cup {None}]
      BY RecordsKnown DEF Watched, RecordType
    <3>3. \A part \in Parts : work.rec[part] = None
      BY <3>1 DEF NoPart
    <3> QED BY <3>2, <3>3 DEF NoRecord
  <2>4. Departing'
    BY <1>1, <2>1, <2>2, <2>3, DepartsStill DEF Departing
  <2> QED BY <1>1, <2>1, <2>4, LocalMindful
<1>4. CASE Check
  <2>1. /\ pc = "phase" /\ work' = work /\ pc' \in {"run", "status"} /\ work.phase \in Waiting
    BY <1>4 DEF Check
  <2>2. ~work.deleting
    BY <1>1, <2>1 DEF Mindful, Departing, Waiting, AwaitedIn
  <2>3. Arriving
    BY <1>1, <2>1, <2>2 DEF Mindful
  <2>4. Arriving'
    BY <1>1, <2>1, <2>3, ArrivesStill DEF Arriving
  <2> QED BY <1>1, <2>1, <2>2, <2>4, LocalMindful
<1> QED BY <1>2, <1>3, <1>4

LEMMA StillMindful ==
  ASSUME Mindful, UNCHANGED <<object, cloud, pc, work, workFresh, todo, made>>
  PROVE  Mindful'
<1>1. pc # "idle" /\ work.deleting => Departing'
  <2>1. Clearing(todo)' <=> Clearing(todo)
    BY DEF Clearing, InPlace, Coming, NoPart, Live, Described, Loose, Dismissed
  <2> QED BY <2>1, DepartsStill DEF Mindful, Departing
<1>2. pc # "idle" /\ ~work.deleting => Arriving'
  BY ArrivesStill DEF Mindful, Arriving
<1> QED BY <1>1, <1>2, LocalMindful

LEMMA SyncMinds ==
  ASSUME Watched, SyncCache
  PROVE  Mindful'
BY StillMindful DEF SyncCache, local, Watched

LEMMA StopMinds ==
  ASSUME Watched, pc = "run", (PhaseFails /\ ~work.deleting) \/ Wait
  PROVE  Mindful'
<1>1. /\ UNCHANGED <<object, cloud, made, workFresh>> /\ work \in ObjectType /\ Mindful
      /\ pc' = "status" /\ todo' = <<>>
  BY RecordsKnown DEF Watched, PhaseFails, Wait, Halt, Keeping, kube
<1>2. work'.rec = work.rec /\ work'.deleting = work.deleting
  BY <1>1 DEF PhaseFails, Wait, Halt, ObjectType
<1>3. CASE work.deleting
  <2>1. Departing /\ work' = work
    BY <1>1, <1>3 DEF Mindful, Wait, Halt
  <2>2. Departing'
    BY <1>1, <2>1, DepartsStill DEF Departing
  <2> QED BY <1>1, <1>2, <1>3, <2>2, LocalMindful
<1>4. CASE ~work.deleting
  <2>1. Arriving
    BY <1>1, <1>4 DEF Mindful
  <2>2. Arriving'
    BY <1>1, <1>2, <2>1, ArrivesStill, NoMoreSteps
  <2> QED BY <1>1, <1>2, <1>4, <2>2, LocalMindful
<1> QED BY <1>3, <1>4

LEMMA FinalizerMinds ==
  ASSUME Watched, AddFinalizer
  PROVE  Mindful'
<1>1. UNCHANGED cloud /\ object \in ObjectType /\ work \in ObjectType /\ Mindful /\ pc = "finalizer" /\ ~work.deleting
  BY RecordsKnown DEF Watched, AddFinalizer, IInv, AtPc
<1>2. UNCHANGED <<object.rec, object.phase>> /\ (object.finalizer => object'.finalizer)
  BY <1>1 DEF AddFinalizer, ObjectType
<1>3. CASE workFresh
  <2>1. /\ UNCHANGED <<workFresh, todo, made>> /\ pc' = "phase" /\ work'.rec = work.rec
        /\ work'.phase = work.phase /\ ~work'.deleting
    BY <1>1, <1>3 DEF AddFinalizer, ObjectType
  <2>2. Arriving /\ work.phase = object.phase
    <3>1. Arriving
      BY <1>1 DEF Mindful
    <3> QED BY <1>1, <3>1 DEF Arriving
  <2>3. Arriving'
    BY <1>1, <1>2, <2>1, <2>2, ArrivesStill DEF Arriving
  <2> QED BY <1>1, <1>2, <2>1, <2>3, LocalMindful
<1>4. CASE ~workFresh
  <2>1. pc' = "idle"
    BY <1>4 DEF AddFinalizer, Return
  <2> QED BY <1>1, <1>2, <2>1, LocalMindful
<1> QED BY <1>3, <1>4

(* What is recorded lives, as long as nobody deletes.                      *)
LEMMA RecordedLive ==
  ASSUME IInv, Standing, NEW rec \in RecordType, Situated(rec)
  PROVE  \A part \in Parts : rec[part] # None => rec[part] \in Live
<1> SUFFICES ASSUME NEW part \in Parts, rec[part] # None PROVE rec[part] \in Live
  OBVIOUS
<1>1. rec[part] \in Ids /\ cloud[rec[part]].part = part
  BY DEF RecordType, Situated, Titled, NoPart
<1>2. part # ""
  BY Named
<1>3. cloud[rec[part]].state # "none"
  BY <1>1, <1>2, RecordsKnown
<1>4. cloud[rec[part]].state \in {"none", "pending", "available", "failed", "deleting", "gone"}
  BY <1>1, RecordsKnown DEF ResourceType
<1> QED BY <1>1, <1>3, <1>4 DEF Standing, Live

LEMMA WriteMinds ==
  ASSUME Watched, WriteStatus
  PROVE  Mindful'
<1>1. /\ UNCHANGED cloud /\ pc = "status" /\ pc' = "idle" /\ Mindful
      /\ work.finalizer /\ IF workFresh THEN object' = work ELSE UNCHANGED object
  BY DEF Watched, WriteStatus, WritesBack, Return, IInv, AtPc
<1>2. CASE ~workFresh
  <2>1. ~work.deleting
    BY <1>1, <1>2 DEF Mindful, Departing
  <2> QED BY <1>1, <1>2, <2>1, LocalMindful
<1>3. CASE workFresh
  <2>1. object' = work
    BY <1>1, <1>3
  <2>2. Situated(work.rec)
    BY <1>1, <1>3 DEF Mindful, Departing, Arriving
  <2>3. Situated(object.rec)'
    <3>1. PICK rec : rec = work.rec
      OBVIOUS
    <3>2. Situated(rec) => Situated(rec)'
      BY <1>1, SameSituated
    <3>3. object'.rec = rec
      BY <2>1, <3>1
    <3> QED BY <1>1, <2>2, <3>1, <3>2, <3>3
  <2>4. ASSUME object'.phase # "Deleting" PROVE Standing'
    <3>1. ~work.deleting
      BY <1>1, <2>1, <2>4 DEF Mindful, Departing
    <3>2. Arriving /\ Standing /\ Situated(object.rec) /\ InStep
      BY <1>1, <1>3, <3>1 DEF Mindful, Arriving
    <3>3. ~Asked'
      BY <2>1, <3>1 DEF Watched, Minded, Asked
    <3>4. Reached(object)'
      BY <3>3 DEF Watched, RInv, Sure, Whole
    <3>5. {"vpc", "public1"} \subseteq Promised'
      <4>1. {"vpc", "public1"} \subseteq Needed
        BY RecordsKnown, NeededOf, Named DEF Watched
      <4>2. Needed' = Needed
        BY DEF Watched, Needed
      <4> QED BY <4>1, <4>2 DEF Promised
    <3>6. "vpc" \in Makes["CreatingVPC"] /\ "public1" \in Makes["CreatingSubnets"]
      BY Named DEF Makes
    <3>7. "CreatingVPC" \in Creating /\ "CreatingSubnets" \in Creating
      BY DEF Creating
    <3>8. /\ Rank("CreatingVPC") < Rank(work.phase) => work.rec["vpc"] # None
          /\ Rank("CreatingSubnets") < Rank(work.phase) => work.rec["public1"] # None
      <4>1. \A phase \in Creating :
              Rank(phase) < Rank(work.phase) => Promised' \cap Makes[phase] \cap NoPart(work.rec) = {}
        BY <2>1, <3>4 DEF Reached, Rank, NoPart
      <4>2. \A part \in {"vpc", "public1"} : part \notin NoPart(work.rec) => work.rec[part] # None
        BY Named DEF NoPart
      <4> QED BY <3>5, <3>6, <3>7, <4>1, <4>2
    <3>9. Of(Hanging) # {} => work.rec["public1"] # None
      <4>1. ASSUME Of(Hanging) # {} PROVE work.rec["public1"] # None
        <5>1. object.rec["public1"] # None /\ "public1" \in Parts
          BY <3>2, <4>1, Named DEF Standing
        <5>2. object.rec["public1"] \in Live
          BY <3>2, <5>1, RecordsKnown, RecordedLive DEF Watched
        <5> QED BY <3>2, <5>1, <5>2 DEF InStep
      <4> QED BY <4>1
    <3>10. Of(Hanging)' = Of(Hanging)
      BY <1>1 DEF Of, Hanging, Described, Live
    <3>11. /\ Rank("CreatingVPC") \in Int /\ Rank("CreatingSubnets") \in Int
           /\ Rank(object.phase)' = Rank(work.phase) /\ Rank(work.phase) \in Int
           /\ Rank("CreatingVPC")' = Rank("CreatingVPC") /\ Rank("CreatingSubnets")' = Rank("CreatingSubnets")
      <4>1. Rank(work.phase) \in Int
        BY RankIs
      <4>2. Rank(object.phase)' = Rank(work.phase)
        <5>1. object'.phase = work.phase
          BY <2>1
        <5> QED BY <5>1 DEF Rank
      <4>3. Rank("CreatingVPC") \in Int /\ Rank("CreatingSubnets") \in Int
        BY RankIs
      <4>4. Rank("CreatingVPC")' = Rank("CreatingVPC") /\ Rank("CreatingSubnets")' = Rank("CreatingSubnets")
        BY DEF Rank
      <4> QED BY <4>1, <4>2, <4>3, <4>4
    <3>12. /\ Rank(object.phase)' > Rank("CreatingVPC")' => object'.rec["vpc"] # None
           /\ Rank(object.phase)' > Rank("CreatingSubnets")' => object'.rec["public1"] # None
      BY <2>1, <3>8, <3>11
    <3>13. Of(Hanging)' # {} => object'.rec["public1"] # None
      BY <2>1, <3>9, <3>10
    <3> QED BY <1>1, <3>2, <3>12, <3>13 DEF Standing
  <2> QED BY <1>1, <2>1, <2>3, <2>4 DEF Mindful, Situated
<1> QED BY <1>2, <1>3

LEMMA ReleaseMinds ==
  ASSUME Watched, RemoveFinalizer
  PROVE  Mindful'
<1>1. pc = "release" /\ Mindful
  BY DEF Watched, RemoveFinalizer
<1>2. workFresh
  BY <1>1 DEF Mindful, Departing, Arriving
<1>3. object' = Gone
  BY <1>2 DEF RemoveFinalizer, WritesBack
<1> QED BY <1>3, GoneFacts DEF Watched, Minded

LEMMA RequestMinds ==
  ASSUME Watched, RequestDelete
  PROVE  Mindful'
<1>1. /\ object.exists /\ ~object.deleting /\ object \in ObjectType /\ Mindful
      /\ ~workFresh' /\ UNCHANGED <<cache, pc, work, todo, made, cloud>>
  BY RecordsKnown DEF Watched, RequestDelete
<1>2. object' # Gone
  BY GoneFacts DEF Watched, Minded
<1>3. UNCHANGED <<object.rec, object.phase>> /\ (object.finalizer => object'.finalizer)
  BY <1>1, <1>2 DEF RequestDelete, ObjectType
<1>4. ~work.deleting
  BY <1>1 DEF Watched, IInv, Copies, Asked
<1>5. pc # "idle" => Arriving'
  <2>1. pc # "idle" => Arriving
    BY <1>1, <1>4 DEF Mindful
  <2> QED BY <1>1, <1>3, <2>1, ArrivesStill DEF Arriving
<1> QED BY <1>1, <1>3, <1>4, <1>5, LocalMindful

-----------------------------------------------------------------------------
(* AWS by itself.                                                          *)

(* What is recorded does not come up again, or get anything.               *)
Wanes ==
  \A part \in Parts :
    /\ work.rec[part] \in Live' => work.rec[part] \in Live
    /\ work.rec[part] \in Described' => work.rec[part] \in Described
    /\ work.rec[part] \in Live => cloud'[work.rec[part]].settings \subseteq cloud[work.rec[part]].settings

LEMMA LooseStays ==
  ASSUME UNCHANGED work, Wanes, NEW part \in Parts, NEW before,
         work.rec[part] \in Live', Loose(part, before)
  PROVE  Loose(part, before)'
<1>1. work.rec[part] \in Live
  BY DEF Wanes
<1>2. ASSUME NEW z \in Zones, part = Eip[z],
             \/ work.rec[NAT[z]] \notin Described
             \/ \E step \in before : step.op = "await" /\ step.part = NAT[z]
      PROVE  \/ work'.rec[NAT[z]] \notin Described'
             \/ \E step \in before : step.op = "await" /\ step.part = NAT[z]
  BY <1>2, PartNames DEF Wanes
<1>3. Binding(part) \notin cloud[work.rec[part]].settings => Binding(part) \notin cloud'[work'.rec[part]].settings
  BY <1>1 DEF Wanes
<1> QED BY <1>2, <1>3 DEF Loose, Binding

LEMMA InPlaceStays ==
  ASSUME UNCHANGED work, Wanes, NEW step \in DeletingSteps, NEW before, InPlace(step, before)
  PROVE  InPlace(step, before)'
<1>1. step \in Steps /\ (step.op = "delete" => step.part \in Parts)
  BY DEF DeletingSteps
<1>2. step.records \subseteq Parts
  BY <1>1 DEF Steps
<1>3. ASSUME NEW part \in step.records, work.rec[part] \in Live'
      PROVE  \E other \in before \cup {step} : Removes(other, part)
  BY <1>2, <1>3 DEF Wanes, InPlace
<1>4. ASSUME step.op = "delete", step.inUse = "passes", work.rec[step.part] \in Live'
      PROVE  Loose(step.part, before)'
  <2>1. work.rec[step.part] \in Live
    BY <1>1, <1>4 DEF Wanes
  <2> QED BY <1>1, <1>4, <2>1, LooseStays DEF InPlace
<1>5. \A parts, others : Dismissed(parts, others)' <=> Dismissed(parts, others)
  BY DEF Dismissed, NoPart
<1> QED BY <1>3, <1>4, <1>5 DEF InPlace, Removes

LEMMA ClearingStays ==
  ASSUME UNCHANGED work, Wanes, NEW s \in Seq(DeletingSteps), Clearing(s)
  PROVE  Clearing(s)'
<1>1. ASSUME NEW k \in 1..Len(s)
      PROVE  InPlace(s[k], {s[j] : j \in 1..(k - 1)})'
  <2>1. PICK step, before : step = s[k] /\ before = {s[j] : j \in 1..(k - 1)}
    OBVIOUS
  <2>2. step \in DeletingSteps
    BY <1>1, <2>1
  <2>3. InPlace(step, before)
    BY <1>1, <2>1 DEF Clearing
  <2>4. InPlace(step, before)'
    BY <2>2, <2>3, InPlaceStays
  <2> QED BY <2>1, <2>4
<1> QED BY <1>1 DEF Clearing, NoPart, Coming

(* The object and Reconcile are where they were.                           *)
LEMMA DepartingWanes ==
  ASSUME IInv, Departing, work.deleting, UNCHANGED <<object, pc, work, workFresh, todo>>, Wanes,
         Situated(work.rec)', \A part \in Parts : object.rec[part] \in Live' => object.rec[part] \in Live
  PROVE  Departing'
<1>1. InStep'
  BY DEF Departing, InStep
<1>2. Clearing(todo) => Clearing(todo)'
  <2>1. PICK s : s = todo
    OBVIOUS
  <2>2. s \in Seq(DeletingSteps)
    BY <2>1 DEF IInv, AtPc
  <2>3. Clearing(s) => Clearing(s)'
    BY <2>2, ClearingStays
  <2> QED BY <2>1, <2>3
<1> QED BY <1>1, <1>2 DEF Departing

LEMMA CloudStepMinds ==
  ASSUME Watched, NEW i \in Ids, CloudStep(i)
  PROVE  Mindful'
<1>1. /\ UNCHANGED <<object, pc, work, workFresh, todo, made>> /\ Mindful
      /\ cloud[i].state \in {"pending", "deleting"} /\ cloud \in [Ids -> ResourceType]
  BY RecordsKnown DEF Watched, CloudStep, kube, local
<1>2. PICK new : new = [cloud[i] EXCEPT !.state = IF cloud[i].state = "pending" THEN "available" ELSE "gone"]
  OBVIOUS
<1>3. cloud' = [cloud EXCEPT ![i] = new]
  BY <1>2 DEF CloudStep
<1>4. /\ new.part = cloud[i].part /\ new.network = cloud[i].network /\ new.address = cloud[i].address
      /\ new.settings = cloud[i].settings
      /\ new.state = IF cloud[i].state = "pending" THEN "available" ELSE "gone"
  BY <1>1, <1>2 DEF ResourceType
<1>5. \A j \in Ids : cloud'[j] = IF j = i THEN new ELSE cloud[j]
  BY <1>1, <1>3
<1>6. Stands /\ \A j \in Ids : cloud'[j].settings = cloud[j].settings
  BY <1>1, <1>4, <1>5 DEF Stands, Alike, Live, Described
<1>7. \A rec \in RecordType : Situated(rec) => Situated(rec)'
  BY <1>6, SituatedStands DEF Watched
<1>8. object.rec \in RecordType /\ work.rec \in RecordType
  BY RecordsKnown DEF Watched
<1>9. (Situated(object.rec) => Situated(object.rec)') /\ (Situated(work.rec) => Situated(work.rec)')
  <2>1. PICK rec : rec = object.rec
    OBVIOUS
  <2>2. PICK rek : rek = work.rec
    OBVIOUS
  <2> QED BY <1>1, <1>7, <1>8, <2>1, <2>2
<1>10. Wanes
  BY <1>6, LivesIn DEF Wanes, Stands
<1>11. Titled(object.rec)'
  BY <1>1, <1>6, <1>8 DEF Mindful, Titled, NoPart, Stands, Alike, RecordType
<1>12. object.phase # "Deleting" => Standing'
  <2>1. ASSUME object.phase # "Deleting" PROVE Standing'
    <3>1. Standing
      BY <1>1, <2>1 DEF Mindful
    <3>2. \A j \in Ids : cloud'[j].state \notin {"deleting", "gone"}
      BY <1>1, <1>4, <1>5, <3>1 DEF Standing
    <3>3. Of(Hanging)' \subseteq Of(Hanging)
      BY <1>6 DEF Stands, Alike, Of, Hanging, Described, Live
    <3>4. Rank(object.phase)' = Rank(object.phase)
      BY <1>1
    <3> QED BY <1>1, <3>1, <3>2, <3>3, <3>4 DEF Standing
  <2> QED BY <2>1
<1>13. \A j \in Ids : cloud'[j].address # None => cloud'[cloud'[j].address].state # "none"
  <2>1. \A j \in Ids : cloud[j].address \in Ids \cup {None}
    BY <1>1 DEF ResourceType
  <2> QED BY <1>1, <1>6, <2>1 DEF Mindful, Stands, Alike
<1>14. pc # "idle" /\ work.deleting => Departing'
  <2>1. pc # "idle" /\ work.deleting => Departing
    BY <1>1 DEF Mindful
  <2>2. Departing => Situated(work.rec)'
    BY <1>9 DEF Departing
  <2>3. Live' = Live /\ IInv
    BY <1>6 DEF Stands, Watched
  <2> QED BY <1>1, <1>10, <2>1, <2>2, <2>3, DepartingWanes
<1>15. pc # "idle" /\ ~work.deleting => Arriving'
  <2>1. ASSUME pc # "idle", ~work.deleting PROVE Arriving'
    <3>1. Arriving
      BY <1>1, <2>1 DEF Mindful
    <3>2. \A part \in Parts : made[part] # None => made[part] \in Ids
      BY RecordsKnown DEF Watched, RecordType
    <3>3. \A part \in Parts : made[part] # None =>
            /\ cloud'[made[part]].network = cloud[made[part]].network
            /\ cloud'[made[part]].state = "none" <=> cloud[made[part]].state = "none"
      BY <1>6, <3>2 DEF Stands, Alike
    <3>4. \A j \in Ids : cloud'[j].address = cloud[j].address
      BY <1>6 DEF Stands, Alike
    <3>5. InStep => InStep'
      BY <1>1, <1>6 DEF InStep, Stands
    <3>6. InVpc \subseteq Parts /\ (\A z \in Zones : Eip[z] \in Parts) /\ FoundedSteps' = FoundedSteps
      BY <1>1, PartNames DEF InVpc, FoundedSteps
    <3>7. \A z \in Zones : made'[Eip[z]] # None =>
            /\ cloud'[made'[Eip[z]]].state # "none"
            /\ \A y \in Zones : object'.rec[Eip[y]] # made'[Eip[z]]
      BY <1>1, <3>1, <3>3, <3>6 DEF Arriving
    <3>8. ASSUME workFresh'
          PROVE  /\ \A part \in InVpc \ NoPart(made)' :
                      work'.rec["vpc"] # None /\ cloud'[made'[part]].network = work'.rec["vpc"]
                 /\ \A z \in Zones : made'[Eip[z]] # None /\ made'[NAT[z]] = None =>
                      \A j \in Ids : cloud'[j].address # made'[Eip[z]]
      <4>1. NoPart(made)' = NoPart(made)
        BY <1>1 DEF NoPart
      <4>2. \A part \in InVpc \ NoPart(made) : made[part] # None
        BY <3>6 DEF NoPart
      <4> QED BY <1>1, <3>1, <3>3, <3>4, <3>6, <3>8, <4>1, <4>2 DEF Arriving
    <3>9. workFresh' => InStep' /\ Situated(work.rec)'
      BY <1>1, <1>9, <3>1, <3>5 DEF Arriving
    <3>10. todo' \in Seq(FoundedSteps') /\ pc' # "release" /\ object'.phase # "Deleting"
           /\ (pc' \in {"finalizer", "phase", "run"} => work'.phase = object'.phase)
      BY <1>1, <3>1, <3>6 DEF Arriving
    <3> QED BY <3>7, <3>8, <3>9, <3>10 DEF Arriving
  <2> QED BY <2>1
<1> QED BY <1>1, <1>9, <1>11, <1>12, <1>13, <1>14, <1>15 DEF Mindful

(* Something new.                                                          *)
Adds(i, new) ==
  /\ i \in Ids /\ cloud[i].state = "none" /\ new \in ResourceType
  /\ new.state \in {"pending", "available"} /\ cloud' = [cloud EXCEPT ![i] = new]

LEMMA AddsFacts ==
  ASSUME IInv, NEW i, NEW new, Adds(i, new)
  PROVE  /\ \A j \in Ids : cloud'[j] = IF j = i THEN new ELSE cloud[j]
         /\ Live' = Live \cup {i} /\ Described' = Described \cup {i}
         /\ i \notin Described /\ i \notin Live /\ i # None
         /\ \A rec : Titled(rec) => \A part \in Parts : rec[part] # i
<1>1. i \in Ids /\ cloud \in [Ids -> ResourceType] /\ None \notin Ids /\ cloud[i].part = ""
  BY RecordsKnown DEF Adds
<1>2. \A j \in Ids : cloud'[j] = IF j = i THEN new ELSE cloud[j]
  BY <1>1 DEF Adds
<1>3. Live' = Live \cup {i} /\ Described' = Described \cup {i} /\ i \notin Described /\ i \notin Live
  BY <1>1, <1>2 DEF Adds, Live, Described
<1>4. "" \notin Parts
  BY Named
<1>5. ASSUME NEW rec, Titled(rec), NEW part \in Parts PROVE rec[part] # i
  <2>1. CASE part \in NoPart(rec)
    BY <1>1, <2>1 DEF NoPart
  <2>2. CASE part \notin NoPart(rec)
    <3>1. cloud[rec[part]].part = part
      BY <1>5, <2>2 DEF Titled
    <3> QED BY <1>1, <1>4, <3>1
  <2> QED BY <2>1, <2>2
<1> QED BY <1>1, <1>2, <1>3, <1>5

LEMMA SituatedAdds ==
  ASSUME IInv, NEW i, NEW new, Adds(i, new), NEW rec \in RecordType, Situated(rec),
         \A z \in Zones : rec[Eip[z]] # None => new.address # rec[Eip[z]],
         rec["vpc"] # None /\ new.part \in Hanging /\ new.network = rec["vpc"] =>
           \E part \in Subnets : rec[part] \in Live
  PROVE  Situated(rec)' /\ Titled(rec)'
<1>1. /\ \A j \in Ids : cloud'[j] = IF j = i THEN new ELSE cloud[j]
      /\ Live' = Live \cup {i} /\ Described' = Described \cup {i}
      /\ \A part \in Parts : rec[part] # i
  BY AddsFacts DEF Situated
<1>2. \A part \in Parts : rec[part] # None => cloud'[rec[part]] = cloud[rec[part]]
  BY <1>1 DEF RecordType
<1>3. InVpc \subseteq Parts /\ \A z \in Zones : Eip[z] \in Parts /\ NAT[z] \in Parts
  BY PartNames DEF InVpc
<1>4. Titled(rec)'
  BY <1>2 DEF Situated, Titled, NoPart
<1>5. \A part \in InVpc \ NoPart(rec) : rec["vpc"] # None /\ cloud'[rec[part]].network = rec["vpc"]
  BY <1>2, <1>3 DEF Situated, NoPart
<1>6. ASSUME NEW z \in Zones, rec[Eip[z]] # None
      PROVE  /\ rec[NAT[z]] # None
             /\ \A j \in Ids : cloud'[j].address = rec[Eip[z]] => j = rec[NAT[z]]
  BY <1>1, <1>6 DEF Situated
<1>7. ASSUME rec["vpc"] # None, Within(rec["vpc"], Hanging)' # {}
      PROVE  \E part \in Subnets : rec[part] \in Live'
  <2>1. PICK j \in Described' : cloud'[j].part \in Hanging /\ cloud'[j].network = rec["vpc"]
    BY <1>7 DEF Within, Of, Hanging
  <2>2. CASE j = i
    <3>1. i \in Ids
      BY DEF Adds
    <3>2. new.part \in Hanging /\ new.network = rec["vpc"]
      BY <1>1, <2>1, <2>2, <3>1
    <3> QED BY <1>1, <1>7, <3>2
  <2>3. CASE j # i
    <3>1. j \in Described /\ j \in Ids
      BY <1>1, <2>1, <2>3 DEF Described, Live
    <3>2. cloud'[j] = cloud[j]
      BY <1>1, <2>3, <3>1
    <3>3. j \in Within(rec["vpc"], Hanging)
      BY <2>1, <3>1, <3>2 DEF Within, Of
    <3> QED BY <1>1, <1>7, <3>3 DEF Situated
  <2> QED BY <2>2, <2>3
<1>8. NoPart(rec)' = NoPart(rec)
  BY DEF NoPart
<1> QED BY <1>4, <1>5, <1>6, <1>7, <1>8 DEF Situated

LEMMA AddsStanding ==
  ASSUME IInv, Standing, UNCHANGED object, NEW i, NEW new, Adds(i, new),
         new.part \in Hanging => object.rec["public1"] # None
  PROVE  Standing'
<1>1. /\ \A j \in Ids : cloud'[j] = IF j = i THEN new ELSE cloud[j]
      /\ Described' = Described \cup {i}
  BY AddsFacts
<1>2. \A j \in Ids : cloud'[j].state \notin {"deleting", "gone"}
  BY <1>1 DEF Standing, Adds
<1>3. Of(Hanging)' # {} => object.rec["public1"] # None
  <2>1. ASSUME NEW j \in Of(Hanging)'
        PROVE  object.rec["public1"] # None
    <3>1. j \in Described' /\ cloud'[j].part \in Hanging
      BY <2>1 DEF Of, Hanging
    <3>2. j \in Ids
      BY <1>1, <3>1 DEF Adds, Described, Live
    <3>3. CASE j = i
      BY <1>1, <3>1, <3>2, <3>3
    <3>4. CASE j # i
      <4>1. j \in Of(Hanging)
        BY <1>1, <3>1, <3>2, <3>4 DEF Of
      <4> QED BY <4>1 DEF Standing
    <3> QED BY <3>3, <3>4
  <2> QED BY <2>1
<1>4. Rank(object.phase)' = Rank(object.phase)
  OBVIOUS
<1> QED BY <1>2, <1>3, <1>4 DEF Standing

Addressed == \A i \in Ids : cloud[i].address # None => cloud[cloud[i].address].state # "none"

LEMMA AddsAddressed ==
  ASSUME IInv, Addressed, NEW i, NEW new, Adds(i, new),
         new.address # None => cloud[new.address].state # "none"
  PROVE  Addressed'
<1>1. /\ \A j \in Ids : cloud'[j] = IF j = i THEN new ELSE cloud[j]
      /\ cloud \in [Ids -> ResourceType] /\ new \in ResourceType /\ new.state # "none"
  BY AddsFacts, RecordsKnown DEF Adds
<1>2. ASSUME NEW j \in Ids, cloud'[j].address # None
      PROVE  cloud'[cloud'[j].address].state # "none"
  <2>1. PICK a : a = cloud'[j].address
    OBVIOUS
  <2>2. cloud'[j] \in ResourceType
    BY <1>1
  <2>3. a \in Ids
    BY <1>2, <2>1, <2>2 DEF ResourceType
  <2>4. cloud[a].state # "none"
    BY <1>1, <1>2, <2>1 DEF Addressed
  <2> QED BY <1>1, <2>1, <2>3, <2>4
<1> QED BY <1>2 DEF Addressed

LEMMA ExposeMinds ==
  ASSUME Watched, NEW c \in Ids, Expose(c)
  PROVE  Mindful'
<1>1. /\ UNCHANGED <<object, pc, work, workFresh, todo, made>> /\ Mindful /\ IInv
      /\ cloud[c].state = "available" /\ cloud[c].part = "cluster" /\ cloud \in [Ids -> ResourceType]
  BY RecordsKnown DEF Watched, Expose, kube, local
<1>2. PICK new : new = Resource("available", "balancer", {}, cloud[c].network, None)
  OBVIOUS
<1>3. PICK i \in Fresh : cloud' = [cloud EXCEPT ![i] = new]
  BY <1>2 DEF Expose
<1>4. /\ new.part = "balancer" /\ new.network = cloud[c].network /\ new.address = None
      /\ new.state = "available" /\ new.settings = {}
  BY <1>2 DEF Resource
<1>5. new \in ResourceType
  <2>1. cloud[c].network \in Ids \cup {None}
    BY <1>1 DEF ResourceType
  <2> QED BY <1>2, <2>1 DEF Resource, ResourceType, Kinds
<1>6. i \in Ids /\ cloud[i].state = "none"
  BY <1>1, <1>3, VacantFirst DEF Unused
<1>7. Adds(i, new)
  BY <1>3, <1>4, <1>5, <1>6 DEF Adds
<1>8. /\ \A j \in Ids : cloud'[j] = IF j = i THEN new ELSE cloud[j]
      /\ Live' = Live \cup {i} /\ Described' = Described \cup {i} /\ i \notin Live /\ i \notin Described
      /\ \A rec : Titled(rec) => \A part \in Parts : rec[part] # i
  BY <1>1, <1>7, AddsFacts
<1>9. c \in Of(Hanging) /\ \A network : network = cloud[c].network => c \in Within(network, Hanging)
  BY <1>1 DEF Of, Within, Hanging, Described, Live
<1>10. object.rec \in RecordType /\ work.rec \in RecordType /\ made \in RecordType /\ None \notin Ids
  BY <1>1, RecordsKnown
<1>11. ASSUME NEW rec \in RecordType, Situated(rec)
       PROVE  Situated(rec)'
  BY <1>1, <1>4, <1>7, <1>9, <1>11, SituatedAdds DEF Situated
<1>12. (Situated(object.rec) => Situated(object.rec)') /\ (Situated(work.rec) => Situated(work.rec)')
  <2>1. PICK rec : rec = object.rec
    OBVIOUS
  <2>2. PICK rek : rek = work.rec
    OBVIOUS
  <2> QED BY <1>1, <1>10, <1>11, <2>1, <2>2
<1>13. Titled(object.rec)'
  <2>1. Titled(object.rec) /\ \A part \in Parts : object.rec[part] # i
    BY <1>1, <1>8 DEF Mindful
  <2> QED BY <1>1, <1>8, <1>10, <2>1 DEF Titled, NoPart, RecordType
<1>14. object.phase # "Deleting" => Standing'
  <2>1. object.phase # "Deleting" => Standing
    BY <1>1 DEF Mindful
  <2>2. Standing => object.rec["public1"] # None
    BY <1>9 DEF Standing
  <2> QED BY <1>1, <1>7, <2>1, <2>2, AddsStanding
<1>15. Addressed'
  <2>1. Addressed
    BY <1>1 DEF Mindful, Addressed
  <2> QED BY <1>1, <1>4, <1>7, <2>1, AddsAddressed
<1>16. \A part \in Parts : object.rec[part] \in Live' => object.rec[part] \in Live
  BY <1>1, <1>8 DEF Mindful
<1>17. pc # "idle" /\ work.deleting => Departing'
  <2>1. ASSUME pc # "idle", work.deleting PROVE Departing'
    <3>1. Departing /\ Situated(work.rec)
      BY <1>1, <2>1 DEF Mindful, Departing
    <3>2. \A part \in Parts : work.rec[part] # i
      BY <1>8, <3>1 DEF Situated
    <3>3. Wanes
      BY <1>8, <3>2, LivesIn DEF Wanes
    <3> QED BY <1>1, <1>12, <1>16, <2>1, <3>1, <3>3, DepartingWanes
  <2> QED BY <2>1
<1>18. pc # "idle" /\ ~work.deleting => Arriving'
  <2>1. ASSUME pc # "idle", ~work.deleting PROVE Arriving'
    <3>1. Arriving
      BY <1>1, <2>1 DEF Mindful
    <3>2. InVpc \subseteq Parts /\ (\A z \in Zones : Eip[z] \in Parts) /\ FoundedSteps' = FoundedSteps
      BY <1>1, PartNames DEF InVpc, FoundedSteps
    <3>3. \A z \in Zones : made'[Eip[z]] # None =>
            /\ cloud'[made'[Eip[z]]].state # "none"
            /\ \A y \in Zones : object'.rec[Eip[y]] # made'[Eip[z]]
      <4>1. \A z \in Zones : made[Eip[z]] # None => made[Eip[z]] \in Ids
        BY <1>10, <3>2 DEF RecordType
      <4> QED BY <1>1, <1>4, <1>8, <3>1, <4>1 DEF Arriving
    <3>4. workFresh' => InStep' /\ Situated(work.rec)'
      BY <1>1, <1>12, <1>16, <3>1 DEF Arriving, InStep
    <3>5. ASSUME workFresh'
          PROVE  /\ \A part \in InVpc \ NoPart(made)' :
                      work'.rec["vpc"] # None /\ cloud'[made'[part]].network = work'.rec["vpc"]
                 /\ \A z \in Zones : made'[Eip[z]] # None /\ made'[NAT[z]] = None =>
                      \A j \in Ids : cloud'[j].address # made'[Eip[z]]
      <4>1. NoPart(made)' = NoPart(made)
        BY <1>1 DEF NoPart
      <4>2. Held(made)
        <5>1. workFresh /\ ~Asked
          BY <1>1, <2>1, <3>5 DEF IInv, Copies, Asked
        <5> QED BY <5>1 DEF Watched, RInv, Sure, Doing
      <4>3. \A part \in Parts : made[part] # None => made[part] \in Ids /\ made[part] # i
        BY <1>8, <1>10, <4>2 DEF Held, NoPart, RecordType
      <4>4. \A part \in InVpc \ NoPart(made) : made[part] # None
        BY <3>2 DEF NoPart
      <4>5. \A part \in InVpc \ NoPart(made)' :
              work'.rec["vpc"] # None /\ cloud'[made'[part]].network = work'.rec["vpc"]
        BY <1>1, <1>8, <3>1, <3>2, <3>5, <4>1, <4>3, <4>4 DEF Arriving
      <4>6. \A z \in Zones : made'[Eip[z]] # None /\ made'[NAT[z]] = None =>
              \A j \in Ids : cloud'[j].address # made'[Eip[z]]
        BY <1>1, <1>4, <1>8, <3>1, <3>5 DEF Arriving
      <4> QED BY <4>5, <4>6
    <3>6. todo' \in Seq(FoundedSteps') /\ pc' # "release" /\ object'.phase # "Deleting"
          /\ (pc' \in {"finalizer", "phase", "run"} => work'.phase = object'.phase)
      BY <1>1, <3>1, <3>2 DEF Arriving
    <3> QED BY <3>3, <3>4, <3>5, <3>6 DEF Arriving
  <2> QED BY <2>1
<1> QED BY <1>1, <1>12, <1>13, <1>14, <1>15, <1>17, <1>18 DEF Mindful, Addressed

-----------------------------------------------------------------------------
(* The script of the deletion goes on.                                     *)

(* A step has done what the others rely on.                                *)
Clears(h) ==
  /\ \A part \in Parts : Removes(h, part) => work.rec[part] \notin Live'
  /\ \A z \in Zones : h.op = "await" /\ h.part = NAT[z] => work.rec[NAT[z]] \notin Described'
  /\ \A part \in Roles \cup {"igw"} :
       h.op = "detach" /\ h.part = part /\ h.setting = Binding(part) /\ work.rec[part] \in Live' =>
         Binding(part) \notin cloud'[work.rec[part]].settings
  /\ (\E part \in Subnets : work.rec[part] \in Live \ Live') =>
       \A network : work.rec["vpc"] = network => Within(network, Hanging)' = {}

Strikes(h) ==
  /\ work.rec \in RecordType /\ h.records \subseteq Parts
  /\ \A part \in Parts : work'.rec[part] = IF part \in h.records THEN None ELSE work.rec[part]

LEMMA StrikesFacts ==
  ASSUME IInv, NEW h, Strikes(h), NEW part \in Parts, work'.rec[part] # None
  PROVE  work'.rec[part] = work.rec[part] /\ part \notin h.records /\ part \notin NoPart(work.rec)
BY DEF Strikes, NoPart

LEMMA LooseAfter ==
  ASSUME IInv, NEW h, Strikes(h), Wanes, Clears(h), NEW part \in Parts, NEW before,
         work'.rec[part] \in Live', Loose(part, before \cup {h})
  PROVE  Loose(part, before)'
<1>1. work'.rec[part] \in Ids /\ None \notin Ids
  BY RecordsKnown DEF Live
<1>2. work'.rec[part] = work.rec[part] /\ work.rec[part] \in Live
  BY <1>1, StrikesFacts DEF Wanes
<1>3. ASSUME NEW z \in Zones, part = Eip[z],
             \/ work.rec[NAT[z]] \notin Described
             \/ \E step \in before \cup {h} : step.op = "await" /\ step.part = NAT[z]
      PROVE  \/ work'.rec[NAT[z]] \notin Described'
             \/ \E step \in before : step.op = "await" /\ step.part = NAT[z]
  <2>1. NAT[z] \in Parts
    BY PartNames
  <2>2. CASE work'.rec[NAT[z]] = None
    BY <1>1, <2>2 DEF Described, Live
  <2>3. CASE work'.rec[NAT[z]] # None
    <3>1. work'.rec[NAT[z]] = work.rec[NAT[z]]
      BY <2>1, <2>3, StrikesFacts
    <3> QED BY <1>3, <2>1, <3>1 DEF Wanes, Clears
  <2> QED BY <2>2, <2>3
<1>4. ASSUME part \in Roles \cup {"igw"},
             \/ Binding(part) \notin cloud[work.rec[part]].settings
             \/ \E step \in before \cup {h} :
                  step.op = "detach" /\ step.part = part /\ step.setting = Binding(part)
      PROVE  \/ Binding(part) \notin cloud'[work'.rec[part]].settings
             \/ \E step \in before :
                  step.op = "detach" /\ step.part = part /\ step.setting = Binding(part)
  BY <1>2, <1>4 DEF Wanes, Clears
<1> QED BY <1>3, <1>4 DEF Loose, Binding

LEMMA DismissedAfter ==
  ASSUME IInv, NEW h, Strikes(h), NEW parts \in SUBSET Parts, NEW before,
         Dismissed(parts, before \cup {h})
  PROVE  Dismissed(parts, before)'
<1>1. ASSUME NEW part \in parts, work'.rec[part] # None
      PROVE  \E step \in before : part \in step.records
  BY <1>1, StrikesFacts DEF Dismissed
<1> QED BY <1>1 DEF Dismissed, NoPart

LEMMA InPlaceAfter ==
  ASSUME IInv, NEW h, Strikes(h), Wanes, Clears(h),
         NEW step \in DeletingSteps, NEW before, InPlace(step, before \cup {h})
  PROVE  InPlace(step, before)'
<1>1. step \in Steps /\ (step.op = "delete" => step.part \in Parts)
  BY DEF DeletingSteps
<1>2. step.records \subseteq Parts
  BY <1>1 DEF Steps
<1>3. \A part \in Parts : work'.rec[part] \in Live' =>
        work'.rec[part] = work.rec[part] /\ work.rec[part] \in Live
  BY RecordsKnown, StrikesFacts DEF Live, Wanes
<1>4. ASSUME NEW part \in step.records, work'.rec[part] \in Live'
      PROVE  \E other \in before \cup {step} : Removes(other, part)
  <2>1. part \in Parts /\ work.rec[part] \in Live /\ work.rec[part] \in Live'
    BY <1>2, <1>3, <1>4
  <2>2. PICK other \in before \cup {h} \cup {step} : Removes(other, part)
    BY <1>4, <2>1 DEF InPlace
  <2>3. ~Removes(h, part)
    BY <2>1 DEF Clears
  <2> QED BY <2>2, <2>3
<1>5. ASSUME step.op = "delete", step.inUse = "passes", work'.rec[step.part] \in Live'
      PROVE  Loose(step.part, before)'
  <2>1. work.rec[step.part] \in Live
    BY <1>1, <1>3, <1>5
  <2>2. Loose(step.part, before \cup {h})
    BY <1>5, <2>1 DEF InPlace
  <2> QED BY <1>1, <1>5, <2>2, LooseAfter
<1>6. InVpc \in SUBSET Parts /\ Subnets \in SUBSET Parts /\ \A z \in Zones : {Eip[z]} \in SUBSET Parts
  BY PartNames DEF InVpc
<1>7. step.op = "detach" /\ step.part = "igw" => Dismissed(Subnets, before)'
  BY <1>6, DismissedAfter DEF InPlace
<1>8. "vpc" \in step.records => Dismissed(InVpc, before)'
  BY <1>6, DismissedAfter DEF InPlace
<1>9. ASSUME NEW z \in Zones, NAT[z] \in step.records
      PROVE  Dismissed({Eip[z]}, before \cup {step})'
  <2>1. Dismissed({Eip[z]}, before \cup {h} \cup {step})
    BY <1>9 DEF InPlace
  <2>2. before \cup {h} \cup {step} = (before \cup {step}) \cup {h}
    OBVIOUS
  <2>3. Dismissed({Eip[z]}, (before \cup {step}) \cup {h})
    BY <2>1, <2>2
  <2> QED BY <1>6, <2>3, DismissedAfter
<1>10. \A parts, others : Dismissed(parts, others)' <=>
          \A part \in parts \ NoPart(work'.rec) : \E other \in others : part \in other.records
  BY DEF Dismissed, NoPart
<1> QED BY <1>4, <1>5, <1>7, <1>8, <1>9 DEF InPlace, Removes

LEMMA ClearingAfter ==
  ASSUME IInv, NEW s \in Seq(DeletingSteps), s # <<>>, Clearing(s),
         NEW h, h = s[1], Strikes(h), Wanes, Clears(h), NEW r, r = Tail(s)
  PROVE  Clearing(r)'
<1>1. /\ r \in Seq(DeletingSteps) /\ Len(r) \in Nat /\ Len(s) = Len(r) + 1
      /\ \A k \in 1..Len(r) : r[k] = s[k + 1] /\ k + 1 \in 1..Len(s)
  OBVIOUS
<1>2. ASSUME NEW k \in 1..Len(r)
      PROVE  InPlace(r[k], {r[j] : j \in 1..(k - 1)})'
  <2>1. PICK step, before, all : /\ step = r[k] /\ before = {r[j] : j \in 1..(k - 1)}
                                 /\ all = {s[j] : j \in 1..(k + 1 - 1)}
    OBVIOUS
  <2>2. step \in DeletingSteps /\ step = s[k + 1] /\ InPlace(step, all)
    BY <1>1, <2>1 DEF Clearing
  <2>3. all = before \cup {h}
    <3>1. all = {s[j] : j \in 1..k}
      BY <2>1
    <3>2. \A j \in 1..k : j = 1 \/ (j - 1 \in 1..(k - 1) /\ (j - 1) + 1 = j /\ j - 1 \in 1..Len(r))
      BY <1>1
    <3>3. \A j \in 1..k : s[j] = h \/ s[j] \in before
      <4>1. ASSUME NEW j \in 1..k, j # 1 PROVE s[j] \in before
        <5>1. PICK i \in 1..(k - 1) : i + 1 = j /\ i \in 1..Len(r)
          BY <3>2, <4>1
        <5>2. r[i] = s[j]
          BY <1>1, <5>1
        <5> QED BY <2>1, <5>1, <5>2
      <4> QED BY <4>1
    <3>4. \A j \in 1..(k - 1) : r[j] = s[j + 1] /\ j + 1 \in 1..k
      BY <1>1
    <3>5. h \in all /\ before \subseteq all
      <4>1. h \in all
        BY <3>1
      <4>2. before \subseteq all
        BY <2>1, <3>1, <3>4
      <4> QED BY <4>1, <4>2
    <3> QED BY <3>1, <3>3, <3>5
  <2>4. InPlace(step, before \cup {h})
    BY <2>2, <2>3
  <2>5. InPlace(step, before)'
    BY <2>2, <2>4, InPlaceAfter
  <2> QED BY <2>1, <2>5
<1>3. Coming(s) = h.records \cup Coming(r)
  <2>1. PICK n \in Nat : n = Len(r) /\ Len(s) = n + 1
    BY <1>1
  <2>2. Coming(s) = UNION {s[k].records : k \in 1..(n + 1)} /\ Coming(r) = UNION {r[k].records : k \in 1..n}
    BY <2>1 DEF Coming
  <2>3. \A k \in 1..(n + 1) : k = 1 \/ (k - 1 \in 1..n /\ r[k - 1] = s[k])
    BY <1>1, <2>1
  <2>4. \A k \in 1..n : k + 1 \in 1..(n + 1) /\ r[k] = s[k + 1]
    BY <1>1, <2>1
  <2>5. 1 \in 1..(n + 1)
    OBVIOUS
  <2>6. \A k \in 1..(n + 1) : k = 1 \/ \E i \in 1..n : r[i] = s[k]
    BY <2>3
  <2>7. \A k \in 1..n : \E i \in 1..(n + 1) : s[i] = r[k]
    BY <2>4
  <2>8. ASSUME NEW x PROVE x \in Coming(s) <=> x \in h.records \/ x \in Coming(r)
    <3>1. /\ x \in Coming(s) <=> \E i \in 1..(n + 1) : x \in s[i].records
          /\ x \in Coming(r) <=> \E k \in 1..n : x \in r[k].records
      BY <2>2
    <3> QED BY <2>5, <2>6, <2>7, <3>1
  <2> QED BY <2>8
<1>4. Parts \ NoPart(work'.rec) \subseteq Coming(r)
  <2>1. \A part \in Parts : work'.rec[part] # None => part \notin h.records /\ part \notin NoPart(work.rec)
    BY StrikesFacts
  <2>2. Parts \ NoPart(work.rec) \subseteq Coming(s)
    BY DEF Clearing
  <2> QED BY <1>3, <2>1, <2>2 DEF NoPart
<1> QED BY <1>2, <1>4 DEF Clearing, NoPart, Coming

LEMMA DepartsOn ==
  ASSUME Watched, work.deleting, pc = "run", todo # <<>>, NEW h, h = Head(todo),
         Strikes(h), Fades, Wanes, Clears(h),
         UNCHANGED <<object, workFresh, pc>>, todo' = Tail(todo),
         work'.phase = work.phase, work'.deleting
  PROVE  Mindful'
<1>1. /\ Mindful /\ IInv /\ Departing /\ object.phase = "Deleting" /\ Situated(work.rec) /\ Clearing(todo)
      /\ InStep /\ workFresh /\ work.phase = "Deleting"
  BY DEF Watched, Mindful, Departing
<1>2. PICK s : s = todo
  OBVIOUS
<1>3. s \in Seq(DeletingSteps) /\ h = s[1]
  BY <1>1, <1>2 DEF IInv, AtPc
<1>4. Clearing(todo)'
  <2>1. PICK r : r = Tail(s)
    OBVIOUS
  <2>2. Clearing(r)'
    BY <1>1, <1>2, <1>3, <2>1, ClearingAfter
  <2> QED BY <1>2, <2>1, <2>2
<1>5. InPlace(h, {})
  <2>1. 1 \in 1..Len(s) /\ {s[j] : j \in 1..(1 - 1)} = {}
    BY <1>2, <1>3
  <2> QED BY <1>1, <1>2, <1>3, <2>1 DEF Clearing
<1>6. \A part \in h.records : work.rec[part] \in Live => Removes(h, part)
  BY <1>5 DEF InPlace
<1>7. \A part \in h.records : work.rec[part] \notin Live'
  <2>1. \A part \in h.records : part \in Parts
    BY DEF Strikes
  <2> QED BY <1>6, <2>1 DEF Clears, Wanes
<1>8. InStep'
  <2>1. ASSUME NEW part \in Parts, object.rec[part] \in Live'
        PROVE  work'.rec[part] = object.rec[part]
    BY <1>1, <1>7, <2>1 DEF InStep, Fades, Strikes
  <2> QED BY <2>1 DEF InStep
<1>9. Situated(work.rec)'
  <2>1. \A part \in Parts : work'.rec[part] # None =>
          work'.rec[part] = work.rec[part] /\ part \notin h.records /\ part \notin NoPart(work.rec)
    BY <1>1, StrikesFacts
  <2>2. \A part \in Parts : work.rec[part] \in Ids \cup {None}
    BY DEF Strikes, RecordType
  <2>3. InVpc \subseteq Parts /\ (\A z \in Zones : Eip[z] \in Parts /\ NAT[z] \in Parts) /\ "vpc" \in Parts
        /\ Subnets \subseteq Parts
    BY PartNames DEF InVpc
  <2>4. \A part \in Parts : work'.rec[part] # None =>
          cloud'[work'.rec[part]].part = part
    BY <1>1, <2>1, <2>2 DEF Situated, Titled, Fades, Alike, NoPart
  <2>5. ASSUME NEW part \in InVpc, work'.rec[part] # None
        PROVE  work'.rec["vpc"] # None /\ cloud'[work'.rec[part]].network = work'.rec["vpc"]
    <3>1. /\ work'.rec[part] = work.rec[part] /\ part \notin h.records /\ part \notin NoPart(work.rec)
          /\ work.rec[part] \in Ids
      BY <2>1, <2>2, <2>3, <2>5
    <3>2. work.rec["vpc"] # None /\ cloud[work.rec[part]].network = work.rec["vpc"]
      BY <1>1, <2>5, <3>1 DEF Situated
    <3>3. "vpc" \notin h.records
      BY <1>5, <2>5, <3>1 DEF InPlace, Dismissed
    <3>4. work'.rec["vpc"] = work.rec["vpc"]
      BY <2>3, <3>3 DEF Strikes
    <3> QED BY <3>1, <3>2, <3>4 DEF Fades, Alike
  <2>6. ASSUME NEW z \in Zones, work'.rec[Eip[z]] # None
        PROVE  /\ work'.rec[NAT[z]] # None
               /\ \A i \in Ids : cloud'[i].address = work'.rec[Eip[z]] => i = work'.rec[NAT[z]]
    <3>1. /\ work'.rec[Eip[z]] = work.rec[Eip[z]] /\ Eip[z] \notin h.records
          /\ Eip[z] \notin NoPart(work.rec)
      BY <2>1, <2>3, <2>6
    <3>2. NAT[z] \notin h.records
      BY <1>5, <3>1 DEF InPlace, Dismissed
    <3>3. work'.rec[NAT[z]] = work.rec[NAT[z]]
      BY <2>3, <3>2 DEF Strikes
    <3> QED BY <1>1, <2>6, <3>1, <3>3 DEF Situated, Fades, Alike
  <2>7. ASSUME work'.rec["vpc"] # None, Within(work.rec["vpc"], Hanging)' # {}
        PROVE  \E part \in Subnets : work'.rec[part] \in Live'
    <3>1. PICK network : network = work'.rec["vpc"]
      OBVIOUS
    <3>2. work.rec["vpc"] = network /\ Within(network, Hanging)' # {}
      BY <2>1, <2>3, <2>7, <3>1 DEF Within, Of
    <3>3. Within(network, Hanging) # {}
      <4>1. Hanging' = Hanging
        BY DEF Hanging
      <4> QED BY <3>2, <4>1, FadesWithin
    <3>4. PICK part \in Subnets : work.rec[part] \in Live
      BY <1>1, <2>7, <3>1, <3>2, <3>3 DEF Situated
    <3>5. work.rec[part] \in Live'
      BY <3>2, <3>4 DEF Clears
    <3>6. part \notin h.records
      BY <1>7, <3>5
    <3>7. work'.rec[part] = work.rec[part]
      BY <2>3, <3>6 DEF Strikes
    <3> QED BY <3>5, <3>7
  <2>8. Titled(work.rec)'
    BY <2>4 DEF Titled, NoPart
  <2>9. \A part \in InVpc \ NoPart(work.rec)' :
          work'.rec["vpc"] # None /\ cloud'[work'.rec[part]].network = work'.rec["vpc"]
    BY <2>3, <2>5 DEF NoPart
  <2> QED BY <2>6, <2>7, <2>8, <2>9 DEF Situated
<1>10. Titled(object.rec)'
  <2>1. \A part \in Parts : object.rec[part] \in Ids \cup {None}
    BY <1>1, RecordsKnown DEF RecordType
  <2> QED BY <1>1, <2>1 DEF Mindful, Titled, NoPart, Fades, Alike
<1>11. Addressed'
  <2>1. \A j \in Ids : cloud[j].address \in Ids \cup {None}
    BY <1>1, RecordsKnown DEF ResourceType
  <2> QED BY <1>1, <2>1 DEF Mindful, Addressed, Fades, Alike
<1>12. Departing'
  BY <1>1, <1>4, <1>8, <1>9 DEF Departing
<1> QED BY <1>1, <1>10, <1>11, <1>12 DEF Mindful, Addressed

LEMMA HeadInPlace ==
  ASSUME Watched, work.deleting, pc = "run", todo # <<>>, NEW h, h = Head(todo)
  PROVE  /\ IInv /\ Departing /\ Situated(work.rec) /\ InPlace(h, {}) /\ made = NoRecord
         /\ h \in DeletingSteps /\ h \in Steps /\ h.records \subseteq Parts
         /\ work.rec \in RecordType /\ Part = h.part
         /\ \A part \in Parts : part = h.part => Target = work.rec[part]
         /\ Network = work.rec["vpc"]
<1>1. /\ IInv /\ Mindful /\ h \in DeletingSteps /\ h \in Steps /\ made = NoRecord
      /\ work.rec \in RecordType
  BY HeadFacts, RecordsKnown DEF Watched
<1>2. Departing /\ Situated(work.rec) /\ Clearing(todo)
  BY <1>1 DEF Mindful, Departing
<1>3. PICK s : s = todo
  OBVIOUS
<1>4. s \in Seq(DeletingSteps) /\ h = s[1]
  BY <1>1, <1>3 DEF IInv, AtPc
<1>5. InPlace(h, {})
  <2>1. 1 \in 1..Len(s) /\ {s[j] : j \in 1..(1 - 1)} = {}
    BY <1>3, <1>4
  <2> QED BY <1>2, <1>3, <1>4, <2>1 DEF Clearing
<1>6. h.records \subseteq Parts
  BY <1>1 DEF Steps
<1>7. \A part \in Parts : made[part] = None
  BY <1>1 DEF NoRecord
<1>8. \A part \in Parts : part = h.part => Target = work.rec[part]
  BY <1>7 DEF Target, Part
<1>9. Network = work.rec["vpc"]
  BY <1>7, PartNames DEF Network
<1> QED BY <1>1, <1>2, <1>5, <1>6, <1>8, <1>9 DEF Part

LEMMA StrikesOn ==
  ASSUME Watched, work.deleting, pc = "run", todo # <<>>, Proceed(made), NEW h, h = Head(todo)
  PROVE  /\ Strikes(h) /\ UNCHANGED <<object, workFresh, pc>> /\ todo' = Tail(todo)
         /\ work'.phase = work.phase /\ work'.deleting
<1>1. work \in ObjectType /\ work.rec \in RecordType /\ h.records \subseteq Parts
  BY HeadInPlace, RecordsKnown DEF Watched
<1>2. work'.phase = work.phase /\ work'.deleting
  BY <1>1 DEF Proceed, Note, ObjectType
<1>3. \A part \in Parts : work'.rec[part] = IF part \in h.records THEN None ELSE work.rec[part]
  <2>1. work'.rec = [part \in Parts |-> IF part \notin h.records THEN work.rec[part] ELSE None]
    BY <1>1 DEF Proceed, Note, ObjectType
  <2> QED BY <2>1
<1> QED BY <1>1, <1>2, <1>3 DEF Strikes, Proceed, Keeping, kube

(* What keeps a resource in use, by the name of its part.                  *)
LEMMA UseOf ==
  ASSUME NEW i
  PROVE  /\ cloud[i].part \in Subnets =>
              (InUse(i) <=> \/ Within(cloud[i].network, Each(NAT) \cup {"balancer"}) # {}
                            \/ Of({"cluster", "pool"}) # {})
         /\ cloud[i].part = "igw" => (InUse(i) <=> "attachment" \in cloud[i].settings)
         /\ cloud[i].part \in Roles => (InUse(i) <=> "policies" \in cloud[i].settings)
         /\ cloud[i].part \in Each(Eip) => (InUse(i) <=> \E j \in Of(Each(NAT)) : cloud[j].address = i)
         /\ cloud[i].part = "addon" => ~InUse(i)
<1>1. PICK part : part = cloud[i].part
  OBVIOUS
<1>2. ASSUME part \in Subnets
      PROVE  InUse(i) <=> \/ Within(cloud[i].network, Each(NAT) \cup {"balancer"}) # {}
                          \/ Of({"cluster", "pool"}) # {}
  <2>1. /\ part # "cluster" /\ part # "clusterSG" /\ part # "igw" /\ part \notin Roles
        /\ part \notin Each(Eip) /\ part # "vpc"
    BY <1>2, Named
  <2>2. cloud[i].part # "vpc"
    BY <1>1, <2>1
  <2> QED BY <1>1, <1>2, <2>1, Zenon DEF InUse
<1>3. ASSUME part = "igw"
      PROVE  InUse(i) <=> "attachment" \in cloud[i].settings
  <2>1. /\ part # "cluster" /\ part # "clusterSG" /\ part \notin Subnets /\ part \notin Roles
        /\ part \notin Each(Eip) /\ part # "vpc"
    BY <1>3, Named
  <2> QED BY <1>1, <1>3, <2>1, Zenon DEF InUse
<1>4. ASSUME part \in Roles
      PROVE  InUse(i) <=> "policies" \in cloud[i].settings
  <2>1. /\ part # "cluster" /\ part # "clusterSG" /\ part \notin Subnets /\ part # "igw"
        /\ part \notin Each(Eip) /\ part # "vpc"
    BY <1>4, Named
  <2> QED BY <1>1, <1>4, <2>1, Zenon DEF InUse
<1>5. ASSUME part \in Each(Eip)
      PROVE  InUse(i) <=> \E j \in Of(Each(NAT)) : cloud[j].address = i
  <2>1. /\ part # "cluster" /\ part # "clusterSG" /\ part \notin Subnets /\ part # "igw"
        /\ part \notin Roles /\ part # "vpc"
    BY <1>5, Named
  <2> QED BY <1>1, <1>5, <2>1, Zenon DEF InUse
<1>6. ASSUME part = "addon"
      PROVE  ~InUse(i)
  <2>1. /\ part # "cluster" /\ part # "clusterSG" /\ part \notin Subnets /\ part # "igw"
        /\ part \notin Roles /\ part \notin Each(Eip) /\ part # "vpc"
    BY <1>6, Named
  <2> QED BY <1>1, <2>1, Zenon DEF InUse
<1> QED BY <1>1, <1>2, <1>3, <1>4, <1>5, <1>6

LEMMA SubnetUse ==
  ASSUME NEW i \in Ids, cloud[i].part \in Subnets, ~InUse(i)
  PROVE  Within(cloud[i].network, Hanging) = {}
<1>3. Within(cloud[i].network, Each(NAT) \cup {"balancer"}) = {} /\ Of({"cluster", "pool"}) = {}
  BY UseOf
<1> QED BY <1>3 DEF Within, Of, Hanging

LEMMA DeleteMinds ==
  ASSUME Watched, work.deleting, DeleteCall
  PROVE  Mindful'
<1>1. pc = "run" /\ todo # <<>> /\ Proceed(made) /\ Head(todo).op = "delete"
  BY DEF DeleteCall, Running
<1>2. PICK h : h = Head(todo)
  OBVIOUS
<1>3. /\ IInv /\ Situated(work.rec) /\ h \in DeletingSteps /\ work.rec \in RecordType /\ Part = h.part
      /\ \A part \in Parts : part = h.part => Target = work.rec[part]
  BY <1>1, <1>2, HeadInPlace
<1>4. h.op = "delete" /\ h.part \in Parts /\ Target = work.rec[h.part]
  BY <1>1, <1>2, <1>3 DEF DeletingSteps
<1>5. CASE Target \notin Live /\ UNCHANGED cloud
  <2>1. Fades /\ Live' = Live
    BY <1>5, SameStands DEF Stands, Fades
  <2>2. Wanes
    BY <1>5, <2>1 DEF Wanes, Described
  <2>3. Clears(h)
    BY <1>4, <1>5, <2>1 DEF Clears, Removes
  <2> QED BY <1>1, <1>2, <2>1, <2>2, <2>3, StrikesOn, DepartsOn
<1>6. CASE /\ Target \in Live /\ ~InUse(Target)
           /\ cloud' = [cloud EXCEPT ![Target].state = IF Part \in Lingering THEN "deleting" ELSE "gone"]
  <2>1. PICK t, state : t = Target /\ state = IF Part \in Lingering THEN "deleting" ELSE "gone"
    OBVIOUS
  <2>2. /\ t \in Ids /\ t \in Live /\ ~InUse(t) /\ t = work.rec[h.part]
        /\ cloud' = [cloud EXCEPT ![t] = [cloud[t] EXCEPT !.state = state]]
        /\ state \in {"deleting", "gone"} /\ cloud \in [Ids -> ResourceType]
    BY <1>3, <1>4, <1>6, <2>1, LivesIn, RecordsKnown
  <2>3. /\ \A j \in Ids \ {t} : cloud'[j] = cloud[j]
        /\ cloud'[t].state = state /\ cloud'[t].part = cloud[t].part
        /\ cloud'[t].network = cloud[t].network /\ cloud'[t].address = cloud[t].address
        /\ cloud'[t].settings = cloud[t].settings
    BY <2>2 DEF ResourceType
  <2>4. Fades /\ t \notin Live' /\ Live' = Live \ {t}
    <3>1. Live' = Live \ {t} /\ Described' \subseteq Described
      BY <2>2, <2>3 DEF Live, Described
    <3>2. Alike
      BY <2>2, <2>3 DEF Alike, Live
    <3> QED BY <3>1, <3>2 DEF Fades
  <2>5. Wanes
    <3>1. \A i \in Live : cloud'[i].settings = cloud[i].settings
      BY <2>2, <2>3, LivesIn
    <3> QED BY <2>4, <3>1 DEF Wanes, Fades
  <2>6. ASSUME NEW part \in Subnets, work.rec[part] \in Live \ Live'
        PROVE  \A network : work.rec["vpc"] = network => Within(network, Hanging)' = {}
    <3>1. work.rec[part] = t /\ part \in Parts /\ part \in InVpc /\ part \notin NoPart(work.rec)
      BY <2>4, <2>6, PartNames, RecordsKnown, <1>3 DEF InVpc, NoPart, Live
    <3>2. cloud[t].part = part /\ cloud[t].network = work.rec["vpc"]
      BY <1>3, <3>1 DEF Situated, Titled
    <3>3. Within(cloud[t].network, Hanging) = {}
      BY <2>2, <2>6, <3>2, SubnetUse
    <3>4. \A network : Within(network, Hanging)' \subseteq Within(network, Hanging)
      <4>1. Hanging' = Hanging
        BY DEF Hanging
      <4> QED BY <2>4, <4>1, FadesWithin
    <3> QED BY <3>2, <3>3, <3>4
  <2>7. Clears(h)
    <3>1. \A part \in Parts : Removes(h, part) => work.rec[part] \notin Live'
      BY <1>4, <2>2, <2>4 DEF Removes
    <3> QED BY <1>4, <2>6, <3>1 DEF Clears
  <2> QED BY <1>1, <1>2, <2>4, <2>5, <2>7, StrikesOn, DepartsOn
<1> QED BY <1>5, <1>6 DEF DeleteCall

LEMMA RefusalMinds ==
  ASSUME Watched, work.deleting, DeleteRefused
  PROVE  Mindful'
<1>1. /\ pc = "run" /\ todo # <<>> /\ Head(todo).op = "delete" /\ Target \in Live /\ InUse(Target)
      /\ Fails(Head(todo).inUse)
  BY DEF DeleteRefused, Running, Refused
<1>2. PICK h : h = Head(todo)
  OBVIOUS
<1>3. /\ IInv /\ Situated(work.rec) /\ h \in DeletingSteps /\ work.rec \in RecordType /\ InPlace(h, {})
      /\ \A part \in Parts : part = h.part => Target = work.rec[part]
  BY <1>1, <1>2, HeadInPlace
<1>4. h.op = "delete" /\ h.part \in Parts /\ Target = work.rec[h.part] /\ h.inUse # "fails"
  BY <1>1, <1>2, <1>3 DEF DeletingSteps
<1>5. h.inUse # "passes"
  <2> SUFFICES ASSUME h.inUse = "passes" PROVE FALSE
    OBVIOUS
  <2>1. Loose(h.part, {})
    BY <1>1, <1>3, <1>4 DEF InPlace
  <2>2. PICK t : t = Target
    OBVIOUS
  <2>3. t \in Ids /\ t \in Live /\ InUse(t) /\ t = work.rec[h.part] /\ None \notin Ids /\ t # None
    BY <1>1, <1>3, <1>4, <2>2, LivesIn, RecordsKnown
  <2>4. cloud[t].part = h.part
    BY <1>3, <1>4, <2>3 DEF Situated, Titled, NoPart
  <2>5. CASE h.part = "addon"
    BY <2>3, <2>4, <2>5, UseOf
  <2>6. ASSUME NEW z \in Zones, h.part = Eip[z], work.rec[NAT[z]] \notin Described
        PROVE  FALSE
    <3>1. cloud[t].part \in Each(Eip)
      BY <2>4, <2>6 DEF Each
    <3>2. \E j \in Of(Each(NAT)) : cloud[j].address = t
      BY <2>3, <3>1, UseOf
    <3>3. PICK j \in Of(Each(NAT)) : cloud[j].address = t
      BY <3>2
    <3>4. j \in Described /\ j \in Ids
      BY <3>3 DEF Of, Described, Live
    <3>5. j = work.rec[NAT[z]]
      BY <1>3, <2>3, <2>6, <3>3, <3>4 DEF Situated
    <3> QED BY <2>6, <3>4, <3>5
  <2>7. ASSUME h.part \in Roles \cup {"igw"}, Binding(h.part) \notin cloud[work.rec[h.part]].settings
        PROVE  FALSE
    <3>1. Binding(h.part) \notin cloud[t].settings
      BY <2>3, <2>7
    <3>2. CASE h.part = "igw"
      <4>1. Binding("igw") = "attachment"
        BY DEF Binding
      <4> QED BY <2>3, <2>4, <3>1, <3>2, <4>1, UseOf
    <3>3. CASE h.part \in Roles
      <4>1. Binding(h.part) = "policies"
        BY <3>3, Named DEF Binding
      <4> QED BY <2>3, <2>4, <3>1, <3>3, <4>1, UseOf
    <3> QED BY <2>7, <3>2, <3>3
  <2> QED BY <2>1, <2>5, <2>6, <2>7 DEF Loose
<1>6. Wait
  BY <1>1, <1>2, <1>4, <1>5 DEF Fails
<1> QED BY <1>1, <1>6, StopMinds

LEMMA AwaitMinds ==
  ASSUME Watched, work.deleting, AwaitCall \/ ClearStep
  PROVE  Mindful'
<1>1. pc = "run" /\ todo # <<>>
  BY DEF AwaitCall, ClearStep, Running
<1>2. CASE Wait
  BY <1>1, <1>2, StopMinds
<1>3. CASE Proceed(made) /\ UNCHANGED cloud /\ (Head(todo).op = "await" => Awaits = {})
           /\ Head(todo).op \in {"await", "clear"}
  <2>1. PICK h : h = Head(todo)
    OBVIOUS
  <2>2. /\ IInv /\ Part = h.part /\ \A part \in Parts : part = h.part => Target = work.rec[part]
    BY <1>1, <2>1, HeadInPlace
  <2>3. Fades /\ Live' = Live /\ Described' = Described
    <3>1. Described' = Described
      BY <1>3 DEF Described, Live
    <3> QED BY <1>3, <3>1, SameStands DEF Stands, Fades
  <2>4. Wanes
    BY <1>3, <2>3 DEF Wanes
  <2>5. ASSUME NEW z \in Zones, h.op = "await", h.part = NAT[z]
        PROVE  work.rec[NAT[z]] \notin Described'
    <3>1. NAT[z] \in Parts /\ NAT[z] # "balancer"
      BY PartNames, Named
    <3>2. Awaits = {} /\ Part = NAT[z] /\ Target = work.rec[NAT[z]]
      BY <1>3, <2>1, <2>2, <2>5, <3>1
    <3> QED BY <2>3, <3>1, <3>2 DEF Awaits
  <2>6. Clears(h)
    BY <1>3, <2>1, <2>3, <2>5 DEF Clears, Removes
  <2> QED BY <1>1, <1>3, <2>1, <2>3, <2>4, <2>6, StrikesOn, DepartsOn
<1> QED BY <1>2, <1>3 DEF AwaitCall, ClearStep, Running, Unaltered

LEMMA DetachMinds ==
  ASSUME Watched, work.deleting, DetachCall
  PROVE  Mindful'
<1>1. pc = "run" /\ todo # <<>> /\ Proceed(made) /\ Head(todo).op = "detach"
  BY DEF DetachCall, Running
<1>2. PICK h : h = Head(todo)
  OBVIOUS
<1>3. /\ IInv /\ Situated(work.rec) /\ h \in DeletingSteps /\ work.rec \in RecordType /\ Part = h.part
      /\ InPlace(h, {}) /\ Network = work.rec["vpc"] /\ cloud \in [Ids -> ResourceType] /\ None \notin Ids
      /\ \A part \in Parts : part = h.part => Target = work.rec[part]
  BY <1>1, <1>2, HeadInPlace, RecordsKnown
<1>4. PICK t, setting : t = Target /\ setting = h.setting
  OBVIOUS
<1>5. \/ UNCHANGED cloud
      \/ t \in Live /\ cloud' = [cloud EXCEPT ![t] = [cloud[t] EXCEPT !.settings = cloud[t].settings \ {setting}]]
  BY <1>2, <1>4 DEF DetachCall
<1>6. \A j \in Ids : /\ cloud'[j].state = cloud[j].state /\ cloud'[j].part = cloud[j].part
                     /\ cloud'[j].network = cloud[j].network /\ cloud'[j].address = cloud[j].address
                     /\ cloud'[j].settings \subseteq cloud[j].settings
  <2>1. CASE UNCHANGED cloud
    BY <2>1
  <2>2. CASE t \in Live /\ cloud' = [cloud EXCEPT ![t] = [cloud[t] EXCEPT !.settings = cloud[t].settings \ {setting}]]
    <3>1. \A j \in Ids : cloud'[j] = IF j = t THEN [cloud[t] EXCEPT !.settings = cloud[t].settings \ {setting}]
                                     ELSE cloud[j]
      BY <1>3, <2>2
    <3>2. ASSUME NEW r \in ResourceType, NEW q, q = [r EXCEPT !.settings = r.settings \ {setting}]
          PROVE  /\ q.state = r.state /\ q.part = r.part /\ q.network = r.network
                 /\ q.address = r.address /\ q.settings = r.settings \ {setting}
      BY <3>2 DEF ResourceType
    <3>3. cloud[t] \in ResourceType
      BY <1>3, <2>2, LivesIn
    <3>4. PICK r, q : r = cloud[t] /\ q = [r EXCEPT !.settings = r.settings \ {setting}]
      OBVIOUS
    <3>5. /\ q.state = r.state /\ q.part = r.part /\ q.network = r.network
          /\ q.address = r.address /\ q.settings = r.settings \ {setting}
      BY <3>2, <3>3, <3>4
    <3>6. \A j \in Ids : cloud'[j] = IF j = t THEN q ELSE cloud[j]
      BY <3>1, <3>4
    <3> QED BY <3>4, <3>5, <3>6
  <2> QED BY <1>5, <2>1, <2>2
<1>7. Fades /\ Live' = Live /\ Described' = Described
  <2>1. Live' = Live
    BY <1>6 DEF Live
  <2>2. Described' = Described
    BY <1>6, <2>1 DEF Described
  <2> QED BY <1>6, <2>1, <2>2 DEF Fades, Alike
<1>8. Wanes
  BY <1>6, <1>7, LivesIn DEF Wanes
<1>9. ASSUME NEW part \in Roles \cup {"igw"}, h.part = part, h.setting = Binding(part),
             work.rec[part] \in Live'
      PROVE  Binding(part) \notin cloud'[work.rec[part]].settings
  <2>1. part \in Parts /\ "vpc" \in Parts /\ Subnets \subseteq Parts
    BY PartNames, Named
  <2>2. t = work.rec[part] /\ t \in Live /\ t \in Ids /\ t # None
    BY <1>3, <1>4, <1>7, <1>9, <2>1, LivesIn
  <2>3. part = "igw" => Within(Network, Each(NAT) \cup {"balancer"}) = {}
    <3>1. ASSUME part = "igw" PROVE Within(Network, Each(NAT) \cup {"balancer"}) = {}
      <4>1. work.rec["vpc"] # None
        BY <1>3, <2>1, <2>2, <3>1 DEF Situated, InVpc, NoPart
      <4>2. \A subnet \in Subnets : work.rec[subnet] = None
        <5>1. Dismissed(Subnets, {})
          BY <1>1, <1>2, <1>3, <1>9, <3>1 DEF InPlace
        <5> QED BY <2>1, <5>1 DEF Dismissed, NoPart
      <4>3. \A subnet \in Subnets : work.rec[subnet] \notin Live
        BY <1>3, <4>2, LivesIn
      <4>4. Within(work.rec["vpc"], Hanging) = {}
        BY <1>3, <4>1, <4>3 DEF Situated
      <4> QED BY <1>3, <4>4 DEF Within, Of, Hanging
    <3> QED BY <3>1
  <2>4. cloud' = [cloud EXCEPT ![t] = [cloud[t] EXCEPT !.settings = cloud[t].settings \ {setting}]]
    BY <1>2, <1>3, <1>4, <1>9, <2>2, <2>3 DEF DetachCall
  <2>5. cloud'[t].settings = cloud[t].settings \ {setting}
    BY <1>3, <2>2, <2>4 DEF ResourceType
  <2> QED BY <1>4, <1>9, <2>2, <2>5
<1>10. Clears(h)
  BY <1>1, <1>2, <1>7, <1>9 DEF Clears, Removes
<1> QED BY <1>1, <1>2, <1>7, <1>8, <1>10, StrikesOn, DepartsOn

LEMMA SweepMinds ==
  ASSUME Watched, work.deleting, SweepCall
  PROVE  Mindful'
<1>1. pc = "run" /\ todo # <<>> /\ Proceed(made) /\ Head(todo).op = "sweep"
  BY DEF SweepCall
<1>2. PICK h, parts, all : /\ h = Head(todo) /\ parts = (IF Part = "balancers" THEN {"balancer"} ELSE Tables)
                           /\ all = Within(Network, parts) \cap Live
  OBVIOUS
<1>3. /\ IInv /\ Situated(work.rec) /\ h \in DeletingSteps /\ work.rec \in RecordType /\ Part = h.part
      /\ Network = work.rec["vpc"] /\ cloud \in [Ids -> ResourceType] /\ None \notin Ids
  BY <1>1, <1>2, HeadInPlace, RecordsKnown
<1>4. cloud' = [i \in Ids |-> IF i \notin all THEN cloud[i]
                              ELSE [cloud[i] EXCEPT !.state =
                                     IF Part = "balancers" THEN "deleting" ELSE "gone"]]
  BY <1>2 DEF Watched, SweepCall, SweptParts, Without
<1>5. PICK state : state = IF Part = "balancers" THEN "deleting" ELSE "gone"
  OBVIOUS
<1>6. \A i \in Ids : cloud'[i] = IF i \notin all THEN cloud[i] ELSE [cloud[i] EXCEPT !.state = state]
  BY <1>4, <1>5
<1>7. \A i \in Ids : /\ cloud'[i].part = cloud[i].part /\ cloud'[i].network = cloud[i].network
                     /\ cloud'[i].address = cloud[i].address /\ cloud'[i].settings = cloud[i].settings
                     /\ cloud'[i].state = IF i \in all THEN state ELSE cloud[i].state
  <2>1. ASSUME NEW r \in ResourceType, NEW q, q = [r EXCEPT !.state = state]
        PROVE  /\ q.state = state /\ q.part = r.part /\ q.network = r.network
               /\ q.address = r.address /\ q.settings = r.settings
    BY <2>1 DEF ResourceType
  <2>2. ASSUME NEW i \in Ids
        PROVE  /\ cloud'[i].part = cloud[i].part /\ cloud'[i].network = cloud[i].network
               /\ cloud'[i].address = cloud[i].address /\ cloud'[i].settings = cloud[i].settings
               /\ cloud'[i].state = IF i \in all THEN state ELSE cloud[i].state
    <3>1. PICK r, q : r = cloud[i] /\ q = [r EXCEPT !.state = state]
      OBVIOUS
    <3>2. /\ q.state = state /\ q.part = r.part /\ q.network = r.network
          /\ q.address = r.address /\ q.settings = r.settings
      BY <1>3, <2>1, <3>1
    <3>3. cloud'[i] = IF i \notin all THEN r ELSE q
      BY <1>6, <3>1
    <3> QED BY <3>1, <3>2, <3>3
  <2> QED BY <2>2
<1>8. all \subseteq Live /\ state \in {"deleting", "gone"}
  BY <1>2, <1>5
<1>9. Fades /\ Live' = Live \ all
  <2>1. Live' = Live \ all
    BY <1>7, <1>8 DEF Live
  <2>2. Described' \subseteq Described
    BY <1>7, <1>8 DEF Live, Described
  <2>3. Alike
    BY <1>7, <1>8 DEF Live, Alike
  <2> QED BY <2>1, <2>2, <2>3 DEF Fades
<1>10. Wanes
  BY <1>7, <1>9, LivesIn DEF Wanes, Fades
<1>11. ASSUME NEW part \in Parts, Removes(h, part)
       PROVE  work.rec[part] \notin Live'
  <2> SUFFICES ASSUME work.rec[part] \in Live PROVE work.rec[part] \in all
    BY <1>9
  <2>1. h.part = "tables" /\ part \in Tables
    BY <1>1, <1>2, <1>11 DEF Removes
  <2>2. parts = Tables
    BY <1>2, <1>3, <2>1
  <2>3. work.rec[part] # None /\ part \in InVpc
    BY <1>3, <2>1, LivesIn DEF InVpc
  <2>4. cloud[work.rec[part]].part = part /\ cloud[work.rec[part]].network = work.rec["vpc"]
    BY <1>3, <2>3 DEF Situated, Titled, NoPart
  <2>5. work.rec[part] \in Within(Network, parts)
    BY <1>3, <2>1, <2>2, <2>4, LivesIn DEF Within, Of
  <2> QED BY <1>2, <2>5
<1>12. ASSUME NEW part \in Subnets PROVE work.rec[part] \notin Live \ Live'
  <2> SUFFICES ASSUME work.rec[part] \in all PROVE FALSE
    BY <1>9
  <2>1. part \in Parts /\ work.rec[part] # None
    BY <1>3, <1>8, LivesIn, PartNames
  <2>2. cloud[work.rec[part]].part = part
    BY <1>3, <2>1 DEF Situated, Titled, NoPart
  <2>3. cloud[work.rec[part]].part \in parts
    BY <1>2 DEF Within, Of
  <2>4. parts = {"balancer"} \/ parts = Tables
    BY <1>2
  <2> QED BY <1>12, <2>2, <2>3, <2>4, Named
<1>13. Clears(h)
  BY <1>1, <1>2, <1>11, <1>12 DEF Clears
<1> QED BY <1>1, <1>2, <1>9, <1>10, <1>13, StrikesOn, DepartsOn

LEMMA DeletingMinds ==
  ASSUME Watched, work.deleting, Script
  PROVE  Mindful'
<1>1. ~CallFails /\ ~SweepHeldUp
  BY DEF Watched, CallFails, SweepHeldUp
<1>2. todo # <<>> => Head(todo).op \notin {"make", "set", "find"}
  BY HeadFacts DEF Watched, DeletingSteps
<1>3. ~MakeCall /\ ~MakeRefused /\ ~SetCall /\ ~SetRefused /\ ~FindCall
  BY <1>2 DEF MakeCall, MakeRefused, SetCall, SetRefused, FindCall, Running
<1> QED BY <1>1, <1>3, DeleteMinds, RefusalMinds, AwaitMinds, DetachMinds, SweepMinds DEF Script

-----------------------------------------------------------------------------
(* The scripts of the phases go on.                                        *)

AllLive ==
  IInv /\ Standing /\ Situated(object.rec) =>
    \A part \in Parts : object.rec[part] # None => object.rec[part] \in Live

LEMMA RecordedLiveNow == AllLive
<1> SUFFICES ASSUME IInv, Standing, Situated(object.rec)
             PROVE  \A part \in Parts : object.rec[part] # None => object.rec[part] \in Live
  BY DEF AllLive
<1>1. PICK rec \in RecordType : rec = object.rec
  BY RecordsKnown
<1> QED BY <1>1, RecordedLive

LEMMA RecordedLiveNext == AllLive'
BY RecordedLiveNow, PTL

(* Before a step of a phase.                                               *)
LEMMA HeadFounded ==
  ASSUME Watched, ~work.deleting, pc = "run", todo # <<>>, NEW h, h = Head(todo)
  PROVE  /\ IInv /\ Arriving /\ Standing /\ Situated(object.rec) /\ Titled(object.rec) /\ Addressed
         /\ h \in FoundedSteps /\ Tail(todo) \in Seq(FoundedSteps)
         /\ object.rec \in RecordType /\ work.rec \in RecordType /\ made \in RecordType
         /\ None \notin Ids /\ cloud \in [Ids -> ResourceType]
         /\ \A part \in Parts : object.rec[part] # None => object.rec[part] \in Live
         /\ object.finalizer \/ object.rec = NoRecord
<1>1. IInv /\ Mindful /\ Arriving
  BY DEF Watched, Mindful
<1>2. Standing /\ Situated(object.rec) /\ Titled(object.rec) /\ Addressed
  BY <1>1 DEF Mindful, Arriving, Addressed
<1>3. h \in FoundedSteps /\ Tail(todo) \in Seq(FoundedSteps)
  BY <1>1 DEF Arriving
<1> QED BY <1>1, <1>2, <1>3, RecordsKnown, RecordedLiveNow DEF Mindful, AllLive

(* A reconcile that has read the latest version.                           *)
LEMMA FreshHead ==
  ASSUME Watched, ~work.deleting, pc = "run", todo # <<>>, workFresh, UNCHANGED object,
         NEW h, h = Head(todo), h.op # "find"
  PROVE  /\ Sure /\ Sure' /\ HeadOK(todo, h) /\ Held(made) /\ Held(work.rec)
         /\ Held(work.rec)' /\ InOrder(work.rec, Coming(todo)) /\ InOrder(work.rec, Coming(todo))'
<1>1. ~Asked /\ ~Asked'
  BY DEF Watched, IInv, Copies, Asked
<1>2. Sure /\ Sure'
  BY <1>1 DEF Watched, RInv
<1>3. HeadOK(todo, h)
  BY <1>2, MakingHead DEF Watched
<1> QED BY <1>2, <1>3 DEF Sure, Doing, Whole

LEMMA FreshSituated ==
  ASSUME IInv', Standing', Situated(object.rec)', InStep', Held(work.rec)',
         InOrder(work.rec, Coming(todo))',
         \A part \in InVpc : work'.rec[part] # None =>
           work'.rec["vpc"] # None /\ cloud'[work'.rec[part]].network = work'.rec["vpc"],
         \A z \in Zones : work'.rec[Eip[z]] # None =>
           \A i \in Ids : cloud'[i].address = work'.rec[Eip[z]] => i = work'.rec[NAT[z]]
  PROVE  Situated(work.rec)'
<1>1. InVpc \subseteq Parts /\ "public1" \in Subnets /\ "public1" \in Parts
  BY Named, PartNames DEF InVpc
<1>2. Titled(work.rec)'
  BY DEF Held, Titled, NoPart
<1>3. \A part \in InVpc \ NoPart(work.rec)' : work'.rec[part] # None
  BY <1>1 DEF NoPart
<1>4. \A z \in Zones : work'.rec[Eip[z]] # None => work'.rec[NAT[z]] # None
  BY DEF InOrder
<1>5. ASSUME Within(work.rec["vpc"], Hanging)' # {}
      PROVE  \E part \in Subnets : work'.rec[part] \in Live'
  <2>1. Of(Hanging)' # {}
    BY <1>5 DEF Within
  <2>2. object'.rec["public1"] # None
    BY <2>1 DEF Standing
  <2>3. object'.rec["public1"] \in Live'
    BY <1>1, <2>2, RecordedLiveNext DEF AllLive
  <2>4. work'.rec["public1"] = object'.rec["public1"]
    BY <1>1, <2>3 DEF InStep
  <2> QED BY <1>1, <2>3, <2>4
<1> QED BY <1>2, <1>3, <1>4, <1>5 DEF Situated

(* What is recorded by now is still recorded.                              *)
Notes(h) ==
  \A part \in Parts : work'.rec[part] = IF part \in h.records THEN made'[part] ELSE work.rec[part]

LEMMA NotesKeep ==
  ASSUME NEW h, HeadOK(todo, h), Notes(h), NEW part \in Parts, work.rec[part] # None
  PROVE  work'.rec[part] = work.rec[part]
BY DEF HeadOK, Notes

(* The step changes nothing that is recorded.                              *)
LEMMA StandsOn ==
  ASSUME Watched, ~work.deleting, pc = "run", todo # <<>>, NEW h, h = Head(todo), h.op # "find",
         Stands, Notes(h), \A part \in Parts \ HasName : made'[part] = made[part],
         h.op = "make" => h.part \in HasName,
         UNCHANGED <<object, workFresh, pc>>, todo' = Tail(todo), work'.phase = work.phase,
         ~work'.deleting
  PROVE  Mindful'
<1>1. /\ IInv /\ Arriving /\ Standing /\ Situated(object.rec) /\ Titled(object.rec) /\ Addressed
      /\ h \in FoundedSteps /\ Tail(todo) \in Seq(FoundedSteps)
      /\ object.rec \in RecordType /\ work.rec \in RecordType /\ made \in RecordType
      /\ None \notin Ids /\ cloud \in [Ids -> ResourceType]
      /\ \A part \in Parts : object.rec[part] # None => object.rec[part] \in Live
      /\ object.finalizer \/ object.rec = NoRecord
  BY HeadFounded
<1>2. /\ InVpc \subseteq Parts \ HasName /\ "vpc" \in Parts \ HasName
      /\ \A z \in Zones : Eip[z] \in Parts \ HasName /\ NAT[z] \in Parts \ HasName
      /\ \A z \in Zones : NAT[z] \notin Each(Eip) /\ NAT[z] \in Each(NAT)
  <2>1. \A z \in Zones : Eip[z] \in Each(Eip) /\ NAT[z] \in Each(NAT)
    BY DEF Each
  <2> QED BY <2>1, Named DEF InVpc, HasName
<1>3. Situated(object.rec)'
  <2>1. PICK rec \in RecordType : rec = object.rec
    BY <1>1
  <2>2. Situated(rec)'
    BY <1>1, <2>1, SituatedStands
  <2> QED BY <2>1, <2>2
<1>4. \A j \in Ids : /\ cloud'[j].part = cloud[j].part /\ cloud'[j].network = cloud[j].network
                     /\ cloud'[j].address = cloud[j].address
                     /\ cloud'[j].state = "none" <=> cloud[j].state = "none"
  BY DEF Stands, Alike
<1>5. Standing'
  <2>1. \A j \in Ids : cloud'[j].state \notin {"deleting", "gone"}
    <3>1. ASSUME NEW j \in Ids PROVE cloud'[j].state \notin {"deleting", "gone"}
      <4>1. cloud[j].state \in {"none", "pending", "available", "failed"}
        BY <1>1 DEF Standing, ResourceType
      <4>2. CASE cloud[j].state = "none"
        BY <1>4, <4>2
      <4>3. CASE cloud[j].state # "none"
        <5>1. j \in Live'
          BY <4>1, <4>3 DEF Stands, Live
        <5> QED BY <5>1 DEF Live
      <4> QED BY <4>2, <4>3
    <3> QED BY <3>1
  <2>2. Of(Hanging)' \subseteq Of(Hanging)
    BY <1>4 DEF Stands, Of, Hanging, Described, Live
  <2>3. Rank(object.phase)' = Rank(object.phase)
    OBVIOUS
  <2> QED BY <1>1, <2>1, <2>2, <2>3 DEF Standing
<1>6. Addressed'
  <2>1. \A j \in Ids : cloud[j].address \in Ids \cup {None}
    BY <1>1 DEF ResourceType
  <2> QED BY <1>1, <1>4, <2>1 DEF Addressed
<1>7. FoundedSteps' = FoundedSteps
  BY DEF FoundedSteps
<1>8. \A z \in Zones : made'[Eip[z]] # None =>
        /\ cloud'[made'[Eip[z]]].state # "none"
        /\ \A y \in Zones : object'.rec[Eip[y]] # made'[Eip[z]]
  <2>1. \A z \in Zones : made'[Eip[z]] = made[Eip[z]] /\ made[Eip[z]] \in Ids \cup {None}
    BY <1>1, <1>2 DEF RecordType
  <2> QED BY <1>1, <1>4, <2>1 DEF Arriving
<1>9. ASSUME workFresh
      PROVE  /\ InStep' /\ Situated(work.rec)'
             /\ \A part \in InVpc \ NoPart(made)' :
                  work'.rec["vpc"] # None /\ cloud'[made'[part]].network = work'.rec["vpc"]
             /\ \A z \in Zones : made'[Eip[z]] # None /\ made'[NAT[z]] = None =>
                  \A j \in Ids : cloud'[j].address # made'[Eip[z]]
  <2>1. /\ HeadOK(todo, h) /\ Held(work.rec)' /\ InOrder(work.rec, Coming(todo))'
    BY <1>9, FreshHead
  <2>2. InStep /\ Situated(work.rec)
    BY <1>1, <1>9 DEF Arriving
  <2>3. InStep'
    <3>1. ASSUME NEW part \in Parts, object.rec[part] \in Live
          PROVE  work'.rec[part] = object.rec[part]
      <4>1. work.rec[part] = object.rec[part] /\ work.rec[part] # None
        BY <1>1, <2>2, <3>1, LivesIn DEF InStep
      <4> QED BY <2>1, <4>1, NotesKeep
    <3> QED BY <3>1 DEF InStep, Stands
  <2>4. ASSUME NEW part \in InVpc, made'[part] # None
        PROVE  work'.rec["vpc"] # None /\ cloud'[made'[part]].network = work'.rec["vpc"]
    <3>1. made'[part] = made[part] /\ made[part] \in Ids /\ part \notin NoPart(made)
      BY <1>1, <1>2, <2>4 DEF RecordType, NoPart
    <3>2. work.rec["vpc"] # None /\ cloud[made[part]].network = work.rec["vpc"]
      BY <1>1, <1>9, <3>1 DEF Arriving
    <3>3. work'.rec["vpc"] = work.rec["vpc"]
      BY <1>2, <2>1, <3>2, NotesKeep
    <3> QED BY <1>4, <3>1, <3>2, <3>3
  <2>5. ASSUME NEW z \in Zones, made'[Eip[z]] # None, made'[NAT[z]] = None
        PROVE  \A j \in Ids : cloud'[j].address # made'[Eip[z]]
    <3>1. made'[Eip[z]] = made[Eip[z]] /\ made'[NAT[z]] = made[NAT[z]]
      BY <1>2
    <3> QED BY <1>1, <1>4, <1>9, <2>5, <3>1 DEF Arriving
  <2>6. ASSUME NEW part \in InVpc, work'.rec[part] # None
        PROVE  work'.rec["vpc"] # None /\ cloud'[work'.rec[part]].network = work'.rec["vpc"]
    <3>1. CASE part \in h.records
      BY <1>2, <2>4, <2>6, <3>1 DEF Notes
    <3>2. CASE part \notin h.records
      <4>1. work'.rec[part] = work.rec[part] /\ part \notin NoPart(work.rec) /\ work.rec[part] \in Ids
        BY <1>1, <1>2, <2>6, <3>2 DEF Notes, NoPart, RecordType
      <4>2. work.rec["vpc"] # None /\ cloud[work.rec[part]].network = work.rec["vpc"]
        BY <2>2, <4>1 DEF Situated
      <4>3. work'.rec["vpc"] = work.rec["vpc"]
        BY <1>2, <2>1, <4>2, NotesKeep
      <4> QED BY <1>4, <4>1, <4>2, <4>3
    <3> QED BY <3>1, <3>2
  <2>7. ASSUME NEW z \in Zones, work'.rec[Eip[z]] # None
        PROVE  \A i \in Ids : cloud'[i].address = work'.rec[Eip[z]] => i = work'.rec[NAT[z]]
    <3>1. Eip[z] \notin h.records
      <4> SUFFICES ASSUME Eip[z] \in h.records PROVE FALSE
        OBVIOUS
      <4>1. NAT[z] \in h.records /\ h.op \in {"make", "set"}
        BY <2>1 DEF HeadOK
      <4>2. h.part = NAT[z]
        BY <1>2, <2>1, <4>1 DEF HeadOK
      <4> QED BY <1>1, <1>2, <4>1, <4>2 DEF FoundedSteps
    <3>2. work'.rec[Eip[z]] = work.rec[Eip[z]]
      BY <1>2, <3>1 DEF Notes
    <3>3. work.rec[NAT[z]] # None /\ \A i \in Ids : cloud[i].address = work.rec[Eip[z]] => i = work.rec[NAT[z]]
      BY <2>2, <2>7, <3>2 DEF Situated
    <3>4. work'.rec[NAT[z]] = work.rec[NAT[z]]
      BY <1>2, <2>1, <3>3, NotesKeep
    <3> QED BY <1>4, <3>2, <3>3, <3>4
  <2>8. Situated(work.rec)'
    BY <1>3, <1>5, <2>1, <2>3, <2>6, <2>7, FreshSituated DEF Watched
  <2>9. \A part \in InVpc \ NoPart(made)' : made'[part] # None
    BY <1>2 DEF NoPart
  <2> QED BY <2>3, <2>4, <2>5, <2>8, <2>9
<1>10. Arriving'
  <2>1. todo' \in Seq(FoundedSteps') /\ pc' # "release" /\ object'.phase # "Deleting"
        /\ (pc' \in {"finalizer", "phase", "run"} => work'.phase = object'.phase)
    BY <1>1, <1>7 DEF Arriving
  <2>2. workFresh' => workFresh
    OBVIOUS
  <2> QED BY <1>8, <1>9, <2>1, <2>2 DEF Arriving
<1>11. Titled(object.rec)'
  BY <1>3 DEF Situated
<1> QED BY <1>1, <1>3, <1>5, <1>6, <1>10, <1>11 DEF Mindful, Addressed

(* The step makes something.                                               *)
MadeAs(h, i, new) ==
  /\ Adds(i, new) /\ new.part = h.part
  /\ new.network = IF h.part = "vpc" THEN None ELSE Network
  /\ \A z \in Zones : h.part = NAT[z] => new.address = made[Eip[z]]
  /\ h.part \notin Each(NAT) => new.address = None
  /\ made'[h.part] = i /\ \A part \in Parts \ {h.part} : made'[part] = made[part]

LEMMA AddsOn ==
  ASSUME Watched, ~work.deleting, pc = "run", todo # <<>>, NEW h, h = Head(todo), h.op = "make",
         h.part \in Parts, NEW i, NEW new, MadeAs(h, i, new), Notes(h),
         UNCHANGED <<object, workFresh, pc>>, todo' = Tail(todo), work'.phase = work.phase,
         ~work'.deleting
  PROVE  Mindful'
<1>1. /\ IInv /\ Arriving /\ Standing /\ Situated(object.rec) /\ Titled(object.rec) /\ Addressed
      /\ h \in FoundedSteps /\ Tail(todo) \in Seq(FoundedSteps)
      /\ object.rec \in RecordType /\ work.rec \in RecordType /\ made \in RecordType
      /\ None \notin Ids /\ cloud \in [Ids -> ResourceType]
      /\ \A part \in Parts : object.rec[part] # None => object.rec[part] \in Live
      /\ object.finalizer \/ object.rec = NoRecord
  BY HeadFounded
<1>2. /\ InVpc \subseteq Parts \ Roles /\ "vpc" \notin InVpc /\ "vpc" \in Parts /\ "public1" \in Subnets
      /\ \A z \in Zones : /\ Eip[z] \in Parts /\ NAT[z] \in Parts /\ NAT[z] \notin Each(Eip)
                          /\ NAT[z] \in Each(NAT) /\ Eip[z] \notin Each(NAT)
      /\ Subnets \subseteq Parts /\ Each(NAT) \subseteq Parts /\ "balancer" \notin Parts
      /\ \A y \in Zones, z \in Zones : (NAT[y] = NAT[z] \/ Eip[y] = Eip[z]) => y = z
  <2>1. \A z \in Zones : Eip[z] \in Each(Eip) /\ NAT[z] \in Each(NAT)
    BY DEF Each
  <2>2. Zones = {1, 2} /\ NAT[1] = "nat1" /\ NAT[2] = "nat2" /\ Eip[1] = "eip1" /\ Eip[2] = "eip2"
    BY DEF Zones, NAT, Eip
  <2>3. \A y \in Zones, z \in Zones : (NAT[y] = NAT[z] \/ Eip[y] = Eip[z]) => y = z
    BY <2>2
  <2> QED BY <2>1, <2>3, Named DEF InVpc
<1>3. /\ Adds(i, new) /\ new.part = h.part /\ i \in Ids
      /\ \A j \in Ids : cloud'[j] = IF j = i THEN new ELSE cloud[j]
      /\ Live' = Live \cup {i} /\ i \notin Live /\ i # None
      /\ \A rec : Titled(rec) => \A part \in Parts : rec[part] # i
      /\ cloud[i].state = "none" /\ new.state # "none"
  <2>1. Adds(i, new) /\ new.part = h.part
    BY DEF MadeAs
  <2>2. i \in Ids /\ cloud[i].state = "none" /\ new.state # "none"
    BY <2>1 DEF Adds
  <2> QED BY <1>1, <2>1, <2>2, AddsFacts
<1>4. new.part \in Hanging => object.rec["public1"] # None
  BY <1>1, <1>2, <1>3 DEF Hanging, FoundedSteps
<1>5. Standing'
  BY <1>1, <1>3, <1>4, AddsStanding
<1>6. new.address # None => \E z \in Zones : h.part = NAT[z] /\ new.address = made[Eip[z]]
  <2>1. h.part \in Each(NAT) => \E z \in Zones : h.part = NAT[z]
    BY DEF Each
  <2> QED BY <2>1 DEF MadeAs
<1>7. Addressed'
  <2>1. new.address # None => cloud[new.address].state # "none"
    BY <1>1, <1>6 DEF Arriving
  <2> QED BY <1>1, <1>3, <2>1, AddsAddressed
<1>8. Situated(object.rec)' /\ Titled(object.rec)'
  <2>1. PICK rec \in RecordType : rec = object.rec
    BY <1>1
  <2>2. \A z \in Zones : rec[Eip[z]] # None => new.address # rec[Eip[z]]
    BY <1>1, <1>6, <2>1 DEF Arriving
  <2>3. rec["vpc"] # None /\ new.part \in Hanging /\ new.network = rec["vpc"] =>
          \E part \in Subnets : rec[part] \in Live
    BY <1>1, <1>2, <1>4, <2>1
  <2>4. Situated(rec)' /\ Titled(rec)'
    BY <1>1, <1>3, <2>1, <2>2, <2>3, SituatedAdds
  <2> QED BY <2>1, <2>4
<1>9. FoundedSteps' = FoundedSteps
  BY DEF FoundedSteps
<1>10. \A part \in Parts : object.rec[part] # i
  BY <1>1, <1>3
<1>11. \A z \in Zones : made'[Eip[z]] # None =>
         /\ cloud'[made'[Eip[z]]].state # "none"
         /\ \A y \in Zones : object'.rec[Eip[y]] # made'[Eip[z]]
  <2>1. ASSUME NEW z \in Zones, made'[Eip[z]] # None
        PROVE  /\ cloud'[made'[Eip[z]]].state # "none"
               /\ \A y \in Zones : object'.rec[Eip[y]] # made'[Eip[z]]
    <3>1. CASE h.part = Eip[z]
      <4>1. made'[Eip[z]] = i
        BY <3>1 DEF MadeAs
      <4> QED BY <1>2, <1>3, <1>10, <4>1
    <3>2. CASE h.part # Eip[z]
      <4>1. made'[Eip[z]] = made[Eip[z]] /\ made[Eip[z]] \in Ids
        BY <1>1, <1>2, <2>1, <3>2 DEF MadeAs, RecordType
      <4> QED BY <1>1, <1>3, <2>1, <4>1 DEF Arriving
    <3> QED BY <3>1, <3>2
  <2> QED BY <2>1
<1>12. ASSUME workFresh
       PROVE  /\ InStep' /\ Situated(work.rec)'
              /\ \A part \in InVpc \ NoPart(made)' :
                   work'.rec["vpc"] # None /\ cloud'[made'[part]].network = work'.rec["vpc"]
              /\ \A z \in Zones : made'[Eip[z]] # None /\ made'[NAT[z]] = None =>
                   \A j \in Ids : cloud'[j].address # made'[Eip[z]]
  <2>1. /\ HeadOK(todo, h) /\ Held(made) /\ Held(work.rec) /\ Held(work.rec)' /\ InOrder(work.rec, Coming(todo))
        /\ InOrder(work.rec, Coming(todo))'
    BY <1>12, FreshHead
  <2>2. InStep /\ Situated(work.rec)
    BY <1>1, <1>12 DEF Arriving
  <2>3. InStep'
    <3>1. ASSUME NEW part \in Parts, object.rec[part] \in Live
          PROVE  work'.rec[part] = object.rec[part]
      <4>1. work.rec[part] = object.rec[part] /\ work.rec[part] # None
        BY <1>1, <2>2, <3>1, LivesIn DEF InStep
      <4> QED BY <2>1, <4>1, NotesKeep
    <3> QED BY <1>3, <1>10, <3>1 DEF InStep
  <2>4. \A part \in Parts : made[part] # None =>
          /\ made[part] \in Ids /\ made[part] # i /\ cloud[made[part]].part = part
    BY <1>1, <1>3, <2>1 DEF Held, NoPart, RecordType
  <2>5. ASSUME NEW part \in InVpc, made'[part] # None
        PROVE  work'.rec["vpc"] # None /\ cloud'[made'[part]].network = work'.rec["vpc"]
    <3>1. CASE h.part = part
      <4>1. object.rec["vpc"] # None
        BY <1>1, <1>2, <3>1 DEF FoundedSteps
      <4>2. work.rec["vpc"] = object.rec["vpc"] /\ work.rec["vpc"] # None
        BY <1>1, <1>2, <2>2, <4>1 DEF InStep
      <4>3. new.network = work.rec["vpc"] /\ made'[part] = i
        BY <1>2, <3>1, <4>2 DEF MadeAs, Network
      <4>4. work'.rec["vpc"] = work.rec["vpc"]
        BY <1>2, <2>1, <4>2, NotesKeep
      <4> QED BY <1>3, <4>2, <4>3, <4>4
    <3>2. CASE h.part # part
      <4>1. made'[part] = made[part] /\ made[part] \in Ids /\ made[part] # i /\ part \notin NoPart(made)
        BY <1>2, <2>4, <2>5, <3>2 DEF MadeAs, NoPart
      <4>2. work.rec["vpc"] # None /\ cloud[made[part]].network = work.rec["vpc"]
        BY <1>1, <1>12, <4>1 DEF Arriving
      <4>3. work'.rec["vpc"] = work.rec["vpc"]
        BY <1>2, <2>1, <4>2, NotesKeep
      <4> QED BY <1>3, <4>1, <4>2, <4>3
    <3> QED BY <3>1, <3>2
  <2>6. ASSUME NEW z \in Zones, made'[Eip[z]] # None, made'[NAT[z]] = None
        PROVE  \A j \in Ids : cloud'[j].address # made'[Eip[z]]
    <3>1. h.part # NAT[z] /\ made[NAT[z]] = None
      BY <1>2, <1>3, <2>6 DEF MadeAs
    <3>2. CASE h.part = Eip[z]
      <4>1. made'[Eip[z]] = i /\ new.address = None
        BY <1>2, <3>2 DEF MadeAs
      <4>2. \A j \in Ids : cloud[j].address # i
        BY <1>1, <1>3 DEF Addressed
      <4> QED BY <1>3, <4>1, <4>2
    <3>3. CASE h.part # Eip[z]
      <4>1. made'[Eip[z]] = made[Eip[z]] /\ made[Eip[z]] # None
        BY <1>2, <2>6, <3>3 DEF MadeAs
      <4>2. \A j \in Ids : cloud[j].address # made[Eip[z]]
        BY <1>1, <1>12, <3>1, <4>1 DEF Arriving
      <4>3. new.address # made[Eip[z]]
        <5> SUFFICES ASSUME new.address = made[Eip[z]] PROVE FALSE
          OBVIOUS
        <5>1. PICK y \in Zones : h.part = NAT[y] /\ new.address = made[Eip[y]]
          BY <1>6, <4>1
        <5>2. y # z
          BY <3>1, <5>1
        <5>3. cloud[made[Eip[y]]].part = Eip[y] /\ cloud[made[Eip[z]]].part = Eip[z]
          <6>1. Eip[y] \in Parts /\ Eip[z] \in Parts /\ made[Eip[y]] # None
            BY <1>2, <4>1, <5>1
          <6> QED BY <2>4, <4>1, <6>1
        <5> QED BY <1>2, <5>1, <5>2, <5>3
      <4> QED BY <1>3, <4>1, <4>2, <4>3
    <3> QED BY <3>2, <3>3
  <2>7. ASSUME NEW part \in InVpc, work'.rec[part] # None
        PROVE  work'.rec["vpc"] # None /\ cloud'[work'.rec[part]].network = work'.rec["vpc"]
    <3>1. CASE part \in h.records
      BY <1>2, <2>5, <2>7, <3>1 DEF Notes
    <3>2. CASE part \notin h.records
      <4>1. work'.rec[part] = work.rec[part] /\ part \notin NoPart(work.rec) /\ work.rec[part] \in Ids
            /\ work.rec[part] # i
        BY <1>1, <1>2, <1>3, <2>2, <2>7, <3>2 DEF Notes, NoPart, RecordType, Situated
      <4>2. work.rec["vpc"] # None /\ cloud[work.rec[part]].network = work.rec["vpc"]
        BY <2>2, <2>7, <4>1 DEF Situated
      <4>3. work'.rec["vpc"] = work.rec["vpc"]
        BY <1>2, <2>1, <4>2, NotesKeep
      <4> QED BY <1>3, <4>1, <4>2, <4>3
    <3> QED BY <3>1, <3>2
  <2>8. ASSUME NEW z \in Zones, work'.rec[Eip[z]] # None
        PROVE  \A j \in Ids : cloud'[j].address = work'.rec[Eip[z]] => j = work'.rec[NAT[z]]
    <3>1. CASE Eip[z] \in h.records
      <4>1. NAT[z] \in h.records /\ h.part = NAT[z]
        BY <1>2, <2>1, <3>1 DEF HeadOK
      <4>2. made[Eip[z]] # None /\ made[NAT[z]] = None
        <5>1. Eip[z] # NAT[z]
          BY <1>2
        <5> QED BY <2>1, <3>1, <4>1, <5>1 DEF HeadOK
      <4>3. made'[Eip[z]] = made[Eip[z]] /\ made'[NAT[z]] = i
        BY <1>2, <4>1 DEF MadeAs
      <4>4. \A j \in Ids : cloud[j].address # made[Eip[z]]
        BY <1>1, <1>12, <4>2 DEF Arriving
      <4>5. work'.rec[Eip[z]] = made[Eip[z]] /\ work'.rec[NAT[z]] = i
        BY <1>2, <3>1, <4>1, <4>3 DEF Notes
      <4> QED BY <1>3, <4>4, <4>5
    <3>2. CASE Eip[z] \notin h.records
      <4>1. work'.rec[Eip[z]] = work.rec[Eip[z]]
        BY <1>2, <3>2 DEF Notes
      <4>2. work.rec[NAT[z]] # None /\ \A j \in Ids : cloud[j].address = work.rec[Eip[z]] => j = work.rec[NAT[z]]
        BY <2>2, <2>8, <4>1 DEF Situated
      <4>3. work'.rec[NAT[z]] = work.rec[NAT[z]]
        BY <1>2, <2>1, <4>2, NotesKeep
      <4>4. new.address # work.rec[Eip[z]]
        <5> SUFFICES ASSUME new.address = work.rec[Eip[z]] PROVE FALSE
          OBVIOUS
        <5>1. PICK y \in Zones : h.part = NAT[y] /\ new.address = made[Eip[y]]
          BY <1>6, <2>8, <4>1
        <5>2. cloud[work.rec[Eip[z]]].part = Eip[z]
          BY <1>2, <2>2, <2>8, <4>1 DEF Situated, Titled, NoPart
        <5>3. Eip[y] = Eip[z]
          BY <1>2, <2>4, <2>8, <4>1, <5>1, <5>2
        <5>4. y = z
          BY <1>2, <5>3
        <5> QED BY <2>1, <4>2, <5>1, <5>4 DEF HeadOK
      <4> QED BY <1>3, <4>1, <4>2, <4>3, <4>4
    <3> QED BY <3>1, <3>2
  <2>9. Situated(work.rec)'
    BY <1>5, <1>8, <2>1, <2>3, <2>7, <2>8, FreshSituated DEF Watched
  <2>10. \A part \in InVpc \ NoPart(made)' : made'[part] # None
    BY <1>2 DEF NoPart
  <2> QED BY <2>3, <2>5, <2>6, <2>9, <2>10
<1>13. Arriving'
  <2>1. todo' \in Seq(FoundedSteps') /\ pc' # "release" /\ object'.phase # "Deleting"
        /\ (pc' \in {"finalizer", "phase", "run"} => work'.phase = object'.phase)
    BY <1>1, <1>9 DEF Arriving
  <2>2. workFresh' => workFresh
    OBVIOUS
  <2> QED BY <1>11, <1>12, <2>1, <2>2 DEF Arriving
<1> QED BY <1>1, <1>5, <1>7, <1>8, <1>13 DEF Mindful, Addressed

-----------------------------------------------------------------------------
(* The steps of the phases that make something.                            *)
LEMMA ProceedMinds ==
  ASSUME Watched, ~work.deleting, pc = "run", NEW ids, Proceed(ids), NEW h, h = Head(todo)
  PROVE  /\ made' = ids /\ todo' = Tail(todo) /\ UNCHANGED <<object, workFresh, pc>>
         /\ work'.phase = work.phase /\ ~work'.deleting /\ Notes(h)
<1>1. IInv /\ work \in ObjectType
  BY RecordsKnown DEF Watched
<1>2. ~work'.deleting
  BY <1>1 DEF Proceed, Note, ObjectType
<1>3. UNCHANGED <<object, workFresh, pc>>
  BY DEF Proceed, Keeping, kube
<1>4. made' = ids /\ todo' = Tail(todo) /\ work'.phase = work.phase /\ Notes(h)
  BY <1>1, ProceedDoes DEF Notes
<1> QED BY <1>2, <1>3, <1>4

(* What is switched on, at whatever it is.                                 *)
LEMMA SetStands ==
  ASSUME IInv, NEW t, NEW setting,
         cloud' = [cloud EXCEPT ![t] = [cloud[t] EXCEPT !.settings = cloud[t].settings \cup {setting}]]
  PROVE  Stands
<1>1. cloud \in [Ids -> ResourceType]
  BY RecordsKnown
<1>2. PICK r, q : r = cloud[t] /\ q = [r EXCEPT !.settings = r.settings \cup {setting}]
  OBVIOUS
<1>3. \A j \in Ids : cloud'[j] = IF j = t THEN q ELSE cloud[j]
  BY <1>1, <1>2
<1>4. ASSUME t \in Ids
      PROVE  q.state = r.state /\ q.part = r.part /\ q.network = r.network /\ q.address = r.address
  <2>1. r \in ResourceType
    BY <1>1, <1>2, <1>4
  <2> QED BY <1>2, <2>1 DEF ResourceType
<1>5. \A j \in Ids : /\ cloud'[j].state = cloud[j].state /\ cloud'[j].part = cloud[j].part
                     /\ cloud'[j].network = cloud[j].network /\ cloud'[j].address = cloud[j].address
  BY <1>2, <1>3, <1>4
<1>6. Live' = Live
  BY <1>5 DEF Live
<1>7. Described' = Described
  BY <1>5, <1>6 DEF Described
<1> QED BY <1>5, <1>6, <1>7 DEF Stands, Alike

LEMMA SetMinds ==
  ASSUME Watched, ~work.deleting, SetCall
  PROVE  Mindful'
<1>1. pc = "run" /\ todo # <<>> /\ Proceed(made) /\ Head(todo).op = "set"
  BY DEF SetCall, Running
<1>2. PICK h, ids, t, setting : h = Head(todo) /\ ids = made /\ t = Target /\ setting = h.setting
  OBVIOUS
<1>3. cloud' = [cloud EXCEPT ![t] = [cloud[t] EXCEPT !.settings = cloud[t].settings \cup {setting}]]
  BY <1>2 DEF SetCall
<1>4. Stands
  BY <1>3, SetStands DEF Watched
<1>5. Proceed(ids)
  BY <1>1, <1>2
<1>6. /\ made' = made /\ todo' = Tail(todo) /\ UNCHANGED <<object, workFresh, pc>>
      /\ work'.phase = work.phase /\ ~work'.deleting /\ Notes(h)
  BY <1>1, <1>2, <1>5, ProceedMinds
<1>7. h.op = "set" /\ h.op # "find" /\ \A part \in Parts \ HasName : made'[part] = made[part]
  BY <1>1, <1>2, <1>6
<1> QED BY <1>1, <1>2, <1>4, <1>6, <1>7, StandsOn

(* What is made, with the address that it needs, or found under its name.  *)
LEMMA MakeMinds ==
  ASSUME Watched, ~work.deleting, MakeCall
  PROVE  Mindful'
<1>1. pc = "run" /\ todo # <<>> /\ Head(todo).op = "make"
  BY DEF MakeCall, Running
<1>2. PICK h : h = Head(todo)
  OBVIOUS
<1>3. /\ IInv /\ made \in RecordType /\ None \notin Ids /\ cloud \in [Ids -> ResourceType]
      /\ Network \in Ids \cup {None}
  BY <1>1, RecordsKnown, TargetTypes DEF Watched
<1>4. h.op = "make" /\ h.op # "find" /\ h.part \in Parts /\ Part = h.part
  <2>1. h \in MakingSteps
    BY <1>1, <1>2, <1>3, HeadFacts
  <2> QED BY <1>1, <1>2, <2>1 DEF MakingSteps, Part
<1> DEFINE address == IF Part = "nat1" THEN made["eip1"]
                      ELSE IF Part = "nat2" THEN made["eip2"] ELSE None
           new == Resource(IF Part \in Slow THEN "pending" ELSE "available", Part, {},
                           IF Part = "vpc" THEN None ELSE Network, address)
<1>5. \/ \E i \in Fresh : cloud' = [cloud EXCEPT ![i] = new] /\ Proceed([made EXCEPT ![Part] = i])
      \/ /\ Part \in HasName /\ UNCHANGED cloud
         /\ \E i \in Twins(Part, Network) : Proceed([made EXCEPT ![Part] = i])
  BY Zenon DEF MakeCall
<1>6. address \in Ids \cup {None}
  <2>1. "eip1" \in Parts /\ "eip2" \in Parts
    BY Named
  <2> QED BY <1>3, <2>1 DEF RecordType
<1>7. /\ \A z \in Zones : h.part = NAT[z] => address = made[Eip[z]]
      /\ h.part \notin Each(NAT) => address = None
  BY <1>4, Named DEF Zones, NAT, Eip
<1> HIDE DEF address
<1>8. /\ new.state \in {"pending", "available"} /\ new.part = h.part /\ new.address = address
      /\ new.network = IF h.part = "vpc" THEN None ELSE Network
      /\ new \in ResourceType
  <2>1. h.part \in Kinds
    BY <1>4 DEF Kinds
  <2> QED BY <1>3, <1>4, <1>6, <2>1 DEF Resource, ResourceType
<1> HIDE DEF new
<1>9. CASE \E i \in Fresh : cloud' = [cloud EXCEPT ![i] = new] /\ Proceed([made EXCEPT ![Part] = i])
  <2>1. PICK i \in Fresh : cloud' = [cloud EXCEPT ![i] = new] /\ Proceed([made EXCEPT ![Part] = i])
    BY <1>9
  <2>2. i \in Ids /\ cloud[i].state = "none"
    BY <1>3, VacantFirst DEF Unused
  <2>3. PICK n, ids : n = new /\ ids = [made EXCEPT ![h.part] = i]
    OBVIOUS
  <2>4. Adds(i, n)
    BY <1>8, <2>1, <2>2, <2>3 DEF Adds
  <2>5. Proceed(ids)
    BY <1>4, <2>1, <2>3
  <2>6. /\ made' = ids /\ todo' = Tail(todo) /\ UNCHANGED <<object, workFresh, pc>>
        /\ work'.phase = work.phase /\ ~work'.deleting /\ Notes(h)
    BY <1>1, <1>2, <2>5, ProceedMinds
  <2>7. made'[h.part] = i /\ \A part \in Parts \ {h.part} : made'[part] = made[part]
    BY <1>3, <1>4, <2>3, <2>6 DEF RecordType
  <2>8. MadeAs(h, i, n)
    BY <1>7, <1>8, <2>3, <2>4, <2>7 DEF MadeAs
  <2> QED BY <1>1, <1>2, <1>4, <2>6, <2>8, AddsOn
<1>10. CASE /\ Part \in HasName /\ UNCHANGED cloud
            /\ \E i \in Twins(Part, Network) : Proceed([made EXCEPT ![Part] = i])
  <2>1. PICK i \in Twins(Part, Network) : Proceed([made EXCEPT ![Part] = i])
    BY <1>10
  <2>2. PICK ids : ids = [made EXCEPT ![h.part] = i]
    OBVIOUS
  <2>3. Proceed(ids)
    BY <1>4, <2>1, <2>2
  <2>4. /\ made' = ids /\ todo' = Tail(todo) /\ UNCHANGED <<object, workFresh, pc>>
        /\ work'.phase = work.phase /\ ~work'.deleting /\ Notes(h)
    BY <1>1, <1>2, <2>3, ProceedMinds
  <2>5. h.part \in HasName /\ \A part \in Parts \ HasName : made'[part] = made[part]
    BY <1>3, <1>4, <1>10, <2>2, <2>4 DEF RecordType
  <2>6. Stands
    BY <1>10, SameStands
  <2> QED BY <1>1, <1>2, <1>4, <2>4, <2>5, <2>6, StandsOn
<1> QED BY <1>5, <1>9, <1>10

(* There is nothing of the user's to find.                                 *)
LEMMA FindMinds ==
  ASSUME Watched, ~work.deleting, FindCall
  PROVE  Mindful'
<1>1. /\ pc = "run" /\ todo # <<>> /\ Head(todo).op = "find" /\ UNCHANGED cloud
      /\ Proceed([part \in Parts |->
                    IF \E i \in Foreign : ForeignPart[i] = part
                    THEN CHOOSE i \in Foreign : ForeignPart[i] = part ELSE made[part]])
  BY DEF FindCall, Running, Unaltered
<1>2. PICK h, ids :
        /\ h = Head(todo)
        /\ ids = [part \in Parts |->
                    IF \E i \in Foreign : ForeignPart[i] = part
                    THEN CHOOSE i \in Foreign : ForeignPart[i] = part ELSE made[part]]
  OBVIOUS
<1>3. /\ IInv /\ made \in RecordType /\ Foreign = {} /\ Kept = {} /\ work \in ObjectType
      /\ work.rec \in RecordType
  BY RecordsKnown, MindedFacts DEF Watched
<1>4. ids = made
  BY <1>2, <1>3 DEF RecordType
<1>5. Proceed(ids)
  BY <1>1, <1>2
<1>6. /\ made' = made /\ todo' = Tail(todo) /\ UNCHANGED <<object, workFresh, pc>>
      /\ work'.phase = work.phase /\ ~work'.deleting /\ Notes(h)
  BY <1>1, <1>2, <1>4, <1>5, ProceedMinds
<1>7. Tail(todo) = <<>> /\ h.records = {}
  <2>1. h \in MakingSteps => h.op # "find"
    BY DEF MakingSteps
  <2> QED BY <1>1, <1>2, <1>3, <2>1, HeadFacts
<1>8. work'.rec = work.rec
  <2>1. work'.rec = [part \in Parts |-> work.rec[part]]
    BY <1>2, <1>3, <1>5, <1>7 DEF Proceed, Note, ObjectType
  <2> QED BY <1>3, <2>1 DEF RecordType
<1>9. Mindful /\ Arriving
  BY <1>1 DEF Watched, Mindful
<1>10. Arriving'
  BY <1>1, <1>6, <1>7, <1>8, <1>9, NoMoreSteps, ArrivesStill DEF Arriving
<1> QED BY <1>1, <1>6, <1>9, <1>10, LocalMindful

(* A call that AWS refuses.                                                *)
LEMMA MakingFails ==
  ASSUME Watched, ~work.deleting, pc = "run", todo # <<>>, NEW how, Fails(how)
  PROVE  Mindful'
<1>1. CASE PhaseFails \/ Wait
  BY <1>1, StopMinds
<1>2. CASE PassOver
  <2>1. /\ UNCHANGED <<object, work, made, cloud, pc, workFresh>> /\ todo' = Tail(todo)
    BY <1>2 DEF PassOver, Keeping, kube
  <2>2. Mindful /\ Arriving
    BY DEF Watched, Mindful
  <2>3. Tail(todo) \in Seq(FoundedSteps)
    BY <2>2 DEF Arriving
  <2>4. Arriving'
    BY <2>1, <2>2, <2>3, ArrivesStill DEF Arriving
  <2> QED BY <2>1, <2>2, <2>4, LocalMindful
<1> QED BY <1>1, <1>2 DEF Fails

LEMMA MakingMinds ==
  ASSUME Watched, ~work.deleting, Script
  PROVE  Mindful'
<1>1. pc = "run" /\ todo # <<>>
  BY StepEnds
<1>2. CASE MakeCall \/ SetCall \/ FindCall
  BY <1>2, MakeMinds, SetMinds, FindMinds
<1>3. CASE MakeRefused \/ SetRefused \/ CallFails
  <2>1. PICK on, inUse : on = Head(todo).on /\ inUse = Head(todo).inUse
    OBVIOUS
  <2>2. Fails(on) \/ Fails(inUse)
    BY <1>3, <2>1 DEF MakeRefused, SetRefused, CallFails, Refused
  <2> QED BY <1>1, <2>2, MakingFails
<1>4. ~(\/ DeleteCall \/ DeleteRefused \/ AwaitCall \/ DetachCall \/ SweepCall \/ SweepHeldUp
        \/ ClearStep)
  <2>1. PICK h : h = Head(todo)
    OBVIOUS
  <2>2. h \in MakingSteps \/ h.op = "find"
    BY <1>1, <2>1, HeadFacts DEF Watched
  <2>3. h.op \in {"make", "set", "find"}
    BY <2>2 DEF MakingSteps
  <2> QED BY <2>1, <2>3 
      DEF DeleteCall, DeleteRefused, AwaitCall, DetachCall, SweepCall, SweepHeldUp, ClearStep, Running
<1> QED BY <1>2, <1>3, <1>4 DEF Script

-----------------------------------------------------------------------------
(* What the scripts of the phases make has what it needs.                  *)
Founded(part) ==
  /\ part \notin Roles \cup {"vpc"} => object.rec["vpc"] # None
  /\ part \in Each(NAT) \cup {"cluster"} => object.rec["public1"] # None

LEMMA FoundedFacts ==
  ASSUME NEW part \in Parts, NEW setting \in Attributes, NEW records \in SUBSET Parts, Founded(part)
  PROVE  /\ Making(part, "", records) \in FoundedSteps /\ Make(part) \in FoundedSteps
         /\ MakeAndRecord(part) \in FoundedSteps /\ TryMake(part) \in FoundedSteps
         /\ part \notin Each(NAT) =>
              Set(part, setting) \in FoundedSteps /\ SetAndRecord(part, setting) \in FoundedSteps
<1>1. part \in Kinds \cup {"tables", "balancers"}
  BY DEF Kinds
<1>2. \A r \in SUBSET Parts : Making(part, "", r) \in FoundedSteps
  BY <1>1 DEF Making, Step, FoundedSteps, Steps, Outcomes, Founded
<1>3. part \notin Each(NAT) => \A r \in SUBSET Parts : Making(part, setting, r) \in FoundedSteps
  BY <1>1 DEF Making, Step, FoundedSteps, Steps, Outcomes, Founded
<1>4. TryMake(part) \in FoundedSteps
  <2>1. PICK step \in FoundedSteps : step = MakeAndRecord(part)
    BY <1>2 DEF MakeAndRecord
  <2>2. [step EXCEPT !.on = "passes"] \in FoundedSteps
    BY DEF FoundedSteps, Steps, Outcomes
  <2> QED BY <2>1, <2>2 DEF TryMake
<1> QED BY <1>2, <1>3, <1>4 DEF Make, MakeAndRecord, Set, SetAndRecord

LEMMA RolesFounded ==
  ASSUME config \in Setups, OwnVpc
  PROVE  reconcileIAMRoles \in Seq(FoundedSteps) /\ reconcileVPC \in Seq(FoundedSteps)
<1>1. \A part \in Roles \cup {"vpc"} : Founded(part) /\ part \in Parts /\ part \notin Each(NAT)
  BY Named DEF Founded
<1>2. \A part \in Roles : MakeAndRecord(part) \in FoundedSteps /\ Set(part, "policies") \in FoundedSteps
  BY <1>1, FoundedFacts, AttributeNames
<1>3. \A part \in Roles : role(part) \in Seq(FoundedSteps)
  BY <1>2 DEF role, If
<1>4. role("clusterRole") \in Seq(FoundedSteps) /\ role("nodeRole") \in Seq(FoundedSteps)
  BY <1>3, Named
<1>5. /\ Make("vpc") \in FoundedSteps /\ Set("vpc", "hostnames") \in FoundedSteps
      /\ SetAndRecord("vpc", "support") \in FoundedSteps
  BY <1>1, FoundedFacts, AttributeNames
<1>6. <<>> \in Seq(FoundedSteps)
      /\ <<Make("vpc"), Set("vpc", "hostnames"), SetAndRecord("vpc", "support")>> \in Seq(FoundedSteps)
  BY <1>5
<1> QED BY <1>4, <1>6 DEF reconcileIAMRoles, reconcileVPC, If

LEMMA NetworkFounded ==
  ASSUME OwnSubnets, object.rec["vpc"] # None
  PROVE  /\ reconcileInternetGateway \in Seq(FoundedSteps) /\ reconcileSubnets \in Seq(FoundedSteps)
         /\ reconcileRouteTables \in Seq(FoundedSteps) /\ reconcileSecurityGroups \in Seq(FoundedSteps)
         /\ reconcileNodePools \in Seq(FoundedSteps) /\ reconcileAddons \in Seq(FoundedSteps)
<1>1. \A part \in {"igw", "pool", "addon"} \cup Subnets \cup Tables \cup Groups :
        Founded(part) /\ part \in Parts /\ part \notin Each(NAT)
  BY Named DEF Founded
<1>2. /\ Make("igw") \in FoundedSteps /\ SetAndRecord("igw", "attachment") \in FoundedSteps
      /\ MakeAndRecord("pool") \in FoundedSteps /\ TryMake("addon") \in FoundedSteps
  BY <1>1, FoundedFacts, AttributeNames
<1>3. /\ MakeAndRecord("clusterSG") \in FoundedSteps /\ Make("nodeSG") \in FoundedSteps
      /\ Set("nodeSG", "nodes") \in FoundedSteps /\ SetAndRecord("nodeSG", "cluster") \in FoundedSteps
  <2>1. "clusterSG" \in Groups /\ "nodeSG" \in Groups
    BY Named
  <2> QED BY <1>1, <2>1, FoundedFacts, AttributeNames
<1>4. /\ <<MakeAndRecord("clusterSG")>> \in Seq(FoundedSteps)
      /\ <<Make("nodeSG"), Set("nodeSG", "nodes"), SetAndRecord("nodeSG", "cluster")>> \in Seq(FoundedSteps)
      /\ <<Make("igw"), SetAndRecord("igw", "attachment")>> \in Seq(FoundedSteps)
      /\ <<MakeAndRecord("pool")>> \in Seq(FoundedSteps) /\ <<TryMake("addon")>> \in Seq(FoundedSteps)
      /\ <<>> \in Seq(FoundedSteps)
  BY <1>2, <1>3
<1>5. /\ reconcileInternetGateway \in Seq(FoundedSteps) /\ reconcileNodePools \in Seq(FoundedSteps)
      /\ reconcileAddons \in Seq(FoundedSteps)
  BY <1>4 DEF reconcileInternetGateway, reconcileNodePools, reconcileAddons, If
<1>6. reconcileSecurityGroups \in Seq(FoundedSteps)
  BY <1>4 DEF reconcileSecurityGroups, If
<1>7. reconcileSubnets \in Seq(FoundedSteps)
  <2>1. \A z \in Zones :
          /\ Make(Public[z]) \in FoundedSteps /\ SetAndRecord(Public[z], "publicIp") \in FoundedSteps
          /\ MakeAndRecord(Private[z]) \in FoundedSteps
    <3>1. \A z \in Zones : Public[z] \in Subnets /\ Private[z] \in Subnets
      BY DEF Subnets, Each
    <3> QED BY <1>1, <3>1, FoundedFacts, AttributeNames
  <2>2. \A z \in Zones :
          /\ If(~IsRecorded(Public[z]), <<Make(Public[z]), SetAndRecord(Public[z], "publicIp")>>)
               \in Seq(FoundedSteps)
          /\ If(~IsRecorded(Private[z]), <<MakeAndRecord(Private[z])>>) \in Seq(FoundedSteps)
    BY <2>1 DEF If
  <2>3. PICK p1 \in Seq(FoundedSteps), p2 \in Seq(FoundedSteps), q1 \in Seq(FoundedSteps),
             q2 \in Seq(FoundedSteps) :
          /\ p1 = If(~IsRecorded(Public[1]), <<Make(Public[1]), SetAndRecord(Public[1], "publicIp")>>)
          /\ p2 = If(~IsRecorded(Public[2]), <<Make(Public[2]), SetAndRecord(Public[2], "publicIp")>>)
          /\ q1 = If(~IsRecorded(Private[1]), <<MakeAndRecord(Private[1])>>)
          /\ q2 = If(~IsRecorded(Private[2]), <<MakeAndRecord(Private[2])>>)
    BY <2>2, PartNames
  <2>4. (p1 \o If(config.zones = 2, p2)) \o (q1 \o If(config.zones = 2, q2)) \in Seq(FoundedSteps)
    BY DEF If
  <2>5. reconcileSubnets = (p1 \o If(config.zones = 2, p2)) \o (q1 \o If(config.zones = 2, q2))
    BY <2>3 DEF reconcileSubnets, InZones
  <2> QED BY <2>4, <2>5
<1>8. reconcileRouteTables \in Seq(FoundedSteps)
  <2> DEFINE table(part) == <<Make(part), Set(part, "route"), SetAndRecord(part, "association")>>
  <2>1. \A part \in Tables :
          /\ Make(part) \in FoundedSteps /\ Set(part, "route") \in FoundedSteps
          /\ SetAndRecord(part, "association") \in FoundedSteps
    BY <1>1, FoundedFacts, AttributeNames
  <2>2. \A part \in Tables : table(part) \in Seq(FoundedSteps)
    BY <2>1
  <2>3. PICK t \in Seq(FoundedSteps), t1 \in Seq(FoundedSteps), t2 \in Seq(FoundedSteps) :
          t = table("publicRT") /\ t1 = table(PrivateRT[1]) /\ t2 = table(PrivateRT[2])
    BY <2>2, PartNames
  <2>4. reconcileRouteTables =
          If(\A part \in Tables : ~IsRecorded(part),
             (t \o If(IsRecorded(NAT[1]) /\ IsRecorded(Private[1]), t1))
               \o If(IsRecorded(NAT[2]) /\ IsRecorded(Private[2]), t2))
    BY <2>3 DEF reconcileRouteTables
  <2> HIDE DEF table
  <2>5. \A a, b \in BOOLEAN : (t \o If(a, t1)) \o If(b, t2) \in Seq(FoundedSteps)
    BY DEF If
  <2> QED BY <2>4, <2>5 DEF If
<1> QED BY <1>5, <1>6, <1>7, <1>8

LEMMA HangingFounded ==
  ASSUME object.rec["vpc"] # None, object.rec["public1"] # None
  PROVE  reconcileNATGateways \in Seq(FoundedSteps) /\ reconcileCluster \in Seq(FoundedSteps)
<1>1. \A part \in Parts : Founded(part)
  BY DEF Founded
<1>2. reconcileCluster \in Seq(FoundedSteps)
  <2>1. MakeAndRecord("cluster") \in FoundedSteps
    BY <1>1, FoundedFacts, AttributeNames, PartNames, Named
  <2> QED BY <2>1 DEF reconcileCluster, If
<1>3. \A z \in Zones :
        Make(Eip[z]) \in FoundedSteps /\ Making(NAT[z], "", {Eip[z], NAT[z]}) \in FoundedSteps
  BY <1>1, FoundedFacts, AttributeNames, PartNames
<1>4. ASSUME NEW z \in Zones
      PROVE  <<Make(Eip[z]), Making(NAT[z], "", {Eip[z], NAT[z]})>> \in Seq(FoundedSteps)
  <2>1. Make(Eip[z]) \in FoundedSteps /\ Making(NAT[z], "", {Eip[z], NAT[z]}) \in FoundedSteps
    BY <1>3
  <2>2. PICK a \in FoundedSteps, b \in FoundedSteps :
          a = Make(Eip[z]) /\ b = Making(NAT[z], "", {Eip[z], NAT[z]})
    BY <2>1
  <2>3. <<a, b>> \in Seq(FoundedSteps)
    OBVIOUS
  <2> QED BY <2>2, <2>3
<1>5. PICK n1 \in Seq(FoundedSteps), n2 \in Seq(FoundedSteps) :
        /\ n1 = <<Make(Eip[1]), Making(NAT[1], "", {Eip[1], NAT[1]})>>
        /\ n2 = <<Make(Eip[2]), Making(NAT[2], "", {Eip[2], NAT[2]})>>
  BY <1>4, PartNames
<1>6. n1 \o n2 \in Seq(FoundedSteps) /\ n1 \o <<>> \in Seq(FoundedSteps)
  OBVIOUS
<1>7. reconcileNATGateways =
        If(\A z \in Zones : ~IsRecorded(NAT[z]),
           n1 \o If(config.nat = "HighAvailability" /\ IsRecorded("public2"), n2))
  BY <1>5 DEF reconcileNATGateways
<1> QED BY <1>2, <1>6, <1>7 DEF If

LEMMA PhasesFounded ==
  ASSUME config \in Setups, OwnVpc, OwnSubnets, Standing, object.phase \in Creating
  PROVE  ScriptOf(object.phase) \in Seq(FoundedSteps)
<1>1. PICK phase \in Creating : phase = object.phase
  OBVIOUS
<1>2. /\ Rank(phase) > 2 => object.rec["vpc"] # None
      /\ Rank(phase) > 5 => object.rec["public1"] # None
  BY <1>1, RankOf DEF Standing
<1>3. PICK r : r = [p \in Creating |-> Rank(p)]
  OBVIOUS
<1>4. /\ r["CreatingIGW"] = 4 /\ r["CreatingSubnets"] = 5 /\ r["CreatingNATGateway"] = 7
      /\ r["CreatingRouteTables"] = 9 /\ r["CreatingSecGroups"] = 10
      /\ r["CreatingCluster"] = 11 /\ r["CreatingNodePools"] = 13 /\ r["InstallingAddons"] = 15
  BY <1>3, RankOf DEF Creating
<1>5. r[phase] = Rank(phase)
  BY <1>3
<1>6. CASE phase \in {"CreatingIAMRoles", "CreatingVPC"}
  BY <1>1, <1>6, WhichScript, RolesFounded
<1>7. CASE phase \in {"CreatingIGW", "CreatingSubnets", "CreatingRouteTables", "CreatingSecGroups",
                      "CreatingNodePools", "InstallingAddons"}
  <2>1. Rank(phase) > 2
    BY <1>7, <1>4, <1>5
  <2> QED BY <1>1, <1>2, <1>7, <2>1, WhichScript, NetworkFounded
<1>8. CASE phase \in {"CreatingNATGateway", "CreatingCluster"}
  <2>1. Rank(phase) > 2 /\ Rank(phase) > 5
    BY <1>8, <1>4, <1>5
  <2> QED BY <1>1, <1>2, <1>8, <2>1, WhichScript, HangingFounded
<1> QED BY <1>6, <1>7, <1>8 DEF Creating

(* A phase begins.                                                         *)
LEMMA MakingBegins ==
  ASSUME Watched, ~work.deleting, BeginPhase
  PROVE  Mindful'
<1>1. /\ pc = "phase" /\ pc' = "run" /\ UNCHANGED <<work, made, cloud, faults, object, workFresh>>
  BY DEF BeginPhase, Keeping, kube
<1>2. /\ Mindful /\ Arriving /\ Standing /\ config \in Setups /\ OwnVpc /\ OwnSubnets
      /\ work.phase = object.phase /\ object.phase # "Deleting"
  BY <1>1, RecordsKnown, MindedFacts DEF Watched, Mindful, Arriving
<1>3. todo' \in Seq(FoundedSteps)
  <2>1. CASE object.phase \in Creating
    <3>1. todo' = ScriptOf(object.phase)
      BY <1>2, <2>1, Zenon DEF BeginPhase
    <3> QED BY <1>2, <2>1, <3>1, PhasesFounded
  <2>2. CASE object.phase \notin Creating
    <3>1. todo' = <<>>
      BY <1>2, <2>2, Zenon DEF BeginPhase
    <3> QED BY <3>1, NoMoreSteps
  <2> QED BY <2>1, <2>2
<1>4. Arriving'
  BY <1>1, <1>2, <1>3, ArrivesStill
<1> QED BY <1>1, <1>2, <1>4, LocalMindful

-----------------------------------------------------------------------------
(* The script of the deletion, put together.                               *)
StepsOf(s) == {s[k] : k \in 1..Len(s)}

InPlaces(s, before) ==
  /\ s \in Seq(DeletingSteps)
  /\ \A k \in 1..Len(s) : InPlace(s[k], before \cup {s[j] : j \in 1..(k - 1)})

(* In place, after others, it takes these parts out of the status.         *)
Deletes(s, before, parts) == InPlaces(s, before) /\ parts \ NoPart(work.rec) \subseteq Coming(s)

LEMMA InPlaceMore ==
  ASSUME NEW step, NEW before, NEW after, before \subseteq after, InPlace(step, before)
  PROVE  InPlace(step, after)
<1>1. \A part : Loose(part, before) => Loose(part, after)
  BY DEF Loose
<1>2. \A parts : Dismissed(parts, before) => Dismissed(parts, after)
  BY DEF Dismissed
<1>3. \A parts : Dismissed(parts, before \cup {step}) => Dismissed(parts, after \cup {step})
  BY DEF Dismissed
<1>4. \A part \in step.records :
        work.rec[part] \in Live => \E other \in after \cup {step} : Removes(other, part)
  BY DEF InPlace
<1> QED BY <1>1, <1>2, <1>3, <1>4 DEF InPlace

LEMMA ComingIs ==
  ASSUME NEW s
  PROVE  \A x : x \in Coming(s) <=> \E step \in StepsOf(s) : x \in step.records
BY DEF Coming, StepsOf

LEMMA NoneDeletes ==
  ASSUME NEW before, NEW parts, parts \subseteq NoPart(work.rec)
  PROVE  Deletes(<<>>, before, parts)
<1>1. <<>> \in Seq(DeletingSteps) /\ 1..Len(<<>>) = {}
  OBVIOUS
<1> QED BY <1>1 DEF Deletes, InPlaces

LEMMA OneDeletes ==
  ASSUME NEW x \in DeletingSteps, NEW before, InPlace(x, before)
  PROVE  Deletes(<<x>>, before, x.records) /\ StepsOf(<<x>>) = {x}
<1>1. PICK s : s = <<x>>
  OBVIOUS
<1>2. s \in Seq(DeletingSteps) /\ 1..Len(s) = {1} /\ s[1] = x
  BY <1>1
<1>3. StepsOf(s) = {x}
  BY <1>2 DEF StepsOf
<1>4. x.records \subseteq Coming(s)
  BY <1>3, ComingIs
<1>5. InPlaces(s, before)
  BY <1>2, InPlaceMore DEF InPlaces
<1> QED BY <1>1, <1>3, <1>4, <1>5 DEF Deletes

LEMMA JoinDeletes ==
  ASSUME NEW a, NEW b, NEW before, NEW after, NEW parts, NEW others,
         Deletes(a, before, parts), Deletes(b, after, others), after \subseteq before \cup StepsOf(a)
  PROVE  /\ Deletes(a \o b, before, parts \cup others)
         /\ StepsOf(a \o b) = StepsOf(a) \cup StepsOf(b)
<1>1. PICK s, n, m : s = a \o b /\ n = Len(a) /\ m = Len(b)
  OBVIOUS
<1>2. a \in Seq(DeletingSteps) /\ b \in Seq(DeletingSteps)
  BY DEF Deletes, InPlaces
<1>3. /\ s \in Seq(DeletingSteps) /\ n \in Nat /\ m \in Nat /\ Len(s) = n + m
      /\ \A k \in 1..n : s[k] = a[k]
      /\ \A k \in 1..m : s[n + k] = b[k]
  BY <1>1, <1>2
<1>4. \A k \in 1..(n + m) : k \in 1..n \/ (k - n \in 1..m /\ n + (k - n) = k)
  BY <1>3
<1>5. (\A k \in 1..n : k \in 1..(n + m)) /\ \A k \in 1..m : n + k \in 1..(n + m)
  BY <1>3
<1>6. StepsOf(s) = StepsOf(a) \cup StepsOf(b)
  <2>1. ASSUME NEW k \in 1..(n + m) PROVE s[k] \in StepsOf(a) \cup StepsOf(b)
    <3>1. CASE k \in 1..n
      BY <1>1, <1>3, <3>1 DEF StepsOf
    <3>2. CASE k - n \in 1..m /\ n + (k - n) = k
      <4>1. PICK j \in 1..m : n + j = k
        BY <3>2
      <4>2. s[n + j] = b[j]
        BY <1>3
      <4> QED BY <1>1, <4>1, <4>2 DEF StepsOf
    <3> QED BY <1>4, <3>1, <3>2
  <2>2. ASSUME NEW k \in 1..n PROVE a[k] \in StepsOf(s)
    BY <1>3, <1>5 DEF StepsOf
  <2>3. ASSUME NEW k \in 1..m PROVE b[k] \in StepsOf(s)
    <3>1. PICK i \in 1..(n + m) : s[i] = b[k]
      BY <1>3, <1>5
    <3> QED BY <1>3, <3>1 DEF StepsOf
  <2>4. StepsOf(s) \subseteq StepsOf(a) \cup StepsOf(b)
    <3>1. ASSUME NEW x \in StepsOf(s) PROVE x \in StepsOf(a) \cup StepsOf(b)
      <4>1. PICK k \in 1..(n + m) : x = s[k]
        BY <1>3 DEF StepsOf
      <4> QED BY <2>1, <4>1
    <3> QED BY <3>1
  <2>5. StepsOf(a) \subseteq StepsOf(s)
    BY <1>1, <2>2 DEF StepsOf
  <2>6. StepsOf(b) \subseteq StepsOf(s)
    BY <1>1, <2>3 DEF StepsOf
  <2> QED BY <2>4, <2>5, <2>6
<1>7. Coming(a) \cup Coming(b) \subseteq Coming(s)
  BY <1>6, ComingIs
<1>8. ASSUME NEW k \in 1..n
      PROVE  InPlace(s[k], before \cup {s[j] : j \in 1..(k - 1)})
  <2>1. PICK step, past : step = a[k] /\ past = before \cup {a[j] : j \in 1..(k - 1)}
    OBVIOUS
  <2>2. InPlace(step, past)
    BY <1>1, <2>1 DEF Deletes, InPlaces
  <2>3. \A j \in 1..(k - 1) : s[j] = a[j]
    BY <1>3
  <2>4. past = before \cup {s[j] : j \in 1..(k - 1)}
    BY <2>1, <2>3
  <2> QED BY <1>3, <2>1, <2>2, <2>4
<1>9. ASSUME NEW k \in 1..m, NEW q, q = n + k
      PROVE  InPlace(s[q], before \cup {s[j] : j \in 1..(q - 1)})
  <2>1. PICK step, past, now : /\ step = b[k] /\ past = after \cup {b[j] : j \in 1..(k - 1)}
                               /\ now = before \cup {s[j] : j \in 1..(q - 1)}
    OBVIOUS
  <2>2. InPlace(step, past)
    BY <1>1, <2>1 DEF Deletes, InPlaces
  <2>3. \A j \in 1..n : a[j] \in {s[i] : i \in 1..(q - 1)}
    <3>1. ASSUME NEW j \in 1..n PROVE a[j] \in {s[i] : i \in 1..(q - 1)}
      <4>1. j \in 1..(q - 1) /\ s[j] = a[j]
        BY <1>3, <1>9
      <4> QED BY <4>1
    <3> QED BY <3>1
  <2>4. \A j \in 1..(k - 1) : b[j] \in {s[i] : i \in 1..(q - 1)}
    <3>1. ASSUME NEW j \in 1..(k - 1) PROVE b[j] \in {s[i] : i \in 1..(q - 1)}
      <4>1. n + j \in 1..(q - 1) /\ s[n + j] = b[j]
        BY <1>3, <1>9
      <4>2. PICK i \in 1..(q - 1) : s[i] = b[j]
        BY <4>1
      <4> QED BY <4>2
    <3> QED BY <3>1
  <2>5. StepsOf(a) \subseteq now
    BY <1>1, <2>1, <2>3 DEF StepsOf
  <2>6. past \subseteq now
    BY <2>1, <2>4, <2>5
  <2>7. InPlace(step, now)
    BY <2>2, <2>6, InPlaceMore
  <2> QED BY <1>3, <1>9, <2>1, <2>7
<1>10. InPlaces(s, before)
  <2>1. ASSUME NEW k \in 1..(n + m)
        PROVE  InPlace(s[k], before \cup {s[j] : j \in 1..(k - 1)})
    <3>1. CASE k \in 1..n
      BY <1>8, <3>1
    <3>2. CASE k - n \in 1..m /\ n + (k - n) = k
      <4>1. PICK i \in 1..m : n + i = k
        BY <3>2
      <4> QED BY <1>9, <4>1
    <3> QED BY <1>4, <3>1, <3>2
  <2> QED BY <1>3, <2>1 DEF InPlaces
<1> QED BY <1>1, <1>6, <1>7, <1>10 DEF Deletes

LEMMA TwoDelete ==
  ASSUME NEW x \in DeletingSteps, NEW y \in DeletingSteps, NEW before,
         InPlace(x, before), InPlace(y, before \cup {x})
  PROVE  /\ Deletes(<<x, y>>, before, x.records \cup y.records)
         /\ StepsOf(<<x, y>>) = {x, y}
<1>1. PICK s : s = <<x, y>>
  OBVIOUS
<1>2. s \in Seq(DeletingSteps) /\ Len(s) = 2 /\ s[1] = x /\ s[2] = y
  BY <1>1
<1>3. 1..2 = {1, 2} /\ 1..(2 - 1) = {1}
  OBVIOUS
<1>4. StepsOf(s) = {x, y}
  BY <1>2, <1>3 DEF StepsOf
<1>5. x.records \cup y.records \subseteq Coming(s)
  BY <1>4, ComingIs
<1>6. InPlace(s[1], before \cup {s[j] : j \in 1..(1 - 1)})
  BY <1>2, InPlaceMore
<1>7. InPlace(s[2], before \cup {s[j] : j \in 1..(2 - 1)})
  <2>1. {s[j] : j \in 1..(2 - 1)} = {x}
    BY <1>2, <1>3
  <2> QED BY <1>2, <2>1
<1>8. InPlaces(s, before)
  <2>1. \A k \in 1..Len(s) : k = 1 \/ k = 2
    BY <1>2, <1>3
  <2> QED BY <1>2, <1>6, <1>7, <2>1 DEF InPlaces
<1> QED BY <1>1, <1>4, <1>5, <1>8 DEF Deletes

(* Every block of the script is in place.                                  *)
LEMMA PairDeletes ==
  ASSUME config \in Setups, Kept = {}, NEW part \in {"pool", "cluster"}
  PROVE  Deletes(<<DeleteFirst(part, "waits"), Await(part, {part})>>, {}, {part})
<1>1. part \in Parts /\ part \notin Each(NAT) /\ part # "vpc" /\ part # "igw"
  BY Named
<1>2. PICK x \in DeletingSteps, y \in DeletingSteps :
        x = DeleteFirst(part, "waits") /\ y = Await(part, {part})
  BY <1>1, DeletingFacts
<1>3. /\ x.op = "delete" /\ x.part = part /\ x.records = {} /\ x.inUse = "waits"
      /\ y.op = "await" /\ y.records = {part}
  BY <1>2 DEF DeleteFirst, Await, DeleteStep, Step
<1>4. \A z \in Zones : NAT[z] # part
  BY <1>1 DEF Each
<1>5. InPlace(x, {})
  BY <1>3 DEF InPlace
<1>6. InPlace(y, {} \cup {x})
  BY <1>1, <1>3, <1>4 DEF InPlace, Removes
<1>7. Deletes(<<x, y>>, {}, {} \cup {part})
  BY <1>3, <1>5, <1>6, TwoDelete
<1> QED BY <1>2, <1>7

LEMMA GroupDeletes ==
  ASSUME config \in Setups, Kept = {}, NEW part \in Groups
  PROVE  Deletes(<<Delete(part, "waits")>>, {}, {part})
<1>1. part \in Parts /\ part \notin Each(NAT) /\ part # "vpc" /\ part # "igw"
  BY Named
<1>2. PICK x \in DeletingSteps : x = Delete(part, "waits")
  BY <1>1, DeletingFacts
<1>3. x.op = "delete" /\ x.part = part /\ x.records = {part} /\ x.inUse = "waits"
  BY <1>2 DEF Delete, DeleteStep, Step
<1>4. \A z \in Zones : NAT[z] # part
  BY <1>1 DEF Each
<1>5. InPlace(x, {})
  BY <1>1, <1>3, <1>4 DEF InPlace, Removes
<1> QED BY <1>2, <1>3, <1>5, OneDeletes

LEMMA AddonDeletes ==
  ASSUME config \in Setups, Kept = {}
  PROVE  Deletes(<<Delete("addon", "passes")>>, {}, {"addon"})
<1>1. "addon" \in Parts /\ "addon" \notin Each(NAT)
  BY Named
<1>2. PICK x \in DeletingSteps : x = Delete("addon", "passes")
  BY <1>1, DeletingFacts
<1>3. x.op = "delete" /\ x.part = "addon" /\ x.records = {"addon"} /\ x.inUse = "passes"
  BY <1>2 DEF Delete, DeleteStep, Step
<1>4. \A z \in Zones : NAT[z] # "addon"
  BY <1>1 DEF Each
<1>5. InPlace(x, {})
  BY <1>1, <1>3, <1>4 DEF InPlace, Removes, Loose
<1> QED BY <1>2, <1>3, <1>5, OneDeletes

LEMMA RoleDeletes ==
  ASSUME config \in Setups, Kept = {}, NEW part \in Roles
  PROVE  Deletes(<<Detach(part, "policies"), Delete(part, "passes")>>, {}, {part})
<1>1. part \in Parts /\ part \notin Each(NAT) /\ part # "vpc" /\ part # "igw"
  BY Named
<1>2. PICK x \in DeletingSteps, y \in DeletingSteps :
        x = Detach(part, "policies") /\ y = Delete(part, "passes")
  BY <1>1, DeletingFacts
<1>3. /\ x.op = "detach" /\ x.part = part /\ x.records = {} /\ x.setting = "policies"
      /\ y.op = "delete" /\ y.part = part /\ y.records = {part} /\ y.inUse = "passes"
  BY <1>2 DEF Detach, Delete, DeleteStep, Step
<1>4. \A z \in Zones : NAT[z] # part
  BY <1>1 DEF Each
<1>5. InPlace(x, {})
  BY <1>1, <1>3 DEF InPlace
<1>6. Loose(part, {} \cup {x})
  BY <1>1, <1>3 DEF Loose, Binding
<1>7. InPlace(y, {} \cup {x})
  BY <1>1, <1>3, <1>4, <1>6 DEF InPlace, Removes
<1>8. Deletes(<<x, y>>, {}, {} \cup {part})
  BY <1>3, <1>5, <1>7, TwoDelete
<1> QED BY <1>2, <1>8

LEMMA TablesDelete ==
  ASSUME config \in Setups
  PROVE  /\ Deletes(<<Sweep("tables", Tables)>>, {}, Tables)
         /\ Deletes(<<Sweep("balancers", {}), Await("balancer", {})>>, {}, {})
<1>1. Tables \subseteq Parts /\ "vpc" \notin Tables /\ Tables \cap Each(NAT) = {}
  BY Named
<1>2. PICK x \in DeletingSteps, y \in DeletingSteps, w \in DeletingSteps :
        x = Sweep("tables", Tables) /\ y = Sweep("balancers", {}) /\ w = Await("balancer", {})
  BY SweepingFacts
<1>3. /\ x.op = "sweep" /\ x.part = "tables" /\ x.records = Tables
      /\ y.op = "sweep" /\ y.records = {} /\ w.op = "await" /\ w.records = {}
  BY <1>2 DEF Sweep, Await, DeleteStep, Step
<1>4. \A z \in Zones : NAT[z] \notin Tables
  BY <1>1 DEF Each
<1>5. InPlace(x, {})
  BY <1>1, <1>3, <1>4 DEF InPlace, Removes
<1>6. InPlace(y, {}) /\ InPlace(w, {} \cup {y})
  BY <1>3 DEF InPlace
<1>7. Deletes(<<x>>, {}, Tables)
  BY <1>3, <1>5, OneDeletes
<1>8. Deletes(<<y, w>>, {}, {} \cup {})
  BY <1>3, <1>6, TwoDelete
<1> QED BY <1>2, <1>7, <1>8

LEMMA PartsDelete ==
  ASSUME config \in Setups, OwnVpc, Situated(work.rec), Kept = {}
  PROVE  /\ Deletes(deleteNodeGroups, {}, {"pool"}) /\ Deletes(deleteAddons, {}, {"addon"})
         /\ Deletes(deleteCluster, {}, {"cluster"})
         /\ \A part \in Groups : Deletes(deleteSecurityGroup(part), {}, {part})
         /\ \A part \in Roles : Deletes(deleteRole(part), {}, {part})
         /\ Deletes(deleteRouteTables, {}, Tables) /\ Deletes(deleteLoadBalancers, {}, {})
<1>1. \A part \in Parts : ~IsRecorded(part) <=> part \in NoPart(work.rec)
  BY DEF IsRecorded, NoPart
<1>2. {"pool", "addon", "cluster", "vpc"} \cup Groups \cup Roles \cup Tables \subseteq Parts
  BY Named
<1>3. \A parts \in SUBSET NoPart(work.rec) : Deletes(<<>>, {}, parts)
  BY NoneDeletes
<1>4. Deletes(deleteNodeGroups, {}, {"pool"})
  BY <1>1, <1>2, <1>3, PairDeletes DEF deleteNodeGroups, If
<1>5. Deletes(deleteAddons, {}, {"addon"})
  BY <1>1, <1>2, <1>3, AddonDeletes DEF deleteAddons, If
<1>6. Deletes(deleteCluster, {}, {"cluster"})
  BY <1>1, <1>2, <1>3, PairDeletes DEF deleteCluster, If
<1>7. \A part \in Groups : Deletes(deleteSecurityGroup(part), {}, {part})
  <2>1. ASSUME NEW part \in Groups PROVE Deletes(deleteSecurityGroup(part), {}, {part})
    BY <1>1, <1>2, <1>3, GroupDeletes DEF deleteSecurityGroup, If
  <2> QED BY <2>1
<1>8. \A part \in Roles : Deletes(deleteRole(part), {}, {part})
  <2>1. ASSUME NEW part \in Roles PROVE Deletes(deleteRole(part), {}, {part})
    BY <1>1, <1>2, <1>3, RoleDeletes DEF deleteRole, If
  <2> QED BY <2>1
<1>9. ~IsRecorded("vpc") => Tables \subseteq NoPart(work.rec)
  BY <1>2 DEF IsRecorded, Situated, InVpc, NoPart
<1>10. Deletes(deleteRouteTables, {}, Tables) /\ Deletes(deleteLoadBalancers, {}, {})
  <2>1. {} \subseteq NoPart(work.rec)
    OBVIOUS
  <2> QED BY <1>3, <1>9, <2>1, TablesDelete DEF deleteRouteTables, deleteLoadBalancers, If
<1> QED BY <1>4, <1>5, <1>6, <1>7, <1>8, <1>10

LEMMA GatewayDeletes ==
  ASSUME config \in Setups, Kept = {}, NEW z \in Zones
  PROVE  LET nat     == If(IsRecorded(NAT[z]), <<DeleteFirst(NAT[z], "waits")>>)
             address == If(IsRecorded(NAT[z]),
                           <<Await(NAT[z], {}), DeleteStep("delete", Eip[z], {}, "passes", "passes")>>)
         IN /\ Deletes(nat, {}, {}) /\ Deletes(address, {}, {})
            /\ IsRecorded(NAT[z]) => /\ \E x \in StepsOf(nat) : Removes(x, NAT[z])
                                     /\ \E x \in StepsOf(address) : Removes(x, Eip[z])
<1>1. /\ NAT[z] \in Parts /\ Eip[z] \in Parts /\ NAT[z] \in Each(NAT) /\ Eip[z] \in Each(Eip)
      /\ Eip[z] \notin Each(NAT) /\ NAT[z] # "igw" /\ Eip[z] # "igw"
  <2>1. NAT[z] \in Each(NAT) /\ Eip[z] \in Each(Eip)
    BY DEF Each
  <2> QED BY <2>1, Named
<1>2. PICK x \in DeletingSteps, y \in DeletingSteps, w \in DeletingSteps :
        /\ x = DeleteFirst(NAT[z], "waits") /\ y = Await(NAT[z], {})
        /\ w = DeleteStep("delete", Eip[z], {}, "passes", "passes")
  BY <1>1, DeletingFacts
<1>3. /\ x.op = "delete" /\ x.part = NAT[z] /\ x.records = {} /\ x.inUse = "waits"
      /\ y.op = "await" /\ y.part = NAT[z] /\ y.records = {}
      /\ w.op = "delete" /\ w.part = Eip[z] /\ w.records = {} /\ w.inUse = "passes"
  BY <1>2 DEF DeleteFirst, Await, DeleteStep, Step
<1>4. InPlace(x, {}) /\ InPlace(y, {})
  BY <1>3 DEF InPlace
<1>5. Loose(Eip[z], {} \cup {y})
  BY <1>3 DEF Loose
<1>6. InPlace(w, {} \cup {y})
  BY <1>3, <1>5 DEF InPlace
<1>7. Deletes(<<x>>, {}, {}) /\ StepsOf(<<x>>) = {x}
  BY <1>3, <1>4, OneDeletes
<1>8. Deletes(<<y, w>>, {}, {} \cup {}) /\ StepsOf(<<y, w>>) = {y, w}
  BY <1>3, <1>4, <1>6, TwoDelete
<1>9. Deletes(<<>>, {}, {})
  <2>1. {} \subseteq NoPart(work.rec)
    OBVIOUS
  <2> QED BY <2>1, NoneDeletes
<1>10. Removes(x, NAT[z]) /\ Removes(w, Eip[z])
  BY <1>3 DEF Removes
<1>11. /\ If(IsRecorded(NAT[z]), <<DeleteFirst(NAT[z], "waits")>>)
            = IF IsRecorded(NAT[z]) THEN <<x>> ELSE <<>>
       /\ If(IsRecorded(NAT[z]),
             <<Await(NAT[z], {}), DeleteStep("delete", Eip[z], {}, "passes", "passes")>>)
            = IF IsRecorded(NAT[z]) THEN <<y, w>> ELSE <<>>
  BY <1>2 DEF If
<1>12. CASE IsRecorded(NAT[z])
  BY <1>7, <1>8, <1>10, <1>11, <1>12
<1>13. CASE ~IsRecorded(NAT[z])
  BY <1>9, <1>11, <1>13
<1> QED BY <1>12, <1>13

LEMMA NatDeletes ==
  ASSUME config \in Setups, OwnSubnets, Kept = {}, Situated(work.rec)
  PROVE  Deletes(deleteNATGateways, {}, Each(NAT) \cup Each(Eip))
<1> DEFINE nat(z)     == If(IsRecorded(NAT[z]), <<DeleteFirst(NAT[z], "waits")>>)
           address(z) == If(IsRecorded(NAT[z]),
                            <<Await(NAT[z], {}), DeleteStep("delete", Eip[z], {}, "passes", "passes")>>)
<1>1. \A z \in Zones :
        /\ Deletes(nat(z), {}, {}) /\ Deletes(address(z), {}, {})
        /\ IsRecorded(NAT[z]) => /\ \E x \in StepsOf(nat(z)) : Removes(x, NAT[z])
                                 /\ \E x \in StepsOf(address(z)) : Removes(x, Eip[z])
  BY GatewayDeletes
<1>2. PICK n1, n2, a1, a2 : n1 = nat(1) /\ n2 = nat(2) /\ a1 = address(1) /\ a2 = address(2)
  OBVIOUS
<1>3. deleteNATGateways = If(OwnSubnets /\ ((n1 \o n2) \o a1) \o a2 # <<>>,
                             (((n1 \o n2) \o a1) \o a2) \o <<Clear(Each(NAT) \cup Each(Eip))>>)
  BY <1>2 DEF deleteNATGateways
<1>4. 1 \in Zones /\ 2 \in Zones /\ Zones = {1, 2}
  BY DEF Zones
<1>5. /\ Deletes(n1, {}, {}) /\ Deletes(n2, {}, {}) /\ Deletes(a1, {}, {}) /\ Deletes(a2, {}, {})
      /\ IsRecorded(NAT[1]) => /\ \E x \in StepsOf(n1) : Removes(x, NAT[1])
                               /\ \E x \in StepsOf(a1) : Removes(x, Eip[1])
      /\ IsRecorded(NAT[2]) => /\ \E x \in StepsOf(n2) : Removes(x, NAT[2])
                               /\ \E x \in StepsOf(a2) : Removes(x, Eip[2])
  BY <1>1, <1>2, <1>4
<1> HIDE DEF nat, address
<1>6. PICK s1, s2, all : s1 = n1 \o n2 /\ s2 = s1 \o a1 /\ all = s2 \o a2
  OBVIOUS
<1>7. Deletes(s1, {}, {} \cup {}) /\ StepsOf(s1) = StepsOf(n1) \cup StepsOf(n2)
  BY <1>5, <1>6, JoinDeletes
<1>8. Deletes(s1, {}, {})
  BY <1>7
<1>9. Deletes(s2, {}, {} \cup {}) /\ StepsOf(s2) = StepsOf(s1) \cup StepsOf(a1)
  BY <1>5, <1>6, <1>8, JoinDeletes
<1>10. Deletes(s2, {}, {})
  BY <1>9
<1>11. Deletes(all, {}, {} \cup {}) /\ StepsOf(all) = StepsOf(s2) \cup StepsOf(a2)
  BY <1>5, <1>6, <1>10, JoinDeletes
<1>12. Deletes(all, {}, {})
  BY <1>11
<1>13. \A z \in Zones : IsRecorded(NAT[z]) => /\ \E x \in StepsOf(all) : Removes(x, NAT[z])
                                              /\ \E x \in StepsOf(all) : Removes(x, Eip[z])
  BY <1>4, <1>5, <1>7, <1>9, <1>11
<1>14. /\ \A z \in Zones : NAT[z] \in Parts /\ Eip[z] \in Parts
       /\ \A part \in Each(NAT) \cup Each(Eip) : \E z \in Zones : part \in {NAT[z], Eip[z]}
       /\ \A z \in Zones : IsRecorded(Eip[z]) => IsRecorded(NAT[z])
       /\ Each(NAT) \cup Each(Eip) \subseteq Parts /\ "vpc" \notin Each(NAT) \cup Each(Eip)
       /\ \A z \in Zones : Eip[z] \in Each(Eip)
  <2>1. \A z \in Zones : IsRecorded(Eip[z]) => IsRecorded(NAT[z])
    BY DEF IsRecorded, Situated
  <2>2. /\ \A part \in Each(NAT) \cup Each(Eip) : \E z \in Zones : part \in {NAT[z], Eip[z]}
        /\ \A z \in Zones : Eip[z] \in Each(Eip)
    BY DEF Each
  <2> QED BY <2>1, <2>2, PartNames, Named
<1>15. CASE all = <<>>
  <2>1. StepsOf(all) = {}
    <3>1. 1..Len(<<>>) = {}
      OBVIOUS
    <3> QED BY <1>15, <3>1 DEF StepsOf
  <2>2. \A z \in Zones : ~IsRecorded(NAT[z]) /\ ~IsRecorded(Eip[z])
    BY <1>13, <1>14, <2>1
  <2>3. Each(NAT) \cup Each(Eip) \subseteq NoPart(work.rec)
    BY <1>14, <2>2 DEF IsRecorded, NoPart
  <2>4. deleteNATGateways = <<>>
    BY <1>3, <1>6, <1>15 DEF If
  <2> QED BY <2>3, <2>4, NoneDeletes
<1>16. CASE all # <<>>
  <2>1. PICK c \in DeletingSteps : c = Clear(Each(NAT) \cup Each(Eip))
    <3>1. Each(NAT) \cup Each(Eip) \in SUBSET Parts /\ "igw" \in Parts
      BY <1>14, Named
    <3> QED BY <3>1, DeletingFacts
  <2>2. c.op = "clear" /\ c.records = Each(NAT) \cup Each(Eip)
    BY <2>1 DEF Clear, DeleteStep, Step
  <2>3. PICK past : past = StepsOf(all)
    OBVIOUS
  <2>4. ASSUME NEW part \in Each(NAT) \cup Each(Eip), work.rec[part] \in Live
        PROVE  \E other \in past \cup {c} : Removes(other, part)
    <3>1. PICK z \in Zones : part \in {NAT[z], Eip[z]}
      BY <1>14
    <3>2. IsRecorded(part)
      BY <2>4, BoundsAssumption DEF IsRecorded, Live, Ids, None
    <3>3. IsRecorded(NAT[z])
      <4>1. CASE part = NAT[z]
        BY <3>2, <4>1
      <4>2. CASE part = Eip[z]
        <5>1. IsRecorded(Eip[z])
          BY <3>2, <4>2
        <5> QED BY <1>14, <5>1
      <4> QED BY <3>1, <4>1, <4>2
    <3>4. (\E x \in past : Removes(x, NAT[z])) /\ \E x \in past : Removes(x, Eip[z])
      BY <1>13, <2>3, <3>3
    <3> QED BY <3>1, <3>4
  <2>5. \A z \in Zones : Dismissed({Eip[z]}, past \cup {c})
    BY <1>14, <2>2 DEF Dismissed
  <2>6. InPlace(c, past)
    BY <1>14, <2>2, <2>4, <2>5 DEF InPlace
  <2>7. Deletes(<<c>>, past, c.records)
    BY <2>6, OneDeletes
  <2>8. PICK last : last = <<c>>
    OBVIOUS
  <2>9. Deletes(all \o last, {}, {} \cup c.records)
    BY <1>12, <2>3, <2>7, <2>8, JoinDeletes
  <2>10. deleteNATGateways = all \o last
    BY <1>3, <1>6, <1>16, <2>1, <2>8 DEF If
  <2> QED BY <2>2, <2>9, <2>10
<1> QED BY <1>15, <1>16

LEMMA SubnetsDelete ==
  ASSUME config \in Setups, OwnSubnets, Kept = {}, Situated(work.rec)
  PROVE  /\ Deletes(deleteSubnets, {}, Subnets) /\ Clear(Subnets) \in StepsOf(deleteSubnets)
<1> DEFINE subnet(part) == If(IsRecorded(part), <<DeleteFirst(part, "passes")>>)
<1>1. ASSUME NEW part \in Subnets
      PROVE  /\ Deletes(subnet(part), {}, {})
             /\ IsRecorded(part) => \E x \in StepsOf(subnet(part)) : Removes(x, part)
  <2>1. part \in Parts
    BY Named
  <2>2. PICK x \in DeletingSteps : x = DeleteFirst(part, "passes")
    BY <2>1, DeletingFacts
  <2>3. x.op = "delete" /\ x.part = part /\ x.records = {} /\ x.inUse = "waits"
    BY <2>2 DEF DeleteFirst, DeleteStep, Step
  <2>4. InPlace(x, {})
    BY <2>3 DEF InPlace
  <2>5. Deletes(<<x>>, {}, {}) /\ StepsOf(<<x>>) = {x} /\ Removes(x, part)
    BY <2>3, <2>4, OneDeletes DEF Removes
  <2>6. Deletes(<<>>, {}, {})
    <3>1. {} \subseteq NoPart(work.rec)
      OBVIOUS
    <3> QED BY <3>1, NoneDeletes
  <2> QED BY <2>2, <2>5, <2>6 DEF If
<1>2. PICK p1, p2, q1, q2 : /\ p1 = subnet("public1") /\ p2 = subnet("public2")
                            /\ q1 = subnet("private1") /\ q2 = subnet("private2")
  OBVIOUS
<1>3. deleteSubnets = (((p1 \o p2) \o q1) \o q2) \o <<Clear(Subnets)>>
  BY <1>2 DEF deleteSubnets, If
<1>4. /\ Deletes(p1, {}, {}) /\ Deletes(p2, {}, {}) /\ Deletes(q1, {}, {}) /\ Deletes(q2, {}, {})
      /\ IsRecorded("public1") => \E x \in StepsOf(p1) : Removes(x, "public1")
      /\ IsRecorded("public2") => \E x \in StepsOf(p2) : Removes(x, "public2")
      /\ IsRecorded("private1") => \E x \in StepsOf(q1) : Removes(x, "private1")
      /\ IsRecorded("private2") => \E x \in StepsOf(q2) : Removes(x, "private2")
  BY <1>1, <1>2, Named
<1> HIDE DEF subnet
<1>5. PICK s1, s2, all : s1 = p1 \o p2 /\ s2 = s1 \o q1 /\ all = s2 \o q2
  OBVIOUS
<1>6. Deletes(s1, {}, {} \cup {}) /\ StepsOf(s1) = StepsOf(p1) \cup StepsOf(p2)
  BY <1>4, <1>5, JoinDeletes
<1>7. Deletes(s1, {}, {})
  BY <1>6
<1>8. Deletes(s2, {}, {} \cup {}) /\ StepsOf(s2) = StepsOf(s1) \cup StepsOf(q1)
  BY <1>4, <1>5, <1>7, JoinDeletes
<1>9. Deletes(s2, {}, {})
  BY <1>8
<1>10. Deletes(all, {}, {} \cup {}) /\ StepsOf(all) = StepsOf(s2) \cup StepsOf(q2)
  BY <1>4, <1>5, <1>9, JoinDeletes
<1>11. Deletes(all, {}, {})
  BY <1>10
<1>12. PICK past : past = StepsOf(all)
  OBVIOUS
<1>13. \A part \in Subnets : IsRecorded(part) => \E x \in past : Removes(x, part)
  <2>1. /\ IsRecorded("public1") => \E x \in past : Removes(x, "public1")
        /\ IsRecorded("public2") => \E x \in past : Removes(x, "public2")
        /\ IsRecorded("private1") => \E x \in past : Removes(x, "private1")
        /\ IsRecorded("private2") => \E x \in past : Removes(x, "private2")
    BY <1>4, <1>6, <1>8, <1>10, <1>12
  <2> QED BY <2>1, Named
<1>14. PICK c \in DeletingSteps : c = Clear(Subnets)
  <2>1. Subnets \in SUBSET Parts /\ "igw" \in Parts
    BY Named
  <2> QED BY <2>1, DeletingFacts
<1>15. c.op = "clear" /\ c.records = Subnets
  BY <1>14 DEF Clear, DeleteStep, Step
<1>16. ASSUME NEW part \in Subnets, work.rec[part] \in Live
       PROVE  \E other \in past \cup {c} : Removes(other, part)
  <2>1. IsRecorded(part)
    BY <1>16, BoundsAssumption DEF IsRecorded, Live, Ids, None
  <2> QED BY <1>13, <2>1
<1>17. InPlace(c, past)
  <2>1. Subnets \cap Each(NAT) = {} /\ "vpc" \notin Subnets
    BY Named
  <2>2. \A z \in Zones : NAT[z] \notin Subnets
    BY <2>1 DEF Each
  <2> QED BY <1>15, <1>16, <2>1, <2>2 DEF InPlace
<1>18. Deletes(<<c>>, past, c.records) /\ StepsOf(<<c>>) = {c}
  BY <1>17, OneDeletes
<1>19. PICK last : last = <<c>>
  OBVIOUS
<1>20. Deletes(all \o last, {}, {} \cup c.records) /\ StepsOf(all \o last) = StepsOf(all) \cup StepsOf(last)
  BY <1>11, <1>12, <1>18, <1>19, JoinDeletes
<1>21. deleteSubnets = all \o last
  BY <1>3, <1>5, <1>14, <1>19
<1> QED BY <1>14, <1>15, <1>18, <1>19, <1>20, <1>21

LEMMA InternetDeletes ==
  ASSUME config \in Setups, OwnVpc, Kept = {}, Situated(work.rec),
         NEW before, NEW x \in before, x.records = Subnets
  PROVE  Deletes(deleteInternetGateway, before, {"igw"})
<1>1. /\ "igw" \in Parts /\ "vpc" \in Parts /\ "igw" \in InVpc /\ "igw" # "vpc"
      /\ "igw" \notin Each(NAT) /\ "igw" \notin Roles
  BY Named DEF InVpc
<1>2. CASE ~IsRecorded("igw")
  <2>1. {"igw"} \subseteq NoPart(work.rec)
    BY <1>1, <1>2 DEF IsRecorded, NoPart
  <2>2. deleteInternetGateway = <<>>
    BY <1>2 DEF deleteInternetGateway, If
  <2> QED BY <2>1, <2>2, NoneDeletes
<1>3. CASE IsRecorded("igw")
  <2>1. IsRecorded("vpc")
    BY <1>1, <1>3 DEF IsRecorded, Situated, NoPart
  <2>2. PICK y \in DeletingSteps, w \in DeletingSteps :
          y = Detach("igw", "attachment") /\ w = Delete("igw", "passes")
    BY <1>1, DeletingFacts
  <2>3. /\ y.op = "detach" /\ y.part = "igw" /\ y.records = {} /\ y.setting = "attachment"
        /\ w.op = "delete" /\ w.part = "igw" /\ w.records = {"igw"} /\ w.inUse = "passes"
    BY <2>2 DEF Detach, Delete, DeleteStep, Step
  <2>4. Dismissed(Subnets, before)
    BY DEF Dismissed
  <2>5. InPlace(y, before)
    BY <2>3, <2>4 DEF InPlace
  <2>6. Loose("igw", before \cup {y})
    BY <2>3 DEF Loose, Binding
  <2>7. \A z \in Zones : NAT[z] # "igw"
    BY <1>1 DEF Each
  <2>8. InPlace(w, before \cup {y})
    BY <1>1, <2>3, <2>6, <2>7 DEF InPlace, Removes
  <2>9. PICK s, t : s = <<y>> /\ t = <<w>>
    OBVIOUS
  <2>10. Deletes(s, before, {}) /\ StepsOf(s) = {y}
    BY <2>3, <2>5, <2>9, OneDeletes
  <2>11. Deletes(t, before \cup {y}, {"igw"})
    BY <2>3, <2>8, <2>9, OneDeletes
  <2>12. Deletes(s \o t, before, {} \cup {"igw"})
    BY <2>10, <2>11, JoinDeletes
  <2>13. deleteInternetGateway = s \o t
    BY <1>3, <2>1, <2>2, <2>9 DEF deleteInternetGateway, If
  <2> QED BY <2>12, <2>13
<1> QED BY <1>2, <1>3

LEMMA VpcDeletes ==
  ASSUME config \in Setups, OwnVpc, Kept = {}, NEW before, Dismissed(InVpc, before)
  PROVE  Deletes(deleteVPC, before, {"vpc"})
<1>1. "vpc" \in Parts /\ "vpc" \notin Each(NAT) /\ "vpc" # "igw"
  BY Named
<1>2. CASE ~IsRecorded("vpc")
  <2>1. {"vpc"} \subseteq NoPart(work.rec)
    BY <1>1, <1>2 DEF IsRecorded, NoPart
  <2> QED BY <1>2, <2>1, NoneDeletes DEF deleteVPC, If
<1>3. CASE IsRecorded("vpc")
  <2>1. PICK x \in DeletingSteps : x = Delete("vpc", "waits")
    BY <1>1, DeletingFacts
  <2>2. x.op = "delete" /\ x.part = "vpc" /\ x.records = {"vpc"} /\ x.inUse = "waits"
    BY <2>1 DEF Delete, DeleteStep, Step
  <2>3. \A z \in Zones : NAT[z] # "vpc"
    BY <1>1 DEF Each
  <2>4. InPlace(x, before)
    BY <1>1, <2>2, <2>3 DEF InPlace, Removes
  <2> QED BY <1>3, <2>1, <2>2, <2>4, OneDeletes DEF deleteVPC, If
<1> QED BY <1>2, <1>3

(* What comes before takes parts out, after which something else follows.  *)
LEMMA AndThen ==
  ASSUME NEW a, NEW b, NEW s, NEW parts, NEW others,
         Deletes(a, {}, parts), Deletes(b, {}, others), s = a \o b
  PROVE  Deletes(s, {}, parts \cup others) /\ StepsOf(s) = StepsOf(a) \cup StepsOf(b)
BY JoinDeletes

LEMMA FirstDeletes ==
  ASSUME config \in Setups, OwnVpc, OwnSubnets, Kept = {}, Situated(work.rec)
  PROVE  LET s == deleteNodeGroups \o deleteAddons \o deleteCluster
                  \o deleteSecurityGroup("nodeSG") \o deleteSecurityGroup("clusterSG")
                  \o deleteRouteTables \o deleteNATGateways \o deleteLoadBalancers
                  \o deleteSubnets
         IN /\ Deletes(s, {}, {"pool", "addon", "cluster"} \cup Groups \cup Tables
                              \cup Each(NAT) \cup Each(Eip) \cup Subnets)
            /\ Clear(Subnets) \in StepsOf(s)
<1>1. PICK a1, a2, a3, a4, a5, a6, a7, a8, a9 :
        /\ a1 = deleteNodeGroups /\ a2 = deleteAddons /\ a3 = deleteCluster
        /\ a4 = deleteSecurityGroup("nodeSG") /\ a5 = deleteSecurityGroup("clusterSG")
        /\ a6 = deleteRouteTables /\ a7 = deleteNATGateways /\ a8 = deleteLoadBalancers
        /\ a9 = deleteSubnets
  OBVIOUS
<1>2. "nodeSG" \in Groups /\ "clusterSG" \in Groups /\ Groups = {"nodeSG", "clusterSG"}
  BY DEF Groups
<1>3. /\ Deletes(a1, {}, {"pool"}) /\ Deletes(a2, {}, {"addon"}) /\ Deletes(a3, {}, {"cluster"})
      /\ Deletes(a4, {}, {"nodeSG"}) /\ Deletes(a5, {}, {"clusterSG"})
      /\ Deletes(a6, {}, Tables) /\ Deletes(a8, {}, {})
  BY <1>1, <1>2, PartsDelete
<1>4. Deletes(a7, {}, Each(NAT) \cup Each(Eip))
  BY <1>1, NatDeletes
<1>5. Deletes(a9, {}, Subnets) /\ Clear(Subnets) \in StepsOf(a9)
  BY <1>1, SubnetsDelete
<1>6. PICK b1, b2, b3, b4, b5, b6, b7, b8 :
        /\ b1 = a1 \o a2 /\ b2 = b1 \o a3 /\ b3 = b2 \o a4 /\ b4 = b3 \o a5
        /\ b5 = b4 \o a6 /\ b6 = b5 \o a7 /\ b7 = b6 \o a8 /\ b8 = b7 \o a9
  OBVIOUS
<1>7. PICK p1, p2, p3, p4, p5, p6, p7, p8 :
        /\ p1 = {"pool"} \cup {"addon"} /\ p2 = p1 \cup {"cluster"} /\ p3 = p2 \cup {"nodeSG"}
        /\ p4 = p3 \cup {"clusterSG"} /\ p5 = p4 \cup Tables
        /\ p6 = p5 \cup (Each(NAT) \cup Each(Eip)) /\ p7 = p6 \cup {} /\ p8 = p7 \cup Subnets
  OBVIOUS
<1>8. Deletes(b1, {}, p1)
  <2>1. Deletes(a1, {}, {"pool"}) /\ Deletes(a2, {}, {"addon"}) /\ b1 = a1 \o a2
    BY <1>3, <1>6
  <2>2. Deletes(b1, {}, {"pool"} \cup {"addon"})
    BY <2>1, AndThen
  <2> QED BY <1>7, <2>2
<1>9. Deletes(b2, {}, p2)
  <2>1. Deletes(b1, {}, p1) /\ Deletes(a3, {}, {"cluster"}) /\ b2 = b1 \o a3
    BY <1>3, <1>6, <1>8
  <2>2. Deletes(b2, {}, p1 \cup {"cluster"})
    BY <2>1, AndThen
  <2> QED BY <1>7, <2>2
<1>10. Deletes(b3, {}, p3)
  <2>1. Deletes(b2, {}, p2) /\ Deletes(a4, {}, {"nodeSG"}) /\ b3 = b2 \o a4
    BY <1>3, <1>6, <1>9
  <2>2. Deletes(b3, {}, p2 \cup {"nodeSG"})
    BY <2>1, AndThen
  <2> QED BY <1>7, <2>2
<1>11. Deletes(b4, {}, p4)
  <2>1. Deletes(b3, {}, p3) /\ Deletes(a5, {}, {"clusterSG"}) /\ b4 = b3 \o a5
    BY <1>3, <1>6, <1>10
  <2>2. Deletes(b4, {}, p3 \cup {"clusterSG"})
    BY <2>1, AndThen
  <2> QED BY <1>7, <2>2
<1>12. Deletes(b5, {}, p5)
  <2>1. Deletes(b4, {}, p4) /\ Deletes(a6, {}, Tables) /\ b5 = b4 \o a6
    BY <1>3, <1>6, <1>11
  <2>2. Deletes(b5, {}, p4 \cup Tables)
    BY <2>1, AndThen
  <2> QED BY <1>7, <2>2
<1>13. Deletes(b6, {}, p6)
  <2>1. Deletes(b5, {}, p5) /\ Deletes(a7, {}, (Each(NAT) \cup Each(Eip))) /\ b6 = b5 \o a7
    BY <1>4, <1>6, <1>12
  <2>2. Deletes(b6, {}, p5 \cup (Each(NAT) \cup Each(Eip)))
    BY <2>1, AndThen
  <2> QED BY <1>7, <2>2
<1>14. Deletes(b7, {}, p7)
  <2>1. Deletes(b6, {}, p6) /\ Deletes(a8, {}, {}) /\ b7 = b6 \o a8
    BY <1>3, <1>6, <1>13
  <2>2. Deletes(b7, {}, p6 \cup {})
    BY <2>1, AndThen
  <2> QED BY <1>7, <2>2
<1>15. Deletes(b8, {}, p8) /\ Clear(Subnets) \in StepsOf(b8)
  <2>1. Deletes(b7, {}, p7) /\ Deletes(a9, {}, Subnets) /\ b8 = b7 \o a9
    BY <1>5, <1>6, <1>14
  <2>2. Deletes(b8, {}, p7 \cup Subnets) /\ StepsOf(b8) = StepsOf(b7) \cup StepsOf(a9)
    BY <2>1, AndThen
  <2> QED BY <1>5, <1>7, <2>2
<1>16. p8 = {"pool", "addon", "cluster"} \cup Groups \cup Tables
            \cup Each(NAT) \cup Each(Eip) \cup Subnets
  BY <1>2, <1>7
<1> QED BY <1>1, <1>6, <1>15, <1>16

LEMMA SetupClears ==
  ASSUME config \in Setups, OwnVpc, OwnSubnets, Kept = {}, Situated(work.rec),
         config.policy # "Retain"
  PROVE  deleteSetup \in Seq(DeletingSteps) /\ Clearing(deleteSetup)
<1>1. PICK a, b, c, d, e :
        /\ a = deleteNodeGroups \o deleteAddons \o deleteCluster
               \o deleteSecurityGroup("nodeSG") \o deleteSecurityGroup("clusterSG")
               \o deleteRouteTables \o deleteNATGateways \o deleteLoadBalancers
               \o deleteSubnets
        /\ b = deleteInternetGateway /\ c = deleteVPC
        /\ d = deleteRole("nodeRole") /\ e = deleteRole("clusterRole")
  OBVIOUS
<1>2. PICK s1, s2, s3, s4 : s1 = a \o b /\ s2 = s1 \o c /\ s3 = s2 \o d /\ s4 = s3 \o e
  OBVIOUS
<1>3. PICK pa, p1, p2, p3, p4 :
        /\ pa = {"pool", "addon", "cluster"} \cup Groups \cup Tables
                \cup Each(NAT) \cup Each(Eip) \cup Subnets
        /\ p1 = pa \cup {"igw"} /\ p2 = p1 \cup {"vpc"}
        /\ p3 = p2 \cup {"nodeRole"} /\ p4 = p3 \cup {"clusterRole"}
  OBVIOUS
<1>4. "nodeRole" \in Roles /\ "clusterRole" \in Roles
  BY DEF Roles
<1>5. Deletes(a, {}, pa) /\ Clear(Subnets) \in StepsOf(a)
  BY <1>1, <1>3, FirstDeletes
<1>6. Deletes(b, StepsOf(a), {"igw"})
  <2>1. PICK x \in StepsOf(a) : x = Clear(Subnets)
    BY <1>5
  <2>2. x.records = Subnets
    BY <2>1 DEF Clear, DeleteStep, Step
  <2>3. PICK before : before = StepsOf(a) /\ x \in before
    OBVIOUS
  <2>4. Deletes(deleteInternetGateway, before, {"igw"})
    BY <2>2, <2>3, InternetDeletes
  <2> QED BY <1>1, <2>3, <2>4
<1>7. Deletes(s1, {}, p1)
  <2>1. StepsOf(a) \subseteq {} \cup StepsOf(a)
    OBVIOUS
  <2> QED BY <1>2, <1>3, <1>5, <1>6, <2>1, JoinDeletes
<1>8. Deletes(c, StepsOf(s1), {"vpc"})
  <2>1. PICK before : before = StepsOf(s1)
    OBVIOUS
  <2>2. InVpc \subseteq p1
    BY <1>3 DEF InVpc
  <2>3. \A part \in InVpc \ NoPart(work.rec) : part \in Coming(s1)
    BY <1>7, <2>2 DEF Deletes
  <2>4. Dismissed(InVpc, before)
    BY <2>1, <2>3, ComingIs DEF Dismissed
  <2> QED BY <1>1, <2>1, <2>4, VpcDeletes
<1>9. Deletes(s2, {}, p2)
  <2>1. StepsOf(s1) \subseteq {} \cup StepsOf(s1)
    OBVIOUS
  <2> QED BY <1>2, <1>3, <1>7, <1>8, <2>1, JoinDeletes
<1>10. Deletes(d, {}, {"nodeRole"}) /\ Deletes(e, {}, {"clusterRole"})
  BY <1>1, <1>4, PartsDelete
<1>11. Deletes(s3, {}, p3)
  <2>1. Deletes(s2, {}, p2) /\ Deletes(d, {}, {"nodeRole"}) /\ s3 = s2 \o d
    BY <1>2, <1>9, <1>10
  <2>2. Deletes(s3, {}, p2 \cup {"nodeRole"})
    BY <2>1, AndThen
  <2> QED BY <1>3, <2>2
<1>12. Deletes(s4, {}, p4)
  <2>1. Deletes(s3, {}, p3) /\ Deletes(e, {}, {"clusterRole"}) /\ s4 = s3 \o e
    BY <1>2, <1>10, <1>11
  <2>2. Deletes(s4, {}, p3 \cup {"clusterRole"})
    BY <2>1, AndThen
  <2> QED BY <1>3, <2>2
<1>13. deleteSetup = s4
  BY <1>1, <1>2 DEF deleteSetup, If
<1>14. Parts \subseteq p4
  <2>1. Parts \subseteq {"pool", "addon", "cluster", "igw", "vpc"} \cup Groups \cup Tables \cup Roles
                        \cup Each(NAT) \cup Each(Eip) \cup Subnets
    BY Named
  <2>2. Roles = {"nodeRole", "clusterRole"}
    BY DEF Roles
  <2> QED BY <1>3, <2>1, <2>2
<1>15. s4 \in Seq(DeletingSteps) /\ Parts \ NoPart(work.rec) \subseteq Coming(s4)
  BY <1>12, <1>14 DEF Deletes, InPlaces
<1>16. \A k \in 1..Len(s4) : InPlace(s4[k], {s4[j] : j \in 1..(k - 1)})
  BY <1>12 DEF Deletes, InPlaces
<1> QED BY <1>13, <1>15, <1>16 DEF Clearing

-----------------------------------------------------------------------------
(* The steps together.                                                     *)
LEMMA DeletingBegins ==
  ASSUME Watched, work.deleting, BeginPhase
  PROVE  Mindful'
<1>1. /\ pc = "phase" /\ pc' = "run" /\ UNCHANGED <<work, made, cloud, faults, object, workFresh>>
  BY DEF BeginPhase, Keeping, kube
<1>2. /\ Mindful /\ Departing /\ Situated(work.rec) /\ config \in Setups
      /\ OwnVpc /\ OwnSubnets /\ Kept = {} /\ config.policy # "Retain"
      /\ work.phase = "Deleting" /\ object.phase = "Deleting" /\ IInv
  BY <1>1, RecordsKnown, MindedFacts DEF Watched, Mindful, Departing
<1>3. PICK s \in Seq(DeletingSteps) : s = deleteSetup /\ Clearing(s)
  BY <1>2, SetupClears
<1>4. todo' = s
  <2>1. work.phase = "Deleting" /\ work.phase \notin Creating
    BY <1>2 DEF Creating
  <2>2. todo' = deleteSetup
    BY <2>1, Zenon DEF BeginPhase
  <2> QED BY <1>3, <2>2
<1>5. Wanes
  BY <1>1 DEF Wanes, Live, Described
<1>6. Clearing(s)'
  BY <1>1, <1>3, <1>5, ClearingStays
<1>7. Clearing(todo)'
  BY <1>4, <1>6 DEF Clearing
<1>8. Departing'
  BY <1>1, <1>2, <1>7, DepartsStill
<1> QED BY <1>1, <1>2, <1>8, LocalMindful

LEMMA InitMinds == Init => FInv
<1> SUFFICES ASSUME Init, OwnVpc PROVE Mindful
  BY DEF FInv, Minded
<1>1. config.existing = "nothing" /\ object = Created /\ pc = "idle"
  BY DEF OwnVpc, Init
<1>2. object.rec = NoRecord /\ object.phase = ""
  BY <1>1 DEF Created, Object
<1>3. Foreign = {}
  BY <1>1 DEF Foreign, ForeignPart, ForeignParts
<1>4. \A i \in Ids : cloud[i] = Nothing
  BY <1>3 DEF Init
<1>5. Nothing.state = "none" /\ Nothing.address = None /\ Nothing.part = ""
  BY DEF Nothing, Resource
<1>6. \A i \in Ids : cloud[i].state = "none" /\ cloud[i].address = None
  BY <1>4, <1>5
<1>7. \A part \in Parts : object.rec[part] = None
  BY <1>2 DEF NoRecord
<1>8. Titled(object.rec)
  BY <1>7 DEF Titled, NoPart
<1>9. Situated(object.rec)
  <2>1. InVpc \ NoPart(object.rec) = {} /\ "vpc" \in Parts /\ \A z \in Zones : Eip[z] \in Parts
    <3>1. InVpc \subseteq Parts /\ "vpc" \in Parts
      BY Named DEF InVpc
    <3>2. \A z \in Zones : Eip[z] \in Parts
      BY PartNames
    <3> QED BY <1>7, <3>1, <3>2 DEF NoPart
  <2> QED BY <1>7, <1>8, <2>1 DEF Situated
<1>10. Standing
  <2>1. Of(Hanging) = {}
    BY <1>6 DEF Of, Described, Live
  <2>2. Rank("") = 0 /\ Rank("CreatingVPC") = 2 /\ Rank("CreatingSubnets") = 5
    BY RankOf
  <2>3. ~(Rank(object.phase) > Rank("CreatingVPC")) /\ ~(Rank(object.phase) > Rank("CreatingSubnets"))
    <3>1. Rank(object.phase) = Rank("")
      BY <1>2, Zenon
    <3>2. PICK n, a, b : /\ n = Rank(object.phase) /\ n = Rank("")
                         /\ a = Rank("CreatingVPC") /\ b = Rank("CreatingSubnets")
      BY <3>1
    <3>3. n = 0 /\ a = 2 /\ b = 5
      BY <2>2, <3>2
    <3>4. ~(n > a) /\ ~(n > b)
      BY <3>3
    <3> QED BY <3>2, <3>4
  <2> QED BY <1>6, <2>1, <2>3 DEF Standing
<1> QED BY <1>1, <1>2, <1>6, <1>8, <1>9, <1>10 DEF Mindful

LEMMA NextMinds ==
  ASSUME Watched, [Next]_vars
  PROVE  Mindful'
<1>1. ~Fault
  BY DEF Watched
<1>2. CASE Script
  BY <1>2, MakingMinds, DeletingMinds
<1>3. CASE Reconcile /\ ~Script
  <2>1. ~CheckFails /\ ~WriteFails
    BY <1>1 DEF CheckFails, WriteFails
  <2> QED BY <1>3, <2>1, ReadMinds, FinalizerMinds, MakingBegins, DeletingBegins, EndMinds,
             WriteMinds, ReleaseMinds DEF Reconcile
<1>4. CASE Environment
  <2>1. ~Crash /\ \A i \in Ids : ~FailToStart(i)
    BY <1>1 DEF Crash, FailToStart
  <2> QED BY <1>4, <2>1, SyncMinds, RequestMinds, CloudStepMinds, ExposeMinds DEF Environment
<1>5. CASE UNCHANGED vars
  <2>1. UNCHANGED <<object, pc, work, workFresh, todo, made, cloud>> /\ Mindful
    BY <1>5 DEF vars, kube, local, Watched
  <2> QED BY <2>1, StillMindful
<1> QED BY <1>2, <1>3, <1>4, <1>5 DEF Next

LEMMA NextKeepsSight == IInv /\ IInv' /\ RInv /\ RInv' /\ FInv /\ [Next]_vars => FInv'
<1> SUFFICES ASSUME IInv, IInv', RInv, RInv', FInv, [Next]_vars, Minded' PROVE Mindful'
  BY DEF FInv
<1>1. Minded /\ ~Fault /\ UNCHANGED <<config, faults>>
  BY MindedBefore
<1>2. Watched
  BY <1>1 DEF Watched, FInv
<1> QED BY <1>2, NextMinds

(* As long as nothing goes wrong, what lives is in sight, in the status or *)
(* in the hands of the Reconcile.                                          *)
THEOREM InSight == Spec => []FInv
<1>1. Init => FInv
  BY InitMinds
<1>2. IInv /\ IInv' /\ RInv /\ RInv' /\ FInv /\ [Next]_vars => FInv'
  BY NextKeepsSight
<1> QED BY <1>1, <1>2, Invariant, SureUnlessAsked, PTL DEF Spec

(* The deletion takes nothing out of the status that lives on, if nothing  *)
(* goes wrong: it waits for what is in use.                                *)
THEOREM NothingLeftBehind == Spec => NothingForgotten
<1> DEFINE Kindly == faults = 0 /\ OwnVpc /\ config.policy = "Delete" =>
                       (Recorded \ Recorded') \cap Live' = {}
<1>1. IInv /\ FInv /\ [Next]_vars => [Kindly]_vars
  <2> SUFFICES ASSUME IInv, FInv, [Next]_vars, faults = 0, OwnVpc, config.policy = "Delete"
               PROVE  (Recorded \ Recorded') \cap Live' = {}
    OBVIOUS
  <2>1. None \notin Live'
    BY RecordsKnown DEF Live
  <2>2. object.exists => Mindful
    BY DEF FInv, Minded
  <2>3. ASSUME UNCHANGED object.rec
        PROVE  Recorded \ Recorded' = {}
    BY <2>3 DEF Recorded, RecordOf
  <2>4. CASE UNCHANGED object
    BY <2>3, <2>4
  <2>5. CASE AddFinalizer
    <3>1. UNCHANGED object.rec
      BY <2>5, RecordsKnown DEF AddFinalizer, ObjectType
    <3> QED BY <2>3, <3>1
  <2>6. CASE RequestDelete
    <3>1. CASE object.finalizer
      <4>1. UNCHANGED object.rec
        BY <2>6, <3>1, RecordsKnown DEF RequestDelete, ObjectType
      <4> QED BY <2>3, <4>1
    <3>2. CASE ~object.finalizer
      <4>1. object.rec = NoRecord
        BY <2>2, <2>6, <3>2 DEF RequestDelete, Mindful
      <4>2. Recorded = {}
        BY <4>1 DEF Recorded, RecordOf, NoRecord
      <4> QED BY <4>2
    <3> QED BY <3>1, <3>2
  <2>7. CASE (WriteStatus \/ RemoveFinalizer) /\ workFresh
    <3>1. object.exists /\ UNCHANGED cloud /\ pc \in {"status", "release"}
      BY <2>7 DEF IInv, Copies, WriteStatus, RemoveFinalizer, WritesBack
    <3>2. Mindful /\ InStep /\ (pc = "release" => work.rec = NoRecord)
      BY <2>2, <2>7, <3>1 DEF Mindful, Departing, Arriving
    <3>3. Live' = Live
      BY <3>1 DEF Live
    <3>4. ASSUME NEW part \in Parts, object.rec[part] \in Live
          PROVE  object.rec[part] \in Recorded'
      <4>1. work.rec[part] = object.rec[part] /\ object.rec[part] # None
        BY <2>1, <3>2, <3>3, <3>4 DEF InStep
      <4>2. pc # "release"
        BY <3>2, <4>1 DEF NoRecord
      <4>3. object' = work
        BY <2>7, <4>2 DEF WriteStatus, RemoveFinalizer, WritesBack
      <4> QED BY <4>1, <4>3 DEF Recorded, RecordOf
    <3> QED BY <3>3, <3>4 DEF Recorded, RecordOf
  <2>8. CASE (WriteStatus \/ RemoveFinalizer) /\ ~workFresh
    <3>1. UNCHANGED object
      BY <2>8 DEF WriteStatus, RemoveFinalizer, WritesBack
    <3> QED BY <2>4, <3>1
  <2> QED BY <2>4, <2>5, <2>6, <2>7, <2>8, ObjectSteps
<1>2. [][Kindly]_vars <=> NothingForgotten
  BY DEF NothingForgotten
<1> HIDE DEF Kindly
<1> QED BY <1>1, <1>2, Invariant, InSight, PTL DEF Spec

=============================================================================
