------------------------ MODULE ResourcePromiseProofs ------------------------
(* That the resource controllers implement Lifecycle: whatever goes wrong, *)
(* and for every catalogue whose kinds know their resources apart, a       *)
(* resource that lives and is recorded is not let go of, unless the policy *)
(* is to keep it, or the kind is one that takes errors for answers.  And   *)
(* that, as long as nothing goes wrong, nothing is forgotten and nothing   *)
(* is made twice, and that what is ready is complete whatever goes wrong.  *)
EXTENDS ResourceControllerProofs

-----------------------------------------------------------------------------
(* What becomes of the resources.                                          *)

LEMMA Numbers == None \notin Ids /\ Unused \subseteq Ids /\ Live \subseteq Ids /\ Twins \subseteq Ids
BY BoundsAssumption DEF None, Ids, Unused, Live, Twins

(* What lives has a name.                                                  *)
LEMMA LivingAreTwins == Live \subseteq Twins /\ Live \cap Unused = {} /\ Twins \cap Unused = {}
BY DEF Live, Alive, Twins, Unused

(* One resource changes: it is not born again after its end.               *)
Ages(i, new) ==
  /\ cloud' = [cloud EXCEPT ![i] = new]
  /\ cloud[i].state # "none" /\ new.state # "none"
  /\ new.spare = cloud[i].spare
  /\ new.state \in {"pending", "available"} => Alive(i)
  /\ new.state = "deleting" => cloud[i].state \in {"pending", "available", "deleting"}

(* Or one is made.                                                         *)
Born(i, new) == cloud' = [cloud EXCEPT ![i] = new] /\ cloud[i].state = "none"

Changes == \E i \in Ids : \E new : Ages(i, new)

LEMMA ScriptChanges ==
  ASSUME IInv, Script
  PROVE  UNCHANGED cloud \/ Changes \/ CreateResource \/ AllocateSpare
<1>1. CloudOK
  BY DEF IInv, TypeOK
<1>2. CASE Configure \/ TakeAway
  <2>1. PICK i \in Live : \E parts :
          cloud' = [cloud EXCEPT ![i] = [cloud[i] EXCEPT !.parts = parts]]
    BY <1>2 DEF Configure, TakeAway
  <2>2. PICK parts : cloud' = [cloud EXCEPT ![i] = [cloud[i] EXCEPT !.parts = parts]]
    BY <2>1
  <2>3. Ages(i, [cloud[i] EXCEPT !.parts = parts])
    BY <1>1, <2>2 DEF Ages, Live, Alive, CloudOK
  <2> QED BY <2>3 DEF Changes, Live
<1>3. CASE Delete /\ ~UNCHANGED cloud
  <2>1. PICK i \in Live, st \in {"deleting", "gone"} :
          cloud' = [cloud EXCEPT ![i] = [cloud[i] EXCEPT !.state = st]]
    BY <1>3 DEF Delete, Removable
  <2>2. Ages(i, [cloud[i] EXCEPT !.state = st])
    BY <1>1, <2>1 DEF Ages, Live, Alive, CloudOK
  <2> QED BY <2>2 DEF Changes, Live
<1> QED
  BY <1>2, <1>3
  DEF Script, CreateRefused, AllocateRefused, ConfigureRefused, NothingToMend, TakeAwayRefused,
     LookUp, LookUpRefused, PlainCall, DeleteRefused, NotImplemented, CallFails, Refused

LEMMA CloudChanges ==
  ASSUME IInv, Next
  PROVE  UNCHANGED cloud \/ Changes \/ CreateResource \/ AllocateSpare
<1>1. Reconcile => UNCHANGED cloud \/ Script
  BY DEF Reconcile, ProviderNotUsable, BeginSync, BeginDeletion, ReadObject, AddFinalizer,
     SyncWithoutSecret, SyncInvalid, SyncFinds, SyncCannotFind,
     SyncAsksInVain, SyncSearches, DeleteFinds, DeleteCannotFind,
     WriteStatus, ReportFailure, RemoveFinalizer, WritesBack, WriteFails
<1>2. CASE \E i \in Ids : CloudStep(i) \/ Perish(i)
  <2>1. PICK i \in Ids, st \in {"available", "gone"} :
          /\ cloud' = [cloud EXCEPT ![i] = [cloud[i] EXCEPT !.state = st]]
          /\ cloud[i].state \in {"pending", "available", "deleting"}
          /\ st = "available" => cloud[i].state = "pending"
    BY <1>2 DEF CloudStep, Perish, Alive
  <2>2. Ages(i, [cloud[i] EXCEPT !.state = st])
    BY <2>1 DEF Ages, Alive, IInv, TypeOK, CloudOK
  <2> QED BY <2>2 DEF Changes
<1>3. Environment => UNCHANGED cloud \/ \E i \in Ids : CloudStep(i) \/ Perish(i)
  BY DEF Environment, Crash, SyncCache, RequestDelete, CheckProvider, DeleteProvider,
     LoseCredentials, LoseSecret, Repair
<1> QED BY <1>1, <1>2, <1>3, ScriptChanges DEF Next

(* What all this means for those that live, and for those that are unused. *)
Ageing ==
  /\ Unused' \subseteq Unused
  /\ Live' \subseteq Live \cup Unused
  /\ Live \subseteq Live' \/ Live' \subseteq Live

LEMMA BirthFacts ==
  ASSUME IInv, CreateResource \/ AllocateSpare
  PROVE  UNCHANGED cloud \/ \E i \in Unused : \E new : Born(i, new) /\ new.state # "none"
<1>1. CASE CreateResource /\ ~UNCHANGED cloud
  <2>1. PICK i \in Fresh : cloud' = [cloud EXCEPT ![i] = Resource(Initially, Parts, FALSE)]
    BY <1>1 DEF CreateResource
  <2>2. Resource(Initially, Parts, FALSE).state # "none"
    BY InitialStates DEF Resource
  <2>3. i \in Unused /\ Born(i, Resource(Initially, Parts, FALSE))
    BY <2>1 DEF Born, Fresh, Unused
  <2> QED BY <2>2, <2>3
<1>2. CASE AllocateSpare
  BY <1>2 DEF AllocateSpare, Born, Fresh, Unused, Resource
<1> QED BY <1>1, <1>2

LEMMA AllAge ==
  ASSUME IInv, Next
  PROVE  Ageing
<1>1. CASE UNCHANGED cloud
  BY <1>1 DEF Ageing, Unused, Live, Alive
<1>2. CASE Changes
  <2>1. PICK i \in Ids : \E new : Ages(i, new)
    BY <1>2 DEF Changes
  <2>2. PICK new : Ages(i, new)
    BY <2>1
  <2>3. /\ cloud'[i] = new /\ \A j \in Ids \ {i} : cloud'[j] = cloud[j]
        /\ cloud[i].state # "none" /\ new.state # "none" /\ new.spare = cloud[i].spare
        /\ new.state \in {"pending", "available"} => Alive(i)
    BY <2>2 DEF Ages, IInv, TypeOK, CloudOK
  <2>4. Unused' \subseteq Unused
    BY <2>3 DEF Unused
  <2>5. Live' \subseteq Live
    BY <2>3 DEF Live, Alive
  <2> QED BY <2>4, <2>5 DEF Ageing
<1>3. CASE \E i \in Unused : \E new : Born(i, new) /\ new.state # "none"
  <2>1. PICK i \in Unused : \E new : Born(i, new) /\ new.state # "none"
    BY <1>3
  <2>2. PICK new : Born(i, new) /\ new.state # "none"
    BY <2>1
  <2>3. i \in Ids /\ cloud'[i] = new /\ \A j \in Ids \ {i} : cloud'[j] = cloud[j]
    BY <2>2 DEF Born, Unused, IInv, TypeOK, CloudOK
  <2>4. Unused' \subseteq Unused
    BY <2>2, <2>3 DEF Unused
  <2>5. Live \subseteq Live' /\ Live' \subseteq Live \cup Unused
    BY <2>2, <2>3 DEF Live, Alive, Unused
  <2> QED BY <2>4, <2>5 DEF Ageing
<1> QED BY <1>1, <1>2, <1>3, CloudChanges, BirthFacts

-----------------------------------------------------------------------------
(* The invariant, but for IInv.                                            *)
Rest == Recording /\ Attending /\ OneOfAName /\ SyncsTheSame /\ DeletesTheSame

LEMMA Constancy ==
  ASSUME config' = config
  PROVE  /\ Ours' = Ours /\ Theirs' = Theirs /\ Program' = Program
         /\ Keeps' = Keeps /\ Forgetful' = Forgetful /\ Kept' = Kept
BY DEF Ours, Theirs, Program, Keeps, Forgetful, Kept

LEMMA SpecStays == Next => config' = config
BY DEF Next, Reconcile, ProviderNotUsable, BeginSync, BeginDeletion, ReadObject, AddFinalizer,
   SyncWithoutSecret, SyncInvalid, SyncFinds, SyncCannotFind,
     SyncAsksInVain, SyncSearches, DeleteFinds, DeleteCannotFind,
   WriteStatus, ReportFailure, RemoveFinalizer, WritesBack, WriteFails,
   Script, CreateResource, CreateRefused, AllocateSpare, AllocateRefused, Configure,
   ConfigureRefused, NothingToMend, TakeAway, TakeAwayRefused, LookUp, LookUpRefused,
   PlainCall, Delete, DeleteRefused, NotImplemented, CallFails, Refused, Remains,
   Environment, Crash, SyncCache, RequestDelete, CloudStep, Perish, CheckProvider,
   DeleteProvider, LoseCredentials, LoseSecret, Repair

LEMMA FaultsGrow ==
  ASSUME IInv, Next
  PROVE  faults \in Nat /\ faults' \in Nat /\ faults' >= faults
<1>1. faults \in Nat
  BY DEF IInv, TypeOK
<1>2. Counted
  BY DEF Counted, Broken, Answered, Next, Reconcile, ProviderNotUsable, BeginSync, BeginDeletion,
     ReadObject, AddFinalizer, SyncWithoutSecret, SyncInvalid, SyncFinds, SyncCannotFind,
     SyncAsksInVain, SyncSearches,
     DeleteFinds, DeleteCannotFind, WriteStatus, ReportFailure, RemoveFinalizer, WritesBack,
     WriteFails, Script, CreateResource, CreateRefused, AllocateSpare, AllocateRefused, Configure,
     ConfigureRefused, NothingToMend, TakeAway, TakeAwayRefused, LookUp, LookUpRefused,
     PlainCall, Delete, DeleteRefused, NotImplemented, CallFails, Refused, Remains,
     Environment, Crash, SyncCache, RequestDelete, CloudStep, Perish, CheckProvider,
     DeleteProvider, LoseCredentials, LoseSecret, Repair
<1> QED BY <1>1, <1>2 DEF Counted, Fault

(* Only an accident loses the credentials.                                 *)
LEMMA TrustStays ==
  ASSUME IInv, Trusted, Next
  PROVE  Trusted'
<1>1. faults > 0 => faults' > 0
  BY FaultsGrow
<1>2. CASE access'.creds = access.creds
  BY <1>1, <1>2 DEF Trusted
<1>3. CASE LoseCredentials
  BY <1>3, FaultsGrow DEF LoseCredentials, Fault, Trusted
<1>4. access \in [provider : {"none", "notReady", "ready"}, creds : {"missing", "bad", "good"},
                 secret : BOOLEAN]
  BY DEF IInv, TypeOK, CloudOK
<1>5. CASE CheckProvider \/ DeleteProvider \/ LoseSecret
  BY <1>2, <1>4, <1>5 DEF CheckProvider, DeleteProvider, LoseSecret
<1>6. CASE Repair
  BY <1>2, <1>4, <1>6 DEF Repair, Trusted
<1>7. access' = access \/ CheckProvider \/ DeleteProvider \/ LoseCredentials \/ LoseSecret \/ Repair
  BY DEF Next, Reconcile, ProviderNotUsable, BeginSync, BeginDeletion, ReadObject, AddFinalizer,
     SyncWithoutSecret, SyncInvalid, SyncFinds, SyncCannotFind,
     SyncAsksInVain, SyncSearches, DeleteFinds, DeleteCannotFind,
     WriteStatus, ReportFailure, RemoveFinalizer, WritesBack, WriteFails,
     Script, CreateResource, CreateRefused, AllocateSpare, AllocateRefused, Configure,
     ConfigureRefused, NothingToMend, TakeAway, TakeAwayRefused, LookUp, LookUpRefused,
     PlainCall, Delete, DeleteRefused, NotImplemented, CallFails, Refused, Remains,
     Environment, Crash, SyncCache, RequestDelete, CloudStep, Perish
<1> QED BY <1>2, <1>3, <1>5, <1>6, <1>7

(* What may be let go of may still be.                                     *)
LEMMA ExcusesStay ==
  ASSUME IInv, Next
  PROVE  Excused => Excused'
BY FaultsGrow, SpecStays, Constancy DEF Excused

(* An unanswered call is an accident, or the consequence of one.           *)
LEMMA BrokenCounts ==
  ASSUME IInv, Trusted, Broken
  PROVE  faults' > 0
<1>1. faults \in Nat
  BY DEF IInv, TypeOK
<1> QED BY <1>1 DEF Trusted, Broken, Fault

(* A name is used twice only where names mean nothing.                     *)
LEMMA NamesStayUnique ==
  ASSUME IInv, Next, OneOfAName
  PROVE  OneOfAName'
<1>1. Theirs' = Theirs
  BY SpecStays, Constancy
<1>2. CloudOK
  BY DEF IInv, TypeOK
<1>3. CASE Twins' \subseteq Twins
  BY <1>1, <1>3 DEF OneOfAName
<1>4. CASE UNCHANGED cloud
  BY <1>4, <1>3 DEF Twins
<1>5. CASE Changes
  <2>1. PICK i \in Ids : \E new : Ages(i, new)
    BY <1>5 DEF Changes
  <2>2. PICK new : Ages(i, new)
    BY <2>1
  <2>3. /\ cloud'[i] = new /\ \A j \in Ids \ {i} : cloud'[j] = cloud[j]
        /\ new.spare = cloud[i].spare
        /\ new.state \in {"pending", "available", "deleting"}
             => cloud[i].state \in {"pending", "available", "deleting"}
    BY <1>2, <2>2 DEF Ages, Alive, CloudOK
  <2> QED BY <2>3, <1>3 DEF Twins
<1>6. CASE AllocateSpare
  <2>1. PICK i \in Ids : cloud' = [cloud EXCEPT ![i] = Resource("available", {}, TRUE)]
    BY <1>6 DEF AllocateSpare, Fresh, Unused
  <2>2. cloud'[i].spare /\ \A j \in Ids \ {i} : cloud'[j] = cloud[j]
    BY <1>2, <2>1 DEF CloudOK, Resource
  <2> QED BY <2>2, <1>3 DEF Twins
<1>7. CASE CreateResource /\ ~UNCHANGED cloud /\ Theirs.twins # "another"
  <2>1. Twins = {}
    BY <1>7 DEF CreateResource
  <2>2. PICK i \in Ids : \E new : cloud' = [cloud EXCEPT ![i] = new]
    BY <1>7 DEF CreateResource, Fresh, Unused
  <2>3. \A j \in Ids \ {i} : cloud'[j] = cloud[j]
    BY <1>2, <2>2 DEF CloudOK
  <2>4. Twins' \subseteq {i}
    BY <2>1, <2>3 DEF Twins
  <2> QED BY <2>4 DEF OneOfAName
<1>8. CASE Theirs.twins = "another"
  BY <1>1, <1>8 DEF OneOfAName
<1> QED BY <1>4, <1>5, <1>6, <1>7, <1>8, CloudChanges

(* Whatever part of the object is alive after a step was so before it.     *)
LEMMA WasAlive ==
  ASSUME IInv, Next, Recording, object' = object, object.id \in Live'
  PROVE  object.id \in Live
BY AllAge DEF Ageing, Recording

(* Reconcile is not in the middle of anything.                             *)
LEMMA NotUnderWay ==
  ASSUME pc' \notin {"run", "status", "release"} \/ workFresh' = FALSE
  PROVE  SyncsTheSame' /\ DeletesTheSame'
BY DEF SyncsTheSame, DeletesTheSame

(* The ids that are known stay known.                                      *)
LEMMA StillRecording ==
  ASSUME IInv, Next, Recording, UNCHANGED object,
         {cache'.id, work'.id, target'} \cap Unused = {}
  PROVE  Recording'
BY AllAge DEF Ageing, Recording

LEMMA GoneHasNoId == Gone.id = None /\ ~Gone.exists /\ None \notin Unused
BY Numbers DEF Gone, Object

(* Reconcile ends.                                                         *)
LEMMA ReturnKeepsRest ==
  ASSUME PInv, Next, Return, UNCHANGED <<object, cache>>
  PROVE  Rest'
<1>1. pc' = "idle" /\ work' = Gone /\ workFresh' = FALSE /\ target' = None
  BY DEF Return, Forget
<1>2. Recording'
  BY <1>1, GoneHasNoId, StillRecording DEF PInv, Recording
<1>3. Attending'
  BY <1>1 DEF Attending
<1> QED BY <1>1, <1>2, <1>3, NotUnderWay, NamesStayUnique DEF Rest, PInv

(* The sync has failed, and says so.                                       *)
LEMMA ReportKeepsRest ==
  ASSUME PInv, Next, pc # "idle", pc' = "report", UNCHANGED <<object, cache, work>>,
         target' \in {None, target}
  PROVE  Rest'
<1>1. Recording'
  BY GoneHasNoId, StillRecording DEF PInv, Recording
<1>2. Attending'
  BY DEF Attending, PInv
<1> QED BY <1>1, <1>2, NotUnderWay, NamesStayUnique DEF Rest, PInv

LEMMA SyncFailsKeepsRest ==
  ASSUME PInv, Next, pc # "idle", SyncFails, UNCHANGED <<object, cache>>
  PROVE  Rest'
BY ReturnKeepsRest, ReportKeepsRest DEF SyncFails

LEMMA FailsKeepsRest ==
  ASSUME PInv, Next, pc # "idle", Fails, UNCHANGED <<object, cache>>
  PROVE  Rest'
BY ReturnKeepsRest, SyncFailsKeepsRest DEF Fails

-----------------------------------------------------------------------------
(* The scripts.                                                            *)

LEMMA InsistsFacts ==
  ASSUME NEW script \in Scripts, script # <<>>, NEW ops, Insists(script, ops),
         Head(script).op \notin ops \/ Head(script).on = "ignored"
  PROVE  Insists(Tail(script), ops)
<1>1. Len(script) \in Nat \ {0} /\ DOMAIN script = 1..Len(script) /\ Head(script) = script[1]
  BY EmptySeq, LenProperties DEF Scripts
<1>2. /\ DOMAIN Tail(script) = 1..(Len(script) - 1)
      /\ \A k \in 1..(Len(script) - 1) : Tail(script)[k] = script[k + 1]
  BY <1>1, HeadTailProperties, LenProperties DEF Scripts
<1>3. PICK k \in DOMAIN script : script[k].op \in ops /\ script[k].on = "fails"
  BY DEF Insists
<1>4. k # 1
  BY <1>1, <1>3
<1>5. k - 1 \in 1..(Len(script) - 1) /\ (k - 1) + 1 = k
  BY <1>1, <1>4
<1>6. k - 1 \in DOMAIN Tail(script) /\ Tail(script)[k - 1] = script[k]
  BY <1>2, <1>5
<1> QED BY <1>3, <1>6 DEF Insists

LEMMA InsistentIsNotEmpty == ASSUME NEW ops PROVE ~Insists(<<>>, ops)
BY DEF Insists

(* A sync goes on, and is still about the resource in the status.          *)
LEMMA SyncContinues ==
  ASSUME PInv, Next, NEW script \in Scripts, Continue(script), pc \in {"find", "run"},
         ~work.deleting, UNCHANGED <<object, cache>>,
         target' \notin Unused \/ target' \notin Unused',
         (workFresh /\ ~Excused /\ ~Excused' /\ object.id \in Live /\ object.id \in Live')
           => \/ /\ target' = object.id
                 /\ Theirs.twins = "another" => ~Does(script, "make")
              \/ /\ target' = None /\ Theirs.twins # "another"
                 /\ Insists(script, {"make", "refuse"})
  PROVE  Rest'
<1>1. /\ todo' = script /\ UNCHANGED <<work, workFresh>>
      /\ pc' = (IF script # <<>> THEN "run" ELSE "status")
  BY DEF Continue
<1>2. Recording'
  BY <1>1, AllAge DEF Recording, PInv, Ageing
<1>3. Attending'
  BY <1>1 DEF Attending, PInv
<1>4. object.id \in Live' => object.id \in Live
  BY WasAlive DEF PInv
<1>5. Theirs' = Theirs /\ (Excused => Excused')
  BY SpecStays, Constancy, ExcusesStay DEF PInv
<1>6. SyncsTheSame'
  <2>1. SUFFICES ASSUME workFresh, ~Excused, ~Excused', object.id \in Live, object.id \in Live'
                 PROVE  \/ /\ target' = object.id
                           /\ Theirs.twins = "another" => ~Does(script, "make")
                        \/ /\ target' = None /\ script # <<>> /\ Theirs.twins # "another"
                           /\ Insists(script, {"make", "refuse"})
    BY <1>1, <1>4, <1>5 DEF SyncsTheSame
  <2> QED BY <2>1, InsistentIsNotEmpty
<1>7. DeletesTheSame'
  BY <1>1 DEF DeletesTheSame
<1> QED BY <1>2, <1>3, <1>6, <1>7, NamesStayUnique DEF Rest, PInv

(* So does a deletion.                                                     *)
LEMMA DeletionContinues ==
  ASSUME PInv, Next, NEW script \in Scripts, Continue(script), pc \in {"find", "run"},
         work.deleting, UNCHANGED <<object, cache>>,
         target' \notin Unused \/ target' \notin Unused',
         (workFresh /\ ~Excused /\ ~Excused' /\ object.id \in Live /\ object.id \in Live')
           => /\ target' \in {None, object.id}
              /\ Insists(script, {"remove"}) /\ ~Does(script, "make")
  PROVE  Rest'
<1>1. /\ todo' = script /\ UNCHANGED <<work, workFresh>>
      /\ pc' = (IF script # <<>> THEN "run" ELSE "release")
  BY DEF Continue
<1>2. Recording'
  BY <1>1, AllAge DEF Recording, PInv, Ageing
<1>3. Attending'
  BY <1>1 DEF Attending, PInv
<1>4. object.id \in Live' => object.id \in Live
  BY WasAlive DEF PInv
<1>5. Excused => Excused'
  BY ExcusesStay DEF PInv
<1>6. SyncsTheSame'
  BY <1>1 DEF SyncsTheSame
<1>7. DeletesTheSame'
  BY <1>1, <1>4, <1>5, InsistentIsNotEmpty DEF DeletesTheSame
<1> QED BY <1>2, <1>3, <1>6, <1>7, NamesStayUnique DEF Rest, PInv

LEMMA UnderWay ==
  ASSUME PInv, pc = "run"
  PROVE  /\ todo \in Scripts /\ todo # <<>> /\ Tail(todo) \in Scripts
         /\ \A op : Does(Tail(todo), op) => Does(todo, op)
         /\ Does(todo, Head(todo).op)
BY RunFacts, ScriptFacts DEF PInv

(* A call that neither makes nor removes anything.                         *)
LEMMA ProceedKeepsRest ==
  ASSUME PInv, Next, pc = "run", Proceed, UNCHANGED <<object, cache, target>>,
         \/ Head(todo).op \notin {"make", "refuse", "remove"}
         \/ Head(todo).on = "ignored"
  PROVE  Rest'
<1>1. target \notin Unused
  BY DEF PInv, Recording
<1>2. /\ Insists(todo, {"make", "refuse"}) => Insists(Tail(todo), {"make", "refuse"})
      /\ Insists(todo, {"remove"}) => Insists(Tail(todo), {"remove"})
  BY UnderWay, InsistsFacts
<1>3. CASE work.deleting
  BY <1>1, <1>2, <1>3, UnderWay, DeletionContinues DEF Proceed, PInv, DeletesTheSame
<1>4. CASE ~work.deleting
  BY <1>1, <1>2, <1>4, UnderWay, SyncContinues DEF Proceed, PInv, SyncsTheSame
<1> QED BY <1>3, <1>4

LEMMA StepFailsKeepsRest ==
  ASSUME PInv, Next, pc = "run", StepFails, UNCHANGED <<object, cache>>
  PROVE  Rest'
BY ProceedKeepsRest, FailsKeepsRest DEF StepFails

(* A resource is created, or one of that name is taken for it: not if the  *)
(* one in the status lives.                                                *)
LEMMA CreateKeepsRest ==
  ASSUME PInv, Next, CreateResource
  PROVE  Rest'
<1>1. pc = "run" /\ Head(todo).op = "make" /\ Proceed /\ UNCHANGED <<object, cache>>
  BY DEF CreateResource, Running, Remains, kube
<1>2. Does(todo, "make")
  BY <1>1, UnderWay
<1>3. target' \notin Unused \/ target' \notin Unused'
  <2>1. CASE \E i \in Twins : target' = i
    BY <2>1, LivingAreTwins
  <2>2. CASE \E i \in Fresh : /\ target' = i
                              /\ cloud' = [cloud EXCEPT ![i] = Resource(Initially, Parts, FALSE)]
    <3>1. PICK i \in Fresh : /\ target' = i
                             /\ cloud' = [cloud EXCEPT ![i] = Resource(Initially, Parts, FALSE)]
      BY <2>2
    <3>2. cloud'[i].state # "none"
      BY <3>1, InitialStates DEF Fresh, Unused, Resource, PInv, IInv, TypeOK, CloudOK
    <3> QED BY <3>1, <3>2 DEF Unused
  <2> QED BY <2>1, <2>2 DEF CreateResource
<1>4. CASE work.deleting
  <2>1. ~(workFresh /\ ~Excused /\ object.id \in Live)
    BY <1>1, <1>2, <1>4 DEF PInv, DeletesTheSame
  <2> QED BY <1>1, <1>3, <1>4, <2>1, UnderWay, DeletionContinues DEF Proceed
<1>5. CASE ~work.deleting
  <2>1. ASSUME workFresh, ~Excused, object.id \in Live
        PROVE  target' = object.id /\ Theirs.twins # "another"
    <3>1. Theirs.twins # "another"
      BY <1>1, <1>2, <1>5, <2>1 DEF PInv, SyncsTheSame
    <3>2. object.id \in Twins
      BY <2>1, LivingAreTwins
    <3>3. PICK i \in Twins : target' = i
      BY <3>1, <3>2 DEF CreateResource
    <3> QED BY <3>1, <3>2, <3>3 DEF PInv, OneOfAName
  <2> QED BY <1>1, <1>3, <1>5, <2>1, UnderWay, SyncContinues DEF Proceed
<1> QED BY <1>4, <1>5

-----------------------------------------------------------------------------
(* A resource is deleted: the one in the status, if any.                   *)
LEMMA DeleteKeepsRest ==
  ASSUME PInv, Next, Delete
  PROVE  Rest'
<1>1. /\ pc = "run" /\ Head(todo).op = "remove" /\ Proceed
      /\ UNCHANGED <<object, cache, target>>
  BY DEF Delete, Running, Remains, kube
<1>2. Does(todo, "remove") /\ target \notin Unused
  BY <1>1, UnderWay DEF PInv, Recording
<1>3. work.deleting
  BY <1>2 DEF PInv, IInv, Removing
<1>4. target \notin Live'
  <2>1. target \in Ids /\ CloudOK
    BY Numbers DEF Delete, Removable, PInv, IInv, TypeOK
  <2>2. CASE UNCHANGED cloud /\ cloud[target].state \in {"deleting", "gone"}
    BY <2>2 DEF Live, Alive
  <2>3. CASE cloud' = [cloud EXCEPT ![target].state = IF Theirs.lingers THEN "deleting" ELSE "gone"]
    <3>1. PICK i \in Ids, st \in {"deleting", "gone"} :
            i = target /\ cloud' = [cloud EXCEPT ![i] = [cloud[i] EXCEPT !.state = st]]
      BY <2>1, <2>3
    <3> QED BY <2>1, <3>1 DEF Live, Alive, CloudOK
  <2> QED BY <2>2, <2>3 DEF Delete
<1>5. ~(workFresh /\ ~Excused /\ object.id \in Live /\ object.id \in Live')
  <2>1. target # None
    BY Numbers DEF Delete, Removable
  <2> QED BY <1>1, <1>3, <1>4, <2>1 DEF PInv, DeletesTheSame
<1> QED BY <1>1, <1>2, <1>3, <1>5, UnderWay, DeletionContinues DEF Proceed

LEMMA ScriptKeepsRest ==
  ASSUME PInv, Next, Script
  PROVE  Rest'
<1>1. CASE \/ CreateRefused \/ AllocateRefused \/ ConfigureRefused \/ TakeAwayRefused
           \/ LookUpRefused \/ DeleteRefused \/ NotImplemented \/ CallFails
  BY <1>1, StepFailsKeepsRest
  DEF CreateRefused, AllocateRefused, ConfigureRefused, TakeAwayRefused,
     LookUpRefused, DeleteRefused, NotImplemented, CallFails, Refused, Remains, Running, kube
<1>2. CASE AllocateSpare \/ Configure \/ NothingToMend \/ TakeAway \/ LookUp \/ PlainCall
  <2>1. /\ pc = "run" /\ Proceed /\ UNCHANGED <<object, cache, target>>
        /\ Head(todo).op \in {"allocate", "set", "mend", "drop", "clear", "look", "call"}
    BY <1>2 DEF AllocateSpare, Configure, NothingToMend, TakeAway, LookUp, PlainCall, Running,
       Remains, kube
  <2> QED BY <2>1, ProceedKeepsRest
<1> QED BY <1>1, <1>2, CreateKeepsRest, DeleteKeepsRest DEF Script

-----------------------------------------------------------------------------
(* The lookups.                                                            *)

LEMMA IdentityFacts ==
  ASSUME TypeOK
  PROVE  /\ Theirs.twins = "another" => Ours.carries /\ Ours.sync.find.by # "name"
         /\ Insists(Ours.sync.absent, {"make", "refuse"})
         /\ Theirs.twins = "another" => ~Does(Ours.sync.found, "make")
         /\ ~Keeps => /\ Theirs.twins = "another" => Ours.carries /\ Program.find.by # "name"
                      /\ Insists(Program.script, {"remove"}) /\ ~Does(Program.script, "make")
                      /\ (Program.guarded /\ Program.find.by \in {"record", "id", "recordOrName"}
                           => Ours.carries)
<1>1. config.kind \in Kinds /\ config.policy \in DOMAIN Ours.delete
  BY DEF TypeOK
<1> QED BY <1>1, IdentityAssumption, CreationAssumption DEF Tells, Ours, Theirs, Program, Keeps

LEMMA NamedAreTwins == Named \subseteq Twins
BY DEF Named, Described, Twins, Alive

(* What a lookup finds is the resource in the status, if that lives.       *)
LEMMA FindsTheSame ==
  ASSUME TypeOK, OneOfAName, NEW lookup, NEW o, o.id \in Live, NEW i \in Found(lookup, o),
         Theirs.twins = "another" => Ours.carries /\ lookup.by # "name",
         lookup.by \in Ways
  PROVE  i = o.id
<1>1. o.id \in Twins /\ Named \subseteq Twins
  BY LivingAreTwins DEF Named, Described, Twins, Alive
<1>2. Described(o.id)
  BY DEF Live, Described
<1>3. i \in Known(o) \/ i \in Named
  BY DEF Found, Ways
<1>4. CASE i \in Known(o)
  BY <1>4 DEF Known
<1>5. CASE i \in Named /\ Theirs.twins # "another"
  BY <1>1, <1>5 DEF OneOfAName
<1>6. CASE Theirs.twins = "another" /\ i \notin Known(o)
  <2>1. o.id \in Known(o)
    BY <1>6, Numbers DEF Known
  <2> QED BY <1>2, <1>6, <2>1 DEF Found, Ways, Ways
<1> QED BY <1>3, <1>4, <1>5, <1>6

(* It finds none only if that does not live, or is not known.              *)
LEMMA MissesTheSame ==
  ASSUME NEW lookup, NEW o, o.id \in Live, Found(lookup, o) = {},
         lookup.by \in Ways
  PROVE  ~Ours.carries /\ lookup.by \in {"record", "id", "anyId"}
<1>1. o.id \in Named /\ Described(o.id) /\ o.id # None
  BY Numbers DEF Named, Described, Live
<1> QED BY <1>1 DEF Found, Known, Ways

LEMMA FoundAreNotUnused ==
  ASSUME PInv, NEW lookup, lookup.by \in Ways,
         NEW i \in Found(lookup, work)
  PROVE  i \notin Unused
<1>1. Named \cap Unused = {}
  BY DEF Named, Described, Alive, Unused
<1> QED BY <1>1 DEF Found, Known, Ways, PInv, Recording

(* A sync begins.                                                          *)
LEMMA SyncBeginsRest ==
  ASSUME PInv, Next, SyncFinds \/ SyncCannotFind \/ SyncSearches
  PROVE  Rest'
<1>1. pc = "find" /\ target = None /\ ~work.deleting /\ UNCHANGED <<object, cache>>
  BY DEF SyncFinds, SyncCannotFind, SyncSearches, Syncing, kube, PInv, Attending
<1>2. TypeOK /\ (workFresh => work = object) /\ OneOfAName /\ None \notin Unused
  BY Numbers DEF PInv, IInv, Latest
<1>3. CASE SyncFails
  BY <1>1, <1>3, SyncFailsKeepsRest
<1>4. CASE SyncFinds /\ \E i \in Found(Ours.sync.find, work) :
                          target' = i /\ Continue(Ours.sync.found)
  <2>1. PICK i \in Found(Ours.sync.find, work) : target' = i /\ Continue(Ours.sync.found)
    BY <1>4
  <2>2. i \notin Unused
    BY <1>2, LookupFacts, FoundAreNotUnused
  <2>3. workFresh /\ object.id \in Live => i = object.id
    BY <1>2, <2>1, FindsTheSame, LookupFacts, IdentityFacts
  <2>4. Theirs.twins = "another" => ~Does(Ours.sync.found, "make")
    BY <1>2, IdentityFacts
  <2>5. Ours.sync.found \in Scripts
    BY <1>2, CatalogueFacts
  <2> QED BY <1>1, <2>1, <2>2, <2>3, <2>4, <2>5, SyncContinues
<1>5. CASE SyncSearches /\ \E i \in Named : target' = i /\ Continue(Ours.sync.found)
  <2>1. PICK i \in Named : target' = i /\ Continue(Ours.sync.found)
    BY <1>5
  <2>2. i \notin Unused /\ i \in Twins
    BY NamedAreTwins, LivingAreTwins
  <2>3. Ours.sync.find.by = "either" /\ faults' > 0
    BY <1>5 DEF SyncSearches, Fault, PInv, IInv, TypeOK
  <2>4. ASSUME workFresh, ~Excused', object.id \in Live
        PROVE  i = object.id
    <3>1. object.id \in Named /\ object.id \in Twins
      BY <2>4, LivingAreTwins DEF Live, Named, Described
    <3>2. CASE Theirs.twins # "another"
      BY <1>2, <2>2, <3>1, <3>2 DEF OneOfAName
    <3>3. CASE Theirs.twins = "another"
      <4>1. Ours.sync.find.onError # "absent"
        BY <2>3, <2>4, <3>3, SpecStays, Constancy DEF Excused, Forgetful
      <4>2. Ours.sync.find.onError = "fails"
        BY <1>2, <4>1, LookupFacts
      <4> QED BY <2>1, <2>3, <3>1, <3>3, <4>2 DEF PInv, Searched
    <3> QED BY <3>2, <3>3
  <2>5. Theirs.twins = "another" => ~Does(Ours.sync.found, "make")
    BY <1>2, IdentityFacts
  <2>6. Ours.sync.found \in Scripts
    BY <1>2, CatalogueFacts
  <2> QED BY <1>1, <2>1, <2>2, <2>4, <2>5, <2>6, SyncContinues
<1>6. CASE Absent
  <2>1. target' = None /\ Continue(Ours.sync.absent) /\ Ours.sync.absent \in Scripts
    BY <1>2, <1>6, CatalogueFacts DEF Absent
  <2>2. Insists(Ours.sync.absent, {"make", "refuse"})
    BY <1>2, IdentityFacts
  <2>3. ASSUME workFresh, ~Excused, ~Excused', object.id \in Live
        PROVE  Theirs.twins # "another"
    <3>1. CASE SyncCannotFind
      <4>1. Ours.sync.find.onError = "absent" \/ SyncFails
        BY <3>1 DEF SyncCannotFind
      <4>2. ~SyncFails
        BY <1>1, <1>2, <2>1, <2>2, InsistentIsNotEmpty
        DEF SyncFails, Return, Continue
      <4>3. faults' > 0
        BY <3>1, BrokenCounts DEF SyncCannotFind, PInv
      <4>4. Theirs.twins = "another" => Forgetful
        BY <4>1, <4>2 DEF Forgetful
      <4>5. Forgetful' = Forgetful
        BY SpecStays, Constancy
      <4> QED BY <2>3, <4>3, <4>4, <4>5 DEF Excused
    <3>2. CASE SyncFinds
      <4>1. Found(Ours.sync.find, work) = {} \/ ~ (target' = None)
        BY <3>2, <1>2, LookupFacts, FoundAreIds, Numbers
        DEF SyncFinds, TypeOK, LocalOK
      <4>2. Found(Ours.sync.find, object) = {}
        BY <1>2, <2>1, <2>3, <4>1
      <4> QED BY <1>2, <2>3, <4>2, MissesTheSame, LookupFacts, IdentityFacts
    <3>3. CASE SyncSearches
      <4>1. Named = {}
        BY <1>2, <2>1, <3>3, NamedAreTwins, Numbers DEF SyncSearches
      <4> QED BY <2>3, <4>1 DEF Live, Named, Described
    <3> QED BY <3>1, <3>2, <3>3
  <2> QED BY <1>1, <1>2, <2>1, <2>2, <2>3, SyncContinues
<1> QED BY <1>3, <1>4, <1>5, <1>6 DEF SyncFinds, SyncCannotFind, SyncSearches

(* A deletion begins.                                                      *)
LEMMA DeletionBeginsRest ==
  ASSUME PInv, Next, DeleteFinds \/ DeleteCannotFind
  PROVE  Rest'
<1>1. pc = "find" /\ target = None /\ work.deleting /\ UNCHANGED <<object, cache>>
  BY DEF DeleteFinds, DeleteCannotFind, Deleting, kube, PInv, Attending
<1>2. TypeOK /\ (workFresh => work = object) /\ OneOfAName /\ None \notin Unused
  BY Numbers DEF PInv, IInv, Latest
<1>3. CASE Return
  BY <1>1, <1>3, ReturnKeepsRest
<1>4. ~Excused => /\ Insists(Program.script, {"remove"}) /\ ~Does(Program.script, "make")
                  /\ Theirs.twins = "another" => Ours.carries /\ Program.find.by # "name"
                  /\ (Program.guarded /\ Program.find.by \in {"record", "id", "recordOrName"}
                        => Ours.carries)
  BY <1>2, IdentityFacts DEF Excused
<1>5. Program.script \in Scripts
  BY <1>2, CatalogueFacts
<1>6. CASE \E i \in Found(Program.find, work) : target' = i /\ Continue(Program.script)
  <2>1. PICK i \in Found(Program.find, work) : target' = i /\ Continue(Program.script)
    BY <1>6
  <2>2. i \notin Unused
    BY <1>2, LookupFacts, FoundAreNotUnused
  <2>3. workFresh /\ ~Excused /\ object.id \in Live => i = object.id
    BY <1>2, <1>4, <2>1, FindsTheSame, LookupFacts
  <2> QED BY <1>1, <1>4, <1>5, <2>1, <2>2, <2>3, DeletionContinues
<1>7. CASE target' = target /\ Continue(Program.script)
  BY <1>1, <1>2, <1>4, <1>5, <1>7, DeletionContinues
<1>8. CASE /\ target' = target /\ Continue(<<>>)
           /\ Program.guarded
           /\ \/ Found(Program.find, work) = {}
              \/ Program.find.onError = "absent" /\ Broken /\ Asks(Program.find, work)
  <2>1. ~(workFresh /\ ~Excused /\ ~Excused' /\ object.id \in Live)
    <3>1. CASE Found(Program.find, work) = {}
      BY <1>2, <1>4, <1>8, <3>1, MissesTheSame, LookupFacts
    <3>2. CASE /\ Program.find.onError = "absent" /\ Broken
               /\ Program.find.by # "recordOrName"
      <4>1. Forgetful' /\ faults' > 0
        BY <1>8, <3>2, BrokenCounts, SpecStays, Constancy DEF Forgetful, PInv
      <4> QED BY <4>1 DEF Excused
    <3>3. CASE Program.find.by = "recordOrName" /\ Asks(Program.find, work)
      <4>1. Known(work) = {}
        BY <3>3 DEF Asks
      <4> QED BY <1>2, <1>4, <1>8, <3>3, <4>1, Numbers DEF Known
    <3> QED BY <1>8, <3>1, <3>2, <3>3
  <2> QED BY <1>1, <1>2, <1>8, <2>1, EmptyScript, DeletionContinues
<1> QED BY <1>3, <1>6, <1>7, <1>8 DEF DeleteFinds, DeleteCannotFind

-----------------------------------------------------------------------------
(* The other steps of Reconcile.                                           *)

LEMMA BeginKeepsRest ==
  ASSUME PInv, Next, ProviderNotUsable \/ BeginSync \/ BeginDeletion
  PROVE  Rest'
<1>1. /\ work' = cache /\ target' = None /\ UNCHANGED <<object, cache>> /\ cache.exists
      /\ pc' \in {"report", "finalizer", "find"} /\ (pc' = "find" => cache.finalizer)
  BY DEF ProviderNotUsable, BeginSync, BeginDeletion, ReadObject
<1>2. Recording'
  BY <1>1, GoneHasNoId, StillRecording DEF PInv, Recording
<1>3. Attending'
  BY <1>1 DEF Attending
<1> QED BY <1>1, <1>2, <1>3, NotUnderWay, NamesStayUnique DEF Rest, PInv

LEMMA AddFinalizerKeepsRest ==
  ASSUME PInv, Next, AddFinalizer
  PROVE  Rest'
<1>1. CASE ~workFresh
  BY <1>1, ReturnKeepsRest DEF AddFinalizer
<1>2. CASE workFresh
  <2>1. /\ object' = [object EXCEPT !.finalizer = TRUE]
        /\ work' = [work EXCEPT !.finalizer = TRUE]
        /\ pc = "finalizer" /\ pc' = "find"
        /\ UNCHANGED <<target, cache, cloud>>
    BY <1>2 DEF AddFinalizer
  <2>2. object \in ObjectType /\ work \in ObjectType
    BY DEF PInv, IInv, TypeOK, KubeOK, LocalOK
  <2>3. /\ object'.finalizer /\ object'.id = object.id
        /\ work'.finalizer /\ work'.id = work.id /\ work'.exists = work.exists
    BY <2>1, <2>2 DEF ObjectType
  <2>4. Recording'
    BY <2>1, <2>3 DEF PInv, Recording, Unused
  <2>5. target = None
    BY <2>1 DEF PInv, Attending
  <2>6. Attending'
    BY <2>1, <2>3, <2>5 DEF PInv, Attending
  <2> QED BY <2>1, <2>4, <2>6, NotUnderWay, NamesStayUnique DEF Rest, PInv
<1> QED BY <1>1, <1>2

(* The object is written.                                                  *)
LEMMA WritesBackKeepsRest ==
  ASSUME PInv, Next, NEW new, WritesBack(new), new.id \notin Unused,
         workFresh /\ new.id # None => new.finalizer
  PROVE  Rest'
<1>1. CASE ~workFresh
  BY <1>1, ReturnKeepsRest DEF WritesBack
<1>2. CASE workFresh
  <2>1. /\ object' = new /\ UNCHANGED <<cache, cloud>>
        /\ pc' = "idle" /\ work' = Gone /\ workFresh' = FALSE /\ target' = None
    BY <1>2 DEF WritesBack, Return, Forget
  <2>2. Recording'
    BY <1>2, <2>1, GoneHasNoId DEF PInv, Recording, Unused
  <2>3. Attending'
    BY <2>1 DEF Attending
  <2> QED BY <2>1, <2>2, <2>3, NotUnderWay, NamesStayUnique DEF Rest, PInv
<1> QED BY <1>1, <1>2

LEMMA EndKeepsRest ==
  ASSUME PInv, Next, WriteStatus \/ ReportFailure \/ RemoveFinalizer
  PROVE  Rest'
<1>1. object \in ObjectType /\ target \notin Unused /\ object.id \notin Unused
  BY DEF PInv, IInv, TypeOK, KubeOK, Recording
<1>2. CASE WriteStatus
  <2> DEFINE new == [object EXCEPT !.ready = Ready, !.id = target]
  <2>1. new.id = target /\ new.finalizer = object.finalizer
    BY <1>1 DEF ObjectType
  <2>2. workFresh => object.finalizer
    BY <1>2 DEF WriteStatus, PInv, IInv, Latest, Attending
  <2>3. WritesBack(new)
    BY <1>2 DEF WriteStatus
  <2> HIDE DEF new
  <2> QED BY <1>1, <2>1, <2>2, <2>3, WritesBackKeepsRest
<1>3. CASE ReportFailure
  <2> DEFINE new == [object EXCEPT !.ready = FALSE]
  <2>1. new.id = object.id /\ new.finalizer = object.finalizer
    BY <1>1 DEF ObjectType
  <2>2. object.id # None => object.finalizer
    BY DEF PInv, Recording
  <2>3. WritesBack(new)
    BY <1>3 DEF ReportFailure
  <2> HIDE DEF new
  <2> QED BY <1>1, <2>1, <2>2, <2>3, WritesBackKeepsRest
<1>4. CASE RemoveFinalizer
  BY <1>4, GoneHasNoId, WritesBackKeepsRest DEF RemoveFinalizer
<1> QED BY <1>2, <1>3, <1>4

LEMMA ReconcileKeepsRest ==
  ASSUME PInv, Next, Reconcile
  PROVE  Rest'
<1>1. CASE SyncWithoutSecret \/ SyncInvalid \/ SyncAsksInVain
  <2>1. pc # "idle" /\ UNCHANGED <<object, cache>>
    BY <1>1 DEF SyncWithoutSecret, SyncInvalid, SyncAsksInVain, Syncing, kube
  <2> QED BY <1>1, <2>1, ReturnKeepsRest, ReportKeepsRest, SyncFailsKeepsRest
          DEF SyncWithoutSecret, SyncInvalid, SyncAsksInVain
<1>2. CASE WriteFails
  BY <1>2, ReturnKeepsRest DEF WriteFails, kube
<1> QED
  BY <1>1, <1>2, BeginKeepsRest, AddFinalizerKeepsRest, SyncBeginsRest, DeletionBeginsRest,
     ScriptKeepsRest, EndKeepsRest
  DEF Reconcile

-----------------------------------------------------------------------------
(* Around the controller.                                                  *)

(* Reconcile stays where it is, but may have to find that the object has   *)
(* changed.                                                                *)
LEMMA StillKeepsRest ==
  ASSUME PInv, Ageing, OneOfAName', config' = config, Excused => Excused',
         UNCHANGED <<pc, work, todo, target>>,
         cache' \in {cache, object},
         \/ UNCHANGED <<object, workFresh>>
         \/ workFresh' = FALSE /\ object'.id \in {None, object.id}
            /\ (object'.id # None => object'.finalizer)
  PROVE  Rest'
<1>1. Recording'
  BY Numbers DEF PInv, Recording, Ageing
<1>2. Attending'
  BY DEF PInv, Attending
<1>3. CASE workFresh' = FALSE
  BY <1>1, <1>2, <1>3, NotUnderWay DEF Rest
<1>4. CASE UNCHANGED <<object, workFresh>>
  <2>1. object.id \in Live' => object.id \in Live
    BY DEF Ageing, PInv, Recording
  <2>2. SyncsTheSame' /\ DeletesTheSame'
    BY <1>4, <2>1, Constancy DEF PInv, SyncsTheSame, DeletesTheSame
  <2> QED BY <1>1, <1>2, <2>2 DEF Rest
<1> QED BY <1>3, <1>4

LEMMA EnvironmentKeepsRest ==
  ASSUME PInv, Next, Environment
  PROVE  Rest'
<1>1. Ageing /\ OneOfAName' /\ config' = config /\ (Excused => Excused')
  BY AllAge, NamesStayUnique, SpecStays, ExcusesStay DEF PInv
<1>2. CASE Crash
  BY <1>2, ReturnKeepsRest DEF Crash, kube
<1>3. CASE RequestDelete
  <2>1. object \in ObjectType
    BY DEF PInv, IInv, TypeOK, KubeOK
  <2>2. object'.id \in {None, object.id} /\ (object'.id # None => object'.finalizer)
    BY <1>3, <2>1, GoneHasNoId DEF RequestDelete, ObjectType
  <2> QED BY <1>1, <1>3, <2>2, StillKeepsRest DEF RequestDelete
<1>4. CASE SyncCache
  BY <1>1, <1>4, StillKeepsRest DEF SyncCache, local
<1>5. CASE \/ \E i \in Ids : CloudStep(i) \/ Perish(i)
           \/ CheckProvider \/ DeleteProvider \/ LoseCredentials \/ LoseSecret \/ Repair
  <2>1. UNCHANGED <<kube, local>>
    BY <1>5 DEF CloudStep, Perish, CheckProvider, DeleteProvider, LoseCredentials, LoseSecret,
       Repair
  <2> QED BY <1>1, <2>1, StillKeepsRest DEF kube, local
<1> QED BY <1>2, <1>3, <1>4, <1>5 DEF Environment

-----------------------------------------------------------------------------
(* The order of a script, and how a creation is searched for.              *)

LEMMA OrderFacts ==
  ASSUME NEW script \in Scripts, script # <<>>
  PROVE  /\ Final(script) => Final(Tail(script))
         /\ Final(script) /\ Head(script).op = "make"
              => \A k \in DOMAIN Tail(script) : Certain(Tail(script)[k])
         /\ (\A k \in DOMAIN script : Certain(script[k]))
              => /\ Certain(Head(script))
                 /\ \A k \in DOMAIN Tail(script) : Certain(Tail(script)[k])
<1>1. Len(script) \in Nat \ {0} /\ DOMAIN script = 1..Len(script) /\ Head(script) = script[1]
  BY EmptySeq, LenProperties DEF Scripts
<1>2. /\ DOMAIN Tail(script) = 1..(Len(script) - 1)
      /\ \A k \in 1..(Len(script) - 1) : Tail(script)[k] = script[k + 1]
  BY <1>1, HeadTailProperties, LenProperties DEF Scripts
<1>3. /\ 1 \in DOMAIN script
      /\ \A k \in DOMAIN Tail(script) :
           k \in Nat /\ k + 1 \in DOMAIN script /\ 1 < k + 1 /\ Tail(script)[k] = script[k + 1]
  BY <1>1, <1>2
<1>4. Final(script) => Final(Tail(script))
  <2>1. SUFFICES ASSUME Final(script), NEW j \in DOMAIN Tail(script),
                        NEW k \in DOMAIN Tail(script), j < k, Tail(script)[j].op = "make"
                 PROVE  Certain(Tail(script)[k])
    BY DEF Final
  <2>2. j + 1 < k + 1 /\ script[j + 1].op = "make"
    BY <1>3, <2>1
  <2> QED BY <1>3, <2>1, <2>2 DEF Final
<1>5. Final(script) /\ Head(script).op = "make"
        => \A k \in DOMAIN Tail(script) : Certain(Tail(script)[k])
  BY <1>1, <1>3 DEF Final
<1> QED BY <1>1, <1>3, <1>4, <1>5

LEMMA CertainMakesNothing ==
  ASSUME NEW script, \A k \in DOMAIN script : Certain(script[k])
  PROVE  ~Does(script, "make")
BY DEF Certain, Does

LEMMA MakesNothingIsFinal ==
  ASSUME NEW script, ~Does(script, "make")
  PROVE  Final(script)
BY DEF Final, Does

(* What is left to do after a step.                                        *)
LEMMA TodoChanges ==
  ASSUME IInv, Next
  PROVE  \/ todo' = todo /\ work'.deleting = work.deleting
         \/ todo' = <<>>
         \/ pc = "run" /\ todo' = Tail(todo) /\ work' = work
         \/ /\ todo' \in {Ours.sync.found, Ours.sync.absent} /\ work' = work
            /\ pc = "find" /\ ~work.deleting
         \/ work.deleting /\ todo' = Program.script /\ work' = work
<1>1. CASE ProviderNotUsable \/ BeginSync \/ BeginDeletion
  BY <1>1 DEF ProviderNotUsable, BeginSync, BeginDeletion, ReadObject
<1>2. CASE AddFinalizer
  BY <1>2 DEF AddFinalizer, Return, Forget, IInv, TypeOK, LocalOK, ObjectType
<1>3. CASE SyncWithoutSecret \/ SyncInvalid \/ SyncAsksInVain
  BY <1>3 DEF SyncWithoutSecret, SyncInvalid, SyncAsksInVain, SyncFails, Return, Forget
<1>4. CASE SyncFinds \/ SyncCannotFind \/ SyncSearches
  BY <1>4 DEF SyncFinds, SyncCannotFind, SyncSearches, Syncing, SyncFails, Return, Forget, Absent, Continue
<1>5. CASE DeleteFinds \/ DeleteCannotFind
  BY <1>5 DEF DeleteFinds, DeleteCannotFind, Deleting, Return, Forget, Continue
<1>6. CASE Script
  BY <1>6 DEF Script, CreateResource, CreateRefused, AllocateSpare, AllocateRefused, Configure,
     ConfigureRefused, NothingToMend, TakeAway, TakeAwayRefused, LookUp, LookUpRefused,
     PlainCall, Delete, DeleteRefused, NotImplemented, CallFails, Refused, Running,
     StepFails, Fails, SyncFails, Return, Forget, Proceed, Continue
<1>7. CASE WriteStatus \/ ReportFailure \/ RemoveFinalizer \/ WriteFails
  BY <1>7 DEF WriteStatus, ReportFailure, RemoveFinalizer, WritesBack, WriteFails, Return, Forget
<1>8. CASE Environment
  BY <1>8 DEF Environment, Crash, SyncCache, RequestDelete, CloudStep, Perish, CheckProvider,
     DeleteProvider, LoseCredentials, LoseSecret, Repair, local, Return, Forget
<1> QED BY <1>1, <1>2, <1>3, <1>4, <1>5, <1>6, <1>7, <1>8 DEF Next, Reconcile

LEMMA ScriptsAreInOrder ==
  ASSUME TypeOK
  PROVE  /\ ~Does(Program.script, "make")
         /\ Theirs.twins = "another" => Final(Ours.sync.absent) /\ ~Does(Ours.sync.found, "make")
<1>1. config.kind \in Kinds /\ config.policy \in DOMAIN Ours.delete
  BY DEF TypeOK
<1> QED BY <1>1, CreationAssumption, IdentityAssumption DEF Ours, Theirs, Program

LEMMA OrderStays ==
  ASSUME IInv, InOrder, Next
  PROVE  InOrder'
<1>1. TypeOK /\ Theirs' = Theirs
  BY SpecStays, Constancy DEF IInv
<1>2. CASE todo' = todo /\ work'.deleting = work.deleting
  BY <1>1, <1>2 DEF InOrder, Final, Does
<1>3. CASE todo' = <<>>
  BY <1>1, <1>3, EmptyScript, MakesNothingIsFinal DEF InOrder
<1>4. CASE pc = "run" /\ todo' = Tail(todo) /\ work' = work
  BY <1>1, <1>4, RunFacts, ScriptFacts, OrderFacts DEF InOrder
<1>5. CASE todo' \in {Ours.sync.found, Ours.sync.absent} /\ work' = work /\ ~work.deleting
  BY <1>1, <1>5, ScriptsAreInOrder, MakesNothingIsFinal DEF InOrder
<1>6. CASE work.deleting /\ todo' = Program.script /\ work' = work
  BY <1>1, <1>6, ScriptsAreInOrder, MakesNothingIsFinal DEF InOrder
<1> QED BY <1>2, <1>3, <1>4, <1>5, <1>6, TodoChanges

(* A search that fails is not taken for an answer.                         *)
LEMMA SearchBegins ==
  ASSUME Next, Ours.sync.find.by = "either", Ours.sync.find.onError = "fails",
         pc = "find", pc' = "run", ~work.deleting
  PROVE  UNCHANGED cloud /\ (todo' = Ours.sync.found \/ Named = {})
<1>1. ~Script /\ ~Environment
  BY DEF Script, CreateResource, CreateRefused, AllocateSpare, AllocateRefused, Configure,
     ConfigureRefused, NothingToMend, TakeAway, TakeAwayRefused, LookUp, LookUpRefused,
     PlainCall, Delete, DeleteRefused, NotImplemented, CallFails, Running,
     Environment, Crash, SyncCache, RequestDelete, CloudStep, Perish, CheckProvider,
     DeleteProvider, LoseCredentials, LoseSecret, Repair, local, Return
<1>2. SyncFinds \/ SyncCannotFind \/ SyncSearches
  BY <1>1 DEF Next, Reconcile, ProviderNotUsable, BeginSync, BeginDeletion, ReadObject,
     AddFinalizer, SyncWithoutSecret, SyncInvalid, SyncAsksInVain, DeleteFinds, DeleteCannotFind,
     Deleting, WriteStatus, ReportFailure, RemoveFinalizer, WriteFails, SyncFails, Return
<1>3. ~SyncFails
  BY DEF SyncFails, Return
<1>4. Found(Ours.sync.find, work) = {} => Named = {}
  BY DEF Found
<1> QED BY <1>2, <1>3, <1>4 DEF SyncFinds, SyncCannotFind, SyncSearches, Absent, Continue

(* Only a creation gives anything a name.                                  *)
LEMMA NamesFade ==
  ASSUME IInv, Next, ~(CreateResource /\ ~UNCHANGED cloud)
  PROVE  Named' \subseteq Named
<1>1. Theirs' = Theirs /\ CloudOK
  BY SpecStays, Constancy DEF IInv, TypeOK
<1>2. CASE UNCHANGED cloud
  BY <1>1, <1>2 DEF Named, Described, Alive
<1>3. CASE Changes
  <2>1. PICK i \in Ids : \E new : Ages(i, new)
    BY <1>3 DEF Changes
  <2>2. PICK new : Ages(i, new)
    BY <2>1
  <2>3. /\ cloud'[i] = new /\ \A j \in Ids \ {i} : cloud'[j] = cloud[j]
        /\ new.spare = cloud[i].spare
        /\ new.state \in {"pending", "available"} => Alive(i)
        /\ new.state = "deleting" => cloud[i].state \in {"pending", "available", "deleting"}
    BY <1>1, <2>2 DEF Ages, CloudOK
  <2> QED BY <1>1, <2>3 DEF Named, Described, Alive
<1>4. CASE AllocateSpare
  <2>1. PICK i \in Ids : cloud' = [cloud EXCEPT ![i] = Resource("available", {}, TRUE)]
    BY <1>4 DEF AllocateSpare, Fresh, Unused
  <2>2. cloud'[i].spare /\ \A j \in Ids \ {i} : cloud'[j] = cloud[j]
    BY <1>1, <2>1 DEF CloudOK, Resource
  <2> QED BY <1>1, <2>2 DEF Named, Described, Alive
<1> QED BY <1>2, <1>3, <1>4, CloudChanges

(* Who searches and finds nothing makes the only one.                      *)
LEMMA SearchedStays ==
  ASSUME IInv, InOrder, Searched, Next
  PROVE  Searched'
<1>1. TypeOK /\ Theirs' = Theirs /\ Ours' = Ours
  BY SpecStays, Constancy DEF IInv
<1>2. SUFFICES ASSUME Ours.sync.find.by = "either", Ours.sync.find.onError = "fails",
                      Theirs.twins = "another"
               PROVE  /\ \A i, j \in Named' : i = j
                      /\ pc' = "run" /\ Does(todo', "make") => Named' = {}
  BY <1>1 DEF Searched, Does
<1>3. CASE CreateResource /\ ~UNCHANGED cloud
  <2>1. /\ pc = "run" /\ Head(todo).op = "make" /\ todo' = Tail(todo)
        /\ todo \in Scripts /\ todo # <<>>
    BY <1>3, RunFacts DEF CreateResource, Running, Proceed, Continue
  <2>2. Named = {}
    BY <1>2, <2>1, ScriptFacts DEF Searched
  <2>3. ~Does(todo', "make")
    BY <1>2, <2>1, OrderFacts, CertainMakesNothing DEF InOrder
  <2>4. PICK i \in Ids : cloud' = [cloud EXCEPT ![i] = Resource(Initially, Parts, FALSE)]
    BY <1>3 DEF CreateResource, Fresh, Unused
  <2>5. \A j \in Ids \ {i} : cloud'[j] = cloud[j]
    BY <2>4 DEF IInv, TypeOK, CloudOK
  <2>6. Named' \subseteq {i}
    BY <1>1, <2>2, <2>5 DEF Named, Described, Alive
  <2> QED BY <2>3, <2>6
<1>4. CASE ~(CreateResource /\ ~UNCHANGED cloud)
  <2>1. Named' \subseteq Named
    BY <1>4, NamesFade
  <2>2. \A i, j \in Named' : i = j
    BY <1>2, <2>1 DEF Searched
  <2>3. ASSUME pc' = "run", Does(todo', "make")
        PROVE  Named = {}
    <3>1. CASE todo' = todo
      <4>1. todo # <<>>
        BY <2>3, <3>1, EmptyScript
      <4>2. pc = "run"
        BY <1>1, <4>1 DEF TypeOK, LocalOK
      <4> QED BY <1>2, <2>3, <3>1, <4>2 DEF Searched
    <3>2. CASE pc = "run" /\ todo' = Tail(todo)
      <4>1. Does(todo, "make")
        BY <2>3, <3>2, RunFacts, ScriptFacts
      <4> QED BY <1>2, <3>2, <4>1 DEF Searched
    <3>3. CASE /\ todo' \in {Ours.sync.found, Ours.sync.absent}
               /\ pc = "find" /\ ~work.deleting
      BY <1>1, <1>2, <2>3, <3>3, SearchBegins, ScriptsAreInOrder
    <3>4. todo' # <<>> /\ todo' # Program.script
      BY <1>1, <2>3, EmptyScript, ScriptsAreInOrder
    <3> QED BY <3>1, <3>2, <3>3, <3>4, TodoChanges
  <2> QED BY <2>1, <2>2, <2>3
<1> QED BY <1>3, <1>4

LEMMA NextKeepsPInv == PInv /\ [Next]_vars => PInv'
<1> SUFFICES ASSUME PInv, [Next]_vars PROVE PInv'
  OBVIOUS
<1>1. IInv'
  BY ReconcileKeeps, EnvironmentKeeps, StutterKeeps DEF Next, PInv
<1>2. CASE Next
  <2>1. Rest'
    BY <1>2, ReconcileKeepsRest, EnvironmentKeepsRest DEF Next
  <2>2. Trusted'
    BY <1>2, TrustStays DEF PInv
  <2>3. InOrder' /\ Searched'
    BY <1>2, OrderStays, SearchedStays DEF PInv
  <2> QED BY <1>1, <2>1, <2>2, <2>3 DEF Rest, PInv
<1>3. CASE UNCHANGED vars
  <2>1. InOrder' /\ Searched'
    BY <1>3, Constancy DEF vars, PInv, InOrder, Final, Does, Searched, Named, Described, Alive
  <2> QED BY <1>1, <1>3, <2>1, Constancy
  DEF vars, PInv, Trusted, Recording, Attending, OneOfAName, SyncsTheSame, DeletesTheSame, Excused,
     Unused, Twins, Live, Alive
<1> QED BY <1>2, <1>3

LEMMA InitEstablishesPInv == Init => PInv
<1> SUFFICES ASSUME Init PROVE PInv
  OBVIOUS
<1>1. /\ object.id = None /\ cache.id = None /\ work.id = None /\ target = None
      /\ pc = "idle" /\ None \notin Unused
  BY GoneHasNoId DEF Init, Created, Object
<1>2. Twins = {}
  BY DEF Init, Twins, Nothing, Resource
<1>3. Trusted
  BY DEF Init, Trusted
<1>4. InOrder
  BY EmptyScript, MakesNothingIsFinal DEF Init, InOrder
<1>5. Searched
  BY <1>1, <1>2, NamedAreTwins DEF Searched
<1> QED
  BY <1>1, <1>2, <1>3, <1>4, <1>5, InitEstablishes
  DEF PInv, Recording, Attending, OneOfAName, SyncsTheSame, DeletesTheSame

(* The stronger invariant holds too.                                       *)
THEOREM PromiseInvariant == Spec => []PInv
BY InitEstablishesPInv, NextKeepsPInv, PTL DEF Spec

-----------------------------------------------------------------------------
(* The refinement.                                                         *)

(* A step that leaves the object alone.                                    *)
LEMMA ResourcesComeAndGo ==
  ASSUME PInv, Next, object' = object
  PROVE  Promise!Appear \/ Promise!Perish
<1>1. Kept' = Kept /\ (Live \subseteq Live' \/ Live' \subseteq Live)
  BY SpecStays, Constancy, AllAge DEF PInv, Ageing
<1> QED BY <1>1 DEF Promise!Appear, Promise!Perish

(* The steps that write the object.                                        *)
LEMMA OnlyTheseWrite ==
  ASSUME Next, object' # object
  PROVE  /\ UNCHANGED cloud
         /\ \/ AddFinalizer \/ WriteStatus \/ ReportFailure \/ RemoveFinalizer \/ RequestDelete
         /\ workFresh \/ RequestDelete
<1>1. Script => object' = object
  BY DEF Script, CreateResource, CreateRefused, AllocateSpare, AllocateRefused, Configure,
     ConfigureRefused, NothingToMend, TakeAway, TakeAwayRefused, LookUp, LookUpRefused, PlainCall,
     Delete, DeleteRefused, NotImplemented, CallFails, Refused, Remains, kube
<1> QED
  BY <1>1 DEF Next, Reconcile, ProviderNotUsable, BeginSync, BeginDeletion, ReadObject, AddFinalizer,
     SyncWithoutSecret, SyncInvalid, SyncFinds, SyncCannotFind,
     SyncAsksInVain, SyncSearches, DeleteFinds, DeleteCannotFind,
     WriteStatus, ReportFailure, RemoveFinalizer, WritesBack, WriteFails,
     Environment, Crash, SyncCache, RequestDelete, CloudStep, Perish, CheckProvider,
     DeleteProvider, LoseCredentials, LoseSecret, Repair, kube

(* Nothing of what is promised changes.                                    *)
SeenAsBefore ==
  object'.exists = object.exists /\ object'.deleting = object.deleting

LEMMA NeverExcused == Excused => Kept
BY DEF Excused, Kept

(* The status is written with the id that it had.                          *)
LEMMA StatusIsOfTheSame ==
  ASSUME PInv, workFresh, WriteStatus, object.id \in Live, ~Excused
  PROVE  target = object.id
BY DEF WriteStatus, PInv, SyncsTheSame, Attending

(* The object goes when what it has recorded is gone.                      *)
LEMMA GoesWithNothing ==
  ASSUME PInv, workFresh, RemoveFinalizer, ~Excused
  PROVE  object.id \notin Live
BY DEF RemoveFinalizer, PInv, DeletesTheSame, Attending

LEMMA WritesKeepPromise ==
  ASSUME PInv, Next, object' # object
  PROVE  Promise!Next \/ UNCHANGED Promise!vars
<1>1. object \in ObjectType /\ target \in Ids \cup {None} /\ (workFresh => work = object)
  BY DEF PInv, IInv, TypeOK, KubeOK, LocalOK, Latest
<1>2. /\ Kept' = Kept /\ Live' = Live
      /\ \/ workFresh /\ (AddFinalizer \/ WriteStatus \/ ReportFailure \/ RemoveFinalizer)
         \/ RequestDelete
  BY SpecStays, Constancy, OnlyTheseWrite DEF Live, Alive
<1>3. CASE workFresh /\ (AddFinalizer \/ ReportFailure)
  <2>1. SeenAsBefore /\ object'.id = object.id
    BY <1>1, <1>3 DEF AddFinalizer, ReportFailure, WritesBack, SeenAsBefore, ObjectType
  <2> QED BY <1>2, <2>1 DEF SeenAsBefore, Promise!vars
<1>4. CASE workFresh /\ WriteStatus
  <2>1. SeenAsBefore /\ object'.id = target /\ object.exists
    BY <1>1, <1>4 DEF WriteStatus, WritesBack, SeenAsBefore, ObjectType, PInv, Attending
  <2>2. ~Kept /\ object.id \in Live => target = object.id
    BY <1>1, <1>4, StatusIsOfTheSame, NeverExcused
  <2>3. Promise!LetGo
    BY <2>1, <2>2 DEF Promise!LetGo
  <2>4. Promise!Record
    BY <1>2, <2>1, <2>3 DEF SeenAsBefore, Promise!Record
  <2> QED BY <2>4 DEF Promise!Next
<1>5. CASE workFresh /\ RemoveFinalizer
  <2>1. ~object'.exists /\ object'.id = None
    BY <1>5 DEF RemoveFinalizer, WritesBack, Gone, Object
  <2>2. object.exists /\ object.deleting
    BY <1>1, <1>5 DEF RemoveFinalizer, PInv, Attending
  <2>3. ~Kept => object.id \notin Live
    BY <1>5, GoesWithNothing, NeverExcused
  <2>4. Promise!LetGo
    BY <2>3 DEF Promise!LetGo
  <2>5. Promise!Go
    BY <1>2, <2>1, <2>2, <2>4 DEF Promise!Go
  <2> QED BY <2>5 DEF Promise!Next
<1>6. CASE RequestDelete /\ object.finalizer
  <2>1. /\ object.exists /\ ~object.deleting
        /\ object'.exists /\ object'.deleting /\ object'.id = object.id
    BY <1>1, <1>6 DEF RequestDelete, ObjectType
  <2>2. Promise!Mark
    BY <1>2, <2>1 DEF Promise!Mark
  <2> QED BY <2>2 DEF Promise!Next
<1>7. CASE RequestDelete /\ ~object.finalizer
  <2>1. object.exists /\ ~object'.exists /\ object'.id = None
    BY <1>7 DEF RequestDelete, Gone, Object
  <2>2. object.id = None
    BY <1>7 DEF PInv, Recording
  <2>3. Promise!Go
    BY <1>2, <2>1, <2>2 DEF Promise!Go, Promise!LetGo
  <2> QED BY <2>3 DEF Promise!Next
<1> QED BY <1>2, <1>3, <1>4, <1>5, <1>6, <1>7

LEMMA StepKeepsPromise ==
  PInv /\ [Next]_vars => [Promise!Next \/ Promise!Perish]_(Promise!vars)
<1> SUFFICES ASSUME PInv, [Next]_vars
             PROVE  Promise!Next \/ Promise!Perish \/ UNCHANGED Promise!vars
  OBVIOUS
<1>1. CASE UNCHANGED vars
  BY <1>1, Constancy DEF vars, Promise!vars, Live, Alive
<1>2. CASE Next /\ object' = object
  BY <1>2, ResourcesComeAndGo DEF Promise!Next
<1>3. CASE Next /\ object' # object
  BY <1>3, WritesKeepPromise
<1> QED BY <1>1, <1>2, <1>3

LEMMA PromiseAtFirst == Init => Promise!Init
<1> SUFFICES ASSUME Init PROVE Promise!Init
  OBVIOUS
<1>1. object.exists /\ ~object.deleting /\ object.id = None
  BY DEF Init, Created, Object
<1>2. Kept \in BOOLEAN
  BY DEF Kept, Keeps, Forgetful
<1> QED BY <1>1, <1>2 DEF Promise!Init

(* The resource controllers refine Lifecycle, whatever goes wrong, and for *)
(* every catalogue whose kinds know their resources apart.                 *)
THEOREM ResourcePromiseKept == Spec => KeepsPromise
BY StepKeepsPromise, PromiseAtFirst, PromiseInvariant, PTL DEF Spec, KeepsPromise, Promise!SharedSpec

-----------------------------------------------------------------------------
(* What lives stays recorded as long as nothing goes wrong.                *)
LEMMA NothingIsForgotten ==
  ASSUME PInv, Next, object.id \in Live, object'.id # object.id
  PROVE  object.id \notin Live' \/ Keeps \/ faults > 0
<1>1. object \in ObjectType
  BY DEF PInv, IInv, TypeOK, KubeOK
<1>2. /\ \/ AddFinalizer \/ WriteStatus \/ ReportFailure \/ RemoveFinalizer \/ RequestDelete
      /\ workFresh \/ RequestDelete
  BY OnlyTheseWrite
<1>3. ~AddFinalizer /\ ~ReportFailure
  BY <1>1 DEF AddFinalizer, ReportFailure, WritesBack, ObjectType
<1>4. CASE workFresh /\ WriteStatus
  <2>1. object'.id = target
    BY <1>1, <1>4 DEF WriteStatus, WritesBack, ObjectType
  <2> QED BY <1>4, <2>1, StatusIsOfTheSame DEF Excused
<1>5. CASE workFresh /\ RemoveFinalizer
  BY <1>5, GoesWithNothing DEF Excused
<1>6. CASE RequestDelete
  <2>1. ~object.finalizer
    BY <1>1, <1>6 DEF RequestDelete, ObjectType
  <2> QED BY <2>1, Numbers DEF PInv, Recording
<1> QED BY <1>2, <1>3, <1>4, <1>5, <1>6

(* Nothing that lives drops out of the status, or is recorded when the     *)
(* object goes, unless it is to be kept or something has gone wrong: for   *)
(* every kind, also those that take errors for answers.                    *)
THEOREM NothingLeftBehind == Spec => NothingForgotten
<1>1. PInv /\ [Next]_vars =>
        [object.id \in Live /\ object'.id # object.id =>
           object.id \notin Live' \/ Keeps \/ faults > 0]_vars
  BY NothingIsForgotten
<1> QED BY <1>1, PromiseInvariant, PTL DEF Spec, NothingForgotten

-----------------------------------------------------------------------------
(* As long as nothing goes wrong.                                          *)

(* Nothing goes wrong, and nothing has gone wrong.                         *)
LEMMA Quiet ==
  ASSUME IInv, Trusted, Next, faults' = 0
  PROVE  /\ faults = 0 /\ faults' = faults /\ ~Fault /\ ~Broken
         /\ ReadObject => cacheFresh
<1>1. faults = 0
  BY FaultsGrow
<1> QED BY <1>1, BrokenCounts DEF Fault, ReadObject

(* A deletion is not taken back.                                           *)
LEMMA EndingStays ==
  ASSUME PInv, Next, Ending
  PROVE  Ending'
<1>1. object \in ObjectType /\ (workFresh => work = object)
  BY DEF PInv, IInv, TypeOK, KubeOK, Latest
<1>2. CASE object' = object
  BY <1>2 DEF Ending
<1>3. CASE RemoveFinalizer /\ object' # object
  BY <1>3, GoneFacts DEF RemoveFinalizer, WritesBack, Ending
<1>4. CASE AddFinalizer \/ WriteStatus \/ ReportFailure
  <2>1. object'.deleting = object.deleting /\ object'.exists = object.exists
    BY <1>1, <1>4 DEF AddFinalizer, WriteStatus, ReportFailure, WritesBack, ObjectType
  <2> QED BY <2>1 DEF Ending
<1>5. CASE RequestDelete
  BY <1>1, <1>5, GoneFacts DEF RequestDelete, Ending, ObjectType
<1> QED BY <1>2, <1>3, <1>4, <1>5, OnlyTheseWrite

LEMMA LivingAreMade == Live \subseteq Made /\ Made \subseteq Ids
BY DEF Live, Alive, Made, Unused

(* Only a creation makes.                                                  *)
LEMMA MadeStays ==
  ASSUME IInv, Next, ~(CreateResource /\ ~UNCHANGED cloud)
  PROVE  Made' = Made
<1>1. CloudOK
  BY DEF IInv, TypeOK
<1>2. CASE UNCHANGED cloud
  BY <1>2 DEF Made, Unused
<1>3. CASE Changes
  <2>1. PICK i \in Ids : \E new : Ages(i, new)
    BY <1>3 DEF Changes
  <2>2. PICK new : Ages(i, new)
    BY <2>1
  <2>3. /\ cloud'[i] = new /\ \A j \in Ids \ {i} : cloud'[j] = cloud[j]
        /\ cloud[i].state # "none" /\ new.state # "none" /\ new.spare = cloud[i].spare
    BY <1>1, <2>2 DEF Ages, CloudOK
  <2> QED BY <2>3 DEF Made, Unused
<1>4. CASE AllocateSpare
  <2>1. PICK i \in Fresh : cloud' = [cloud EXCEPT ![i] = Resource("available", {}, TRUE)]
    BY <1>4 DEF AllocateSpare
  <2>2. /\ i \in Unused /\ cloud'[i].spare /\ \A j \in Ids \ {i} : cloud'[j] = cloud[j]
    BY <1>1, <2>1 DEF CloudOK, Resource, Fresh, Unused
  <2> QED BY <2>2 DEF Made, Unused
<1> QED BY <1>2, <1>3, <1>4, CloudChanges

(* What lives goes on living, but for what a deletion deletes.             *)
LEMMA DeletionsDelete ==
  ASSUME IInv, Next, faults' = faults, ~(Live \subseteq Live')
  PROVE  pc = "run" /\ work.deleting /\ Ending /\ Script
<1>1. Script /\ pc = "run" /\ Does(todo, "remove")
  BY OnlyRemovalsDelete, OthersDeleteNothing
<1> QED BY <1>1, IInvLocal DEF LocalInv, Removing, Ending

(* A creation is the first one.                                            *)
LEMMA CreatesTheFirst ==
  ASSUME MInv, CreateResource, ~UNCHANGED cloud, faults = 0
  PROVE  Made = {} /\ ~work.deleting
<1>1. pc = "run" /\ Does(todo, "make")
  BY UnderWay DEF CreateResource, Running, MInv
<1>2. ~work.deleting
  BY <1>1 DEF MInv, PInv, InOrder
<1>3. CASE Theirs.twins = "another"
  BY <1>1, <1>2, <1>3 DEF MInv, Undisturbed, Remembered
<1>4. CASE Theirs.twins # "another"
  <2>1. Twins = {}
    BY <1>4 DEF CreateResource
  <2>2. Made \subseteq Live
    BY <1>1, <1>2 DEF MInv, Undisturbed, Over
  <2> QED BY <1>2, <2>1, <2>2, LivingAreTwins
<1> QED BY <1>2, <1>3, <1>4

(* A step of a script goes on with the script, or fails.                   *)
LEMMA ScriptRuns == Script => pc = "run" /\ UNCHANGED <<config, object, cache>>
BY DEF Script, CreateResource, CreateRefused, AllocateSpare, AllocateRefused, Configure,
   ConfigureRefused, NothingToMend, TakeAway, TakeAwayRefused, LookUp, LookUpRefused,
   PlainCall, Delete, DeleteRefused, NotImplemented, CallFails, Refused, Remains, Running, kube

LEMMA ScriptEnds ==
  Script => \/ CreateResource
            \/ Proceed /\ target' = target
            \/ Fails
BY DEF Script, CreateRefused, AllocateSpare, AllocateRefused, Configure,
   ConfigureRefused, NothingToMend, TakeAway, TakeAwayRefused, LookUp, LookUpRefused,
   PlainCall, Delete, DeleteRefused, NotImplemented, CallFails, Refused, StepFails

(* Either way Reconcile is what it was, or ends.                           *)
LEMMA ScriptGoesOnOrEnds ==
  ASSUME Script
  PROVE  \/ Proceed
         \/ /\ pc' \in {"idle", "report"}
            /\ Return \/ UNCHANGED <<work, workFresh>>
BY ScriptEnds DEF CreateResource, Fails, SyncFails, Return

(* Only the user overtakes a reconcile.                                    *)
LEMMA OvertakenStays ==
  ASSUME MInv, Next, faults' = 0
  PROVE  Overtaken'
<1>1. PInv /\ Overtaken /\ (ReadObject => cacheFresh)
  BY Quiet DEF MInv, Undisturbed, PInv
<1>2. Ending => Ending'
  BY <1>1, EndingStays
<1>3. CASE Return
  BY <1>3 DEF Return, Overtaken
<1>4. CASE pc # "idle" /\ UNCHANGED workFresh
  BY <1>1, <1>2, <1>4 DEF Overtaken
<1>5. CASE ProviderNotUsable \/ BeginSync \/ BeginDeletion
  BY <1>1, <1>5 DEF ProviderNotUsable, BeginSync, BeginDeletion, ReadObject, Overtaken
<1>6. CASE RequestDelete
  <2>1. Ending'
    BY <1>1, <1>6, GoneFacts DEF RequestDelete, Ending, PInv, IInv, TypeOK, KubeOK, ObjectType
  <2> QED BY <2>1 DEF Overtaken
<1>7. CASE Environment /\ ~RequestDelete
  <2>1. Return \/ UNCHANGED <<pc, workFresh>>
    BY <1>7 DEF Environment, Crash, SyncCache, CloudStep, Perish, CheckProvider,
       DeleteProvider, LoseCredentials, LoseSecret, Repair, local
  <2> QED BY <1>1, <1>2, <1>3, <2>1 DEF Overtaken
<1>8. CASE Script
  <2>1. pc # "idle"
    BY <1>8, ScriptRuns
  <2>2. Return \/ UNCHANGED workFresh
    BY <1>8, ScriptGoesOnOrEnds DEF Proceed, Continue
  <2> QED BY <1>3, <1>4, <2>1, <2>2
<1>9. CASE Reconcile /\ ~Script /\ ~ProviderNotUsable /\ ~BeginSync /\ ~BeginDeletion
  <2>1. pc # "idle" /\ (Return \/ UNCHANGED workFresh)
    BY <1>9 DEF Reconcile, AddFinalizer, SyncWithoutSecret, SyncInvalid, SyncFinds, SyncCannotFind,
     SyncAsksInVain, SyncSearches,
       DeleteFinds, DeleteCannotFind, WriteStatus, ReportFailure, RemoveFinalizer, WritesBack,
       WriteFails, Syncing, Deleting, SyncFails, Absent, Continue
  <2> QED BY <1>3, <1>4, <2>1
<1> QED BY <1>5, <1>6, <1>7, <1>8, <1>9 DEF Next

(* After a deletion there is no sync.                                      *)
LEMMA OverStays ==
  ASSUME MInv, Next, faults' = 0, Made' = Made
  PROVE  Over'
<1>1. PInv /\ IInv /\ Over /\ faults' = faults /\ (ReadObject => cacheFresh)
  BY Quiet DEF MInv, Undisturbed, PInv
<1>2. CASE Made \subseteq Live /\ Live \subseteq Live'
  BY <1>2 DEF Over
<1> DEFINE Late == Ending /\ (pc \in {"idle", "report"} \/ work.deleting)
<1>3. Late => Late'
  <2>1. SUFFICES ASSUME Late PROVE Late'
    OBVIOUS
  <2>2. Ending'
    BY <1>1, <2>1, EndingStays
  <2>3. CASE pc' \in {"idle", "report"}
    BY <2>2, <2>3
  <2>4. CASE BeginSync
    BY <1>1, <2>1, <2>4 DEF BeginSync, PInv, IInv, Latest, Ending
  <2>5. CASE BeginDeletion
    BY <2>2, <2>5 DEF BeginDeletion, ReadObject
  <2>6. CASE UNCHANGED <<pc, work>>
    BY <2>1, <2>2, <2>6
  <2>7. CASE pc \notin {"idle", "report"} /\ work'.deleting = work.deleting
    BY <2>1, <2>2, <2>7
  <2>8. CASE Script
    BY <2>3, <2>7, <2>8, ScriptGoesOnOrEnds, ScriptRuns DEF Proceed, Continue
  <2>9. CASE AddFinalizer
    BY <1>1, <2>3, <2>7, <2>9
    DEF AddFinalizer, Return, IInv, TypeOK, LocalOK, ObjectType
  <2>10. CASE Reconcile /\ ~Script /\ ~AddFinalizer /\ ~BeginSync /\ ~BeginDeletion
    BY <2>3, <2>7, <2>10
    DEF Reconcile, ProviderNotUsable, SyncWithoutSecret, SyncInvalid, SyncFinds, SyncCannotFind,
     SyncAsksInVain, SyncSearches,
       DeleteFinds, DeleteCannotFind, WriteStatus, ReportFailure, RemoveFinalizer, WritesBack,
       WriteFails, Syncing, Deleting, SyncFails, Absent, Continue, Return
  <2>11. CASE Environment
    BY <2>3, <2>6, <2>11
    DEF Environment, Crash, SyncCache, RequestDelete, CloudStep, Perish, CheckProvider,
       DeleteProvider, LoseCredentials, LoseSecret, Repair, local, Return
  <2> HIDE DEF Late
  <2> QED BY <2>4, <2>5, <2>8, <2>9, <2>10, <2>11 DEF Next, Reconcile
<1>4. CASE ~(Live \subseteq Live')
  <2>1. Late
    BY <1>1, <1>4, DeletionsDelete
  <2> QED BY <1>3, <2>1 DEF Over
<1> QED BY <1>1, <1>2, <1>3, <1>4 DEF Over

-----------------------------------------------------------------------------
(* What was made is remembered.                                            *)

(* The one that was made lives, as long as a sync is under way.            *)
LEMMA SyncsFindItAlive ==
  ASSUME MInv, faults = 0, NEW i \in Made, pc \in {"find", "run", "status"}, ~work.deleting
  PROVE  i \in Live /\ Live \ {i} = {}
<1>1. Made \subseteq Live /\ \A j \in Made : i = j
  BY DEF MInv, Undisturbed, Over
<1> QED BY <1>1, LivingAreMade

(* After a creation nothing is refused, and nothing fails.                 *)
LEMMA DeliveryGoesOn ==
  ASSUME MInv, Next, Script, faults' = 0, NEW i \in Made, Delivering(i)
  PROVE  Proceed /\ target' = target
<1>1. IInv /\ faults = 0 /\ ~Broken /\ pc = "run"
  BY Quiet, ScriptRuns DEF MInv, PInv
<1>2. todo \in Scripts /\ todo # <<>>
  BY <1>1, RunFacts
<1>3. Certain(Head(todo))
  BY <1>2, OrderFacts DEF Delivering
<1>4. target = i /\ target \in Live /\ Live \ {target} = {} /\ target \in Ids
  BY <1>1, SyncsFindItAlive DEF Delivering, Live
<1>5. Free /\ Described(target)
  BY <1>4 DEF Free, Described, Live
<1>6. CASE Head(todo).on = "ignored"
  <2>1. ~CreateResource
    BY <1>3 DEF CreateResource, Running, Certain
  <2> QED BY <1>6, <2>1 DEF Script, CreateRefused, AllocateSpare, AllocateRefused, Configure,
        ConfigureRefused, NothingToMend, TakeAway, TakeAwayRefused, LookUp, LookUpRefused,
        PlainCall, Delete, DeleteRefused, NotImplemented, CallFails, Refused, StepFails
<1>7. CASE Head(todo).on # "ignored"
  <2>1. Head(todo).op \in {"set", "mend", "look", "call"}
    BY <1>3, <1>7 DEF Certain
  <2>2. Configure \/ NothingToMend \/ LookUp \/ PlainCall
    BY <1>1, <1>4, <1>5, <2>1
    DEF Script, CreateResource, CreateRefused, AllocateSpare, AllocateRefused,
       ConfigureRefused, TakeAway, TakeAwayRefused, LookUpRefused,
       Delete, DeleteRefused, NotImplemented, CallFails, Running
  <2> QED BY <2>2 DEF Configure, NothingToMend, LookUp, PlainCall
<1> QED BY <1>6, <1>7

(* Whatever ends a reconcile that does not deliver.                        *)
LEMMA EndsRemembering ==
  ASSUME MInv, Next, NEW i \in Made, pc' \in {"idle", "report"}, object' = object,
         Ending \/ object.id = i
  PROVE  Remembered(i)'
BY DEF Remembered, Ending

(* A reconcile begins.                                                     *)
LEMMA BeginRemembers ==
  ASSUME MInv, Next, faults' = 0, NEW i \in Made, Remembered(i),
         ProviderNotUsable \/ BeginSync \/ BeginDeletion
  PROVE  Remembered(i)'
<1>1. PInv /\ IInv /\ cacheFresh /\ cache = object
  BY Quiet DEF MInv, PInv, IInv, Latest, ProviderNotUsable, BeginSync, BeginDeletion
<1>2. /\ pc = "idle" /\ object' = object /\ work' = cache /\ cache.exists
      /\ pc' \in {"report", "finalizer", "find"}
      /\ BeginSync => ~cache.deleting
      /\ BeginDeletion => cache.deleting
      /\ ProviderNotUsable => pc' = "report"
  BY DEF ProviderNotUsable, BeginSync, BeginDeletion, ReadObject
<1>3. Ending \/ object.id = i
  BY <1>2 DEF Remembered, Delivering
<1> QED BY <1>1, <1>2, <1>3 DEF Remembered, Ending

(* The sync looks, and finds it.                                           *)
LEMMA FindsWhatWasMade ==
  ASSUME MInv, Next, faults' = 0, Theirs.twins = "another", NEW i \in Made, Remembered(i), SyncFinds
  PROVE  Remembered(i)'
<1>1. PInv /\ TypeOK /\ OneOfAName /\ faults = 0 /\ ~Broken /\ None \notin Unused
  BY Quiet, Numbers DEF MInv, PInv, IInv
<1>2. pc = "find" /\ ~work.deleting /\ object' = object /\ work.id = i
  BY DEF SyncFinds, Syncing, kube, Remembered
<1>3. Ending \/ object.id = i
  BY <1>2 DEF Remembered, Delivering
<1>4. work.id \in Live
  BY <1>1, <1>2, SyncsFindItAlive
<1>5. Found(Ours.sync.find, work) # {} /\ \A j \in Found(Ours.sync.find, work) : j = i
  BY <1>1, <1>2, <1>4, MissesTheSame, FindsTheSame, LookupFacts, IdentityFacts
<1>6. CASE SyncFails
  BY <1>3, <1>2, <1>6, EndsRemembering DEF SyncFails, Return
<1>7. CASE target' = i /\ Continue(Ours.sync.found)
  <2>1. ~Does(Ours.sync.found, "make")
    BY <1>1, IdentityFacts
  <2> QED BY <1>2, <1>3, <1>7, <2>1 DEF Continue, Remembered, Ending
<1> QED BY <1>5, <1>6, <1>7 DEF SyncFinds

(* A step of the script.                                                   *)
LEMMA ScriptRemembers ==
  ASSUME MInv, Next, faults' = 0, Theirs.twins = "another", NEW i \in Made, Remembered(i), Script
  PROVE  Remembered(i)'
<1>1. IInv /\ pc = "run" /\ object' = object /\ todo \in Scripts /\ todo # <<>>
  BY ScriptRuns, RunFacts DEF MInv, PInv
<1>2. ~CreateResource
  <2>1. CreateResource => Does(todo, "make")
    BY <1>1, ScriptFacts DEF CreateResource, Running
  <2> QED BY <1>1, <2>1 DEF MInv, PInv, InOrder, Remembered
<1>3. CASE Proceed /\ target' = target
  <2>1. /\ todo' = Tail(todo) /\ UNCHANGED <<work, workFresh>>
        /\ pc' \in {"run", "status", "release"}
        /\ ~work.deleting => pc' \in {"run", "status"}
    BY <1>3 DEF Proceed, Continue
  <2>2. Does(Tail(todo), "make") => Does(todo, "make")
    BY <1>1, ScriptFacts
  <2>3. Delivering(i) => Delivering(i)'
    BY <1>1, <1>3, <2>1, OrderFacts DEF Delivering
  <2>4. Ending' = Ending
    BY <1>1 DEF Ending
  <2> QED BY <1>1, <1>3, <2>1, <2>2, <2>3, <2>4 DEF Remembered
<1>4. CASE Fails
  <2>1. pc' \in {"idle", "report"}
    BY <1>4 DEF Fails, SyncFails, Return
  <2>2. ~Delivering(i)
    <3>1. ~Proceed
      BY <2>1 DEF Proceed, Continue
    <3> QED BY <3>1, DeliveryGoesOn
  <2> QED BY <1>1, <2>1, <2>2, EndsRemembering DEF Remembered
<1> QED BY <1>2, <1>3, <1>4, ScriptEnds

(* The end of Reconcile.                                                   *)
LEMMA EndRemembers ==
  ASSUME MInv, Next, faults' = 0, NEW i \in Made, Remembered(i),
         WriteStatus \/ ReportFailure \/ RemoveFinalizer
  PROVE  Remembered(i)'
<1>1. PInv /\ object \in ObjectType /\ pc' = "idle" /\ (Ending => Ending')
  BY EndingStays
  DEF MInv, PInv, IInv, TypeOK, KubeOK, WriteStatus, ReportFailure, RemoveFinalizer, WritesBack,
     Return
<1>2. CASE ~workFresh
  BY <1>1, <1>2, EndsRemembering
  DEF WriteStatus, ReportFailure, RemoveFinalizer, WritesBack, Remembered, Delivering
<1>3. CASE workFresh /\ WriteStatus
  <2>1. object'.id = target
    BY <1>1, <1>3 DEF WriteStatus, WritesBack, ObjectType
  <2>2. target = i
    BY <1>1, <1>3 DEF WriteStatus, Remembered, PInv, Attending
  <2> QED BY <1>1, <2>1, <2>2 DEF Remembered
<1>4. CASE workFresh /\ ReportFailure
  <2>1. object'.id = object.id
    BY <1>1, <1>4 DEF ReportFailure, WritesBack, ObjectType
  <2>2. Ending \/ object.id = i
    BY <1>4 DEF ReportFailure, Remembered, Delivering
  <2> QED BY <1>1, <2>1, <2>2 DEF Remembered
<1>5. CASE workFresh /\ RemoveFinalizer
  <2>1. Ending'
    BY <1>5, GoneFacts DEF RemoveFinalizer, WritesBack, Ending
  <2> QED BY <1>1, <2>1 DEF Remembered
<1> QED BY <1>2, <1>3, <1>4, <1>5

LEMMA AddFinalizerRemembers ==
  ASSUME MInv, Next, NEW i \in Made, Remembered(i), AddFinalizer
  PROVE  Remembered(i)'
<1>1. /\ pc = "finalizer" /\ object \in ObjectType /\ work \in ObjectType /\ (Ending => Ending')
  BY EndingStays DEF MInv, PInv, IInv, TypeOK, KubeOK, LocalOK, AddFinalizer
<1>2. Ending \/ object.id = i
  BY <1>1 DEF Remembered, Delivering
<1>3. CASE workFresh
  <2>1. object'.id = object.id /\ work'.id = work.id /\ work'.deleting = work.deleting /\ pc' = "find"
    BY <1>1, <1>3 DEF AddFinalizer, ObjectType
  <2> QED BY <1>1, <1>2, <2>1 DEF Remembered
<1>4. CASE ~workFresh
  BY <1>2, <1>4, EndsRemembering DEF AddFinalizer, Return
<1> QED BY <1>3, <1>4

LEMMA RememberedStays ==
  ASSUME MInv, Next, faults' = 0, Theirs.twins = "another", NEW i \in Made, Remembered(i)
  PROVE  Remembered(i)'
<1>1. PInv /\ faults = 0 /\ ~Fault /\ ~Broken
  BY Quiet DEF MInv, PInv
<1>2. CASE SyncWithoutSecret \/ SyncInvalid \/ SyncAsksInVain
  BY <1>2, EndsRemembering
  DEF SyncWithoutSecret, SyncInvalid, SyncAsksInVain, Syncing, SyncFails, Return, kube, Remembered, Delivering
<1>3. CASE DeleteFinds
  <2>1. pc = "find" /\ work.deleting /\ object' = object
    BY <1>3 DEF DeleteFinds, Deleting, kube
  <2>2. \/ pc' = "idle"
        \/ pc' \in {"run", "release"} /\ work' = work
    BY <1>3, <2>1 DEF DeleteFinds, Return, Continue
  <2> QED BY <2>1, <2>2 DEF Remembered, Delivering, Ending
<1>4. CASE RequestDelete
  <2>1. Ending'
    BY <1>1, <1>4, GoneFacts DEF RequestDelete, Ending, PInv, IInv, TypeOK, KubeOK, ObjectType
  <2> QED BY <1>4, <2>1 DEF RequestDelete, Remembered
<1>5. CASE Environment /\ ~RequestDelete
  <2>1. UNCHANGED <<object, local>>
    BY <1>1, <1>5 DEF Environment, Crash, SyncCache, CloudStep, Perish, CheckProvider,
       DeleteProvider, LoseCredentials, LoseSecret, Repair, kube
  <2> QED BY <2>1 DEF local, Remembered, Delivering, Ending
<1>6. ~SyncCannotFind /\ ~SyncSearches /\ ~DeleteCannotFind /\ ~WriteFails
  BY <1>1 DEF SyncCannotFind, SyncSearches, DeleteCannotFind, WriteFails
<1> QED
  BY <1>2, <1>3, <1>4, <1>5, <1>6, BeginRemembers, FindsWhatWasMade, ScriptRemembers, EndRemembers,
     AddFinalizerRemembers
  DEF Next, Reconcile

(* A resource is made.                                                     *)
LEMMA CreationKeeps ==
  ASSUME MInv, Next, faults' = 0, CreateResource, ~UNCHANGED cloud
  PROVE  Undisturbed'
<1>1. /\ PInv /\ IInv /\ faults = 0 /\ Made = {} /\ ~work.deleting /\ Theirs' = Theirs
      /\ CloudOK /\ todo \in Scripts /\ todo # <<>> /\ Head(todo).op = "make" /\ pc = "run"
  BY Quiet, CreatesTheFirst, SpecStays, Constancy, RunFacts
  DEF MInv, PInv, IInv, TypeOK, CreateResource, Running
<1>2. PICK i \in Fresh : /\ target' = i
                         /\ cloud' = [cloud EXCEPT ![i] = Resource(Initially, Parts, FALSE)]
  BY DEF CreateResource
<1>3. /\ i \in Ids /\ \A j \in Ids \ {i} : cloud'[j] = cloud[j]
      /\ cloud'[i].state \in {"pending", "available"} /\ ~cloud'[i].spare
  BY <1>1, <1>2, InitialStates DEF Fresh, Unused, CloudOK, Resource
<1>4. Made' = {i} /\ Live' = {i}
  BY <1>1, <1>3, LivingAreMade DEF Made, Unused, Live, Alive
<1>5. Overtaken'
  BY OvertakenStays
<1>6. ASSUME Theirs.twins = "another"
      PROVE  Remembered(i)'
  <2>1. /\ todo' = Tail(todo) /\ UNCHANGED <<work, workFresh>> /\ pc' \in {"run", "status"}
    BY <1>1 DEF CreateResource, Proceed, Continue
  <2>2. \A k \in DOMAIN Tail(todo) : Certain(Tail(todo)[k])
    BY <1>1, <1>6, OrderFacts DEF PInv, InOrder
  <2>3. ~Does(Tail(todo), "make")
    BY <2>2, CertainMakesNothing
  <2>4. Ending' \/ Delivering(i)'
    BY <1>1, <1>2, <1>5, <2>1, <2>2 DEF Overtaken, Delivering
  <2> QED BY <1>1, <1>2, <2>1, <2>3, <2>4 DEF Remembered
<1> QED BY <1>1, <1>4, <1>5, <1>6 DEF Undisturbed, Over

LEMMA NextKeepsMInv == MInv /\ [Next]_vars => MInv'
<1> SUFFICES ASSUME MInv, [Next]_vars PROVE MInv'
  OBVIOUS
<1>1. PInv'
  BY NextKeepsPInv DEF MInv
<1>2. CASE Next
  <2>1. ASSUME faults' = 0
        PROVE  Undisturbed'
    <3>1. faults = 0 /\ Undisturbed /\ Theirs' = Theirs
      BY <1>2, <2>1, Quiet, SpecStays, Constancy DEF MInv, PInv
    <3>2. CASE CreateResource /\ ~UNCHANGED cloud
      BY <1>2, <2>1, <3>2, CreationKeeps
    <3>3. CASE ~(CreateResource /\ ~UNCHANGED cloud)
      <4>1. Made' = Made
        BY <1>2, <3>3, MadeStays DEF MInv, PInv
      <4>2. Overtaken' /\ Over'
        BY <1>2, <2>1, <4>1, OvertakenStays, OverStays
      <4>3. Theirs.twins = "another" => \A i \in Made : Remembered(i)'
        BY <1>2, <2>1, <3>1, RememberedStays DEF Undisturbed
      <4> QED BY <3>1, <4>1, <4>2, <4>3 DEF Undisturbed
    <3> QED BY <3>2, <3>3
  <2> QED BY <1>1, <2>1 DEF MInv
<1>3. CASE UNCHANGED vars
  BY <1>1, <1>3, Constancy
  DEF vars, MInv, Final, Does, Undisturbed, Overtaken, Over, Ending, Remembered, Delivering,
     Made, Unused, Live, Alive
<1> QED BY <1>2, <1>3

LEMMA InitEstablishesMInv == Init => MInv
<1> SUFFICES ASSUME Init PROVE MInv
  OBVIOUS
<1>1. Made = {}
  BY DEF Init, Made, Unused, Nothing, Resource
<1>2. Overtaken /\ Over
  BY <1>1 DEF Init, Overtaken, Over
<1> QED BY <1>1, <1>2, InitEstablishesPInv DEF MInv, Undisturbed

(* As long as nothing goes wrong one resource is all that an object ever   *)
(* gets, for every catalogue whose creations end with what AWS does not    *)
(* refuse: however the deletion, the writes and AWS interleave.            *)
THEOREM MadeOnce == Spec => []NothingMadeTwice
<1>1. MInv => NothingMadeTwice
  BY DEF MInv, Undisturbed, NothingMadeTwice
<1> QED BY <1>1, InitEstablishesMInv, NextKeepsMInv, PTL DEF Spec

-----------------------------------------------------------------------------
(* What is recorded is complete.                                           *)

LEMMA CompletionFacts ==
  ASSUME TypeOK
  PROVE  /\ \A script \in {Ours.sync.found, Ours.sync.absent} :
              ~Does(script, "drop") /\ ~Does(script, "clear")
         /\ ~Does(Ours.sync.found, "make")
         /\ \A k \in DOMAIN Ours.sync.absent : Ours.sync.absent[k].op = "make" =>
              /\ AtOnce(Ours.sync) \subseteq Ours.sync.absent[k].parts
              /\ Whole(Ours.sync) \subseteq AtOnce(Ours.sync) \cup After(Ours.sync.absent, k)
         /\ \/ Ours.sync.find.by \in {"record", "id"} /\ Theirs.twins # "same"
            \/ Whole(Ours.sync) \subseteq AtOnce(Ours.sync) \cup PartsOf(Ours.sync.found, {"set", "mend"})
<1>1. config.kind \in Kinds
  BY DEF TypeOK
<1>2. \A k \in DOMAIN Ours.sync.absent : Ours.sync.absent[k].op = "make" =>
        AtOnce(Ours.sync) \subseteq Ours.sync.absent[k].parts
  BY DEF AtOnce
<1> QED BY <1>1, <1>2, SyncAssumption, IdentityAssumption, CompletionAssumption DEF Ours, Theirs

(* What a step of a script gives, and what is left.                        *)
LEMMA PartsFacts ==
  ASSUME NEW script \in Scripts, script # <<>>
  PROVE  /\ \A part \in PartsOf(script, {"set", "mend"}) :
              \/ part \in PartsOf(Tail(script), {"set", "mend"})
              \/ /\ part \in Head(script).parts
                 /\ Head(script).op \in {"set", "mend"} /\ Head(script).on = "fails"
         /\ After(script, 1) \subseteq PartsOf(Tail(script), {"set", "mend"})
         /\ \A k \in DOMAIN Tail(script) :
              /\ k + 1 \in DOMAIN script /\ script[k + 1] = Tail(script)[k]
              /\ After(script, k + 1) \subseteq After(Tail(script), k)
         /\ 1 \in DOMAIN script /\ Head(script) = script[1]
<1>1. Len(script) \in Nat \ {0} /\ DOMAIN script = 1..Len(script) /\ Head(script) = script[1]
  BY EmptySeq, LenProperties DEF Scripts
<1>2. /\ DOMAIN Tail(script) = 1..(Len(script) - 1)
      /\ \A k \in 1..(Len(script) - 1) : Tail(script)[k] = script[k + 1]
  BY <1>1, HeadTailProperties, LenProperties DEF Scripts
<1>3. ASSUME NEW j \in DOMAIN script, j # 1
      PROVE  j - 1 \in DOMAIN Tail(script) /\ Tail(script)[j - 1] = script[j] /\ j \in Int
  <2>1. j - 1 \in 1..(Len(script) - 1) /\ (j - 1) + 1 = j
    BY <1>1, <1>3
  <2> QED BY <1>2, <2>1, <1>1
<1>4. ASSUME NEW part \in PartsOf(script, {"set", "mend"})
      PROVE  \/ part \in PartsOf(Tail(script), {"set", "mend"})
             \/ /\ part \in Head(script).parts
                /\ Head(script).op \in {"set", "mend"} /\ Head(script).on = "fails"
  <2>1. PICK j \in DOMAIN script : /\ script[j].op \in {"set", "mend"} /\ script[j].on = "fails"
                                   /\ part \in script[j].parts
    BY <1>4 DEF PartsOf
  <2>2. CASE j = 1
    BY <1>1, <2>1, <2>2
  <2>3. CASE j # 1
    <3>1. j - 1 \in DOMAIN Tail(script) /\ Tail(script)[j - 1] = script[j]
      BY <1>3, <2>3
    <3> QED BY <2>1, <3>1 DEF PartsOf
  <2> QED BY <2>2, <2>3
<1>5. After(script, 1) \subseteq PartsOf(Tail(script), {"set", "mend"})
  <2>1. SUFFICES ASSUME NEW part \in After(script, 1)
                 PROVE  part \in PartsOf(Tail(script), {"set", "mend"})
    OBVIOUS
  <2>2. PICK j \in DOMAIN script : /\ 1 < j /\ script[j].op \in {"set", "mend"}
                                   /\ script[j].on = "fails" /\ part \in script[j].parts
    BY <2>1 DEF After
  <2>3. j - 1 \in DOMAIN Tail(script) /\ Tail(script)[j - 1] = script[j]
    BY <1>1, <1>3, <2>2
  <2> QED BY <2>2, <2>3 DEF PartsOf
<1>6. ASSUME NEW k \in DOMAIN Tail(script)
      PROVE  /\ k + 1 \in DOMAIN script /\ script[k + 1] = Tail(script)[k]
             /\ After(script, k + 1) \subseteq After(Tail(script), k)
  <2>1. k \in Nat /\ k + 1 \in DOMAIN script /\ script[k + 1] = Tail(script)[k] /\ k >= 1
    BY <1>1, <1>2, <1>6
  <2>2. SUFFICES ASSUME NEW part \in After(script, k + 1)
                 PROVE  part \in After(Tail(script), k)
    BY <2>1
  <2>3. PICK j \in DOMAIN script : /\ k + 1 < j /\ script[j].op \in {"set", "mend"}
                                   /\ script[j].on = "fails" /\ part \in script[j].parts
    BY <2>2 DEF After
  <2>4. j \in Int /\ j # 1
    BY <1>1, <2>1, <2>3
  <2>5. j - 1 \in DOMAIN Tail(script) /\ Tail(script)[j - 1] = script[j] /\ k < j - 1
    BY <1>3, <2>1, <2>3, <2>4
  <2> QED BY <2>3, <2>5 DEF After
<1> QED BY <1>1, <1>4, <1>5, <1>6

LEMMA NothingLeft == PartsOf(<<>>, {"set", "mend"}) = {}
BY DEF PartsOf

LEMMA CompletesStays ==
  ASSUME IInv, Completes, Next
  PROVE  Completes'
<1>1. TypeOK /\ Ours' = Ours
  BY SpecStays, Constancy DEF IInv
<1>2. CASE todo' = todo /\ work'.deleting = work.deleting
  BY <1>1, <1>2 DEF Completes, Does, After
<1>3. CASE todo' = <<>>
  BY <1>3, EmptyScript DEF Completes
<1>4. CASE pc = "run" /\ todo' = Tail(todo) /\ work' = work
  <2>1. todo \in Scripts /\ todo # <<>>
    BY <1>4, RunFacts
  <2>2. \A op : Does(Tail(todo), op) => Does(todo, op)
    BY <2>1, ScriptFacts
  <2>3. \A k \in DOMAIN Tail(todo) :
          /\ k + 1 \in DOMAIN todo /\ todo[k + 1] = Tail(todo)[k]
          /\ After(todo, k + 1) \subseteq After(Tail(todo), k)
    BY <2>1, PartsFacts
  <2>4. SUFFICES ASSUME ~work.deleting
                 PROVE  \A k \in DOMAIN Tail(todo) : Tail(todo)[k].op = "make" =>
                          /\ AtOnce(Ours.sync) \subseteq Tail(todo)[k].parts
                          /\ Whole(Ours.sync) \subseteq AtOnce(Ours.sync) \cup After(Tail(todo), k)
    BY <1>1, <1>4, <2>2 DEF Completes
  <2>5. \A k \in DOMAIN todo : todo[k].op = "make" =>
          /\ AtOnce(Ours.sync) \subseteq todo[k].parts
          /\ Whole(Ours.sync) \subseteq AtOnce(Ours.sync) \cup After(todo, k)
    BY <2>4 DEF Completes
  <2> HIDE DEF Completes
  <2> QED
    <3>1. SUFFICES ASSUME NEW k \in DOMAIN Tail(todo), Tail(todo)[k].op = "make"
                   PROVE  /\ AtOnce(Ours.sync) \subseteq Tail(todo)[k].parts
                          /\ Whole(Ours.sync) \subseteq AtOnce(Ours.sync) \cup After(Tail(todo), k)
      OBVIOUS
    <3>2. /\ k + 1 \in DOMAIN todo /\ todo[k + 1] = Tail(todo)[k]
          /\ After(todo, k + 1) \subseteq After(Tail(todo), k)
      BY <2>3, <3>1
    <3> QED BY <2>5, <3>1, <3>2
<1>5. CASE ~work.deleting /\ todo' \in {Ours.sync.found, Ours.sync.absent} /\ work' = work
  <2>1. \A k \in DOMAIN Ours.sync.found : Ours.sync.found[k].op # "make"
    BY <1>1, CompletionFacts DEF Does
  <2> QED BY <1>1, <1>5, <2>1, CompletionFacts DEF Completes
<1>6. CASE work.deleting /\ work' = work
  BY <1>6 DEF Completes
<1> QED BY <1>2, <1>3, <1>4, <1>5, <1>6, TodoChanges

(* Only the user overtakes a reconcile that is up to date.                 *)
LEMMA UpToDate ==
  ASSUME PInv, pc # "idle", workFresh, ~work.deleting
  PROVE  ~Ending
BY DEF PInv, IInv, Latest, Attending, Ending

(* A sync takes nothing away.                                              *)
LEMMA PartsStay ==
  ASSUME IInv, Completes, Next, ~Ending
  PROVE  /\ \A i \in Live \cap Live' : cloud[i].parts \subseteq cloud'[i].parts
         /\ \A i \in Live' \ Live : CreateResource /\ target' = i /\ cloud'[i].parts = Parts
<1>1. CloudOK
  BY DEF IInv, TypeOK
<1>2. CASE UNCHANGED cloud
  BY <1>2 DEF Live, Alive
<1>3. CASE CreateResource /\ ~UNCHANGED cloud
  <2>1. PICK i \in Fresh : /\ target' = i
                           /\ cloud' = [cloud EXCEPT ![i] = Resource(Initially, Parts, FALSE)]
    BY <1>3 DEF CreateResource
  <2>2. /\ i \in Unused /\ i \notin Live /\ \A j \in Ids \ {i} : cloud'[j] = cloud[j]
        /\ cloud'[i].parts = Parts
    BY <1>1, <2>1 DEF Fresh, Unused, Live, Alive, CloudOK, Resource
  <2> QED BY <1>3, <2>1, <2>2 DEF Live, Alive
<1>4. CASE AllocateSpare
  <2>1. PICK i \in Fresh : cloud' = [cloud EXCEPT ![i] = Resource("available", {}, TRUE)]
    BY <1>4 DEF AllocateSpare
  <2>2. /\ i \in Unused /\ i \notin Live /\ \A j \in Ids \ {i} : cloud'[j] = cloud[j]
        /\ cloud'[i].spare
    BY <1>1, <2>1 DEF Fresh, Unused, Live, Alive, CloudOK, Resource
  <2> QED BY <2>2 DEF Live, Alive
<1>5. CASE \E i \in Ids : \E parts, st :
             /\ cloud' = [cloud EXCEPT ![i] = [cloud[i] EXCEPT !.parts = parts, !.state = st]]
             /\ cloud[i].parts \subseteq parts
             /\ st \in {"pending", "available"} => Alive(i)
  <2>1. PICK i \in Ids : \E parts, st :
             /\ cloud' = [cloud EXCEPT ![i] = [cloud[i] EXCEPT !.parts = parts, !.state = st]]
             /\ cloud[i].parts \subseteq parts
             /\ st \in {"pending", "available"} => Alive(i)
    BY <1>5
  <2>2. PICK parts, st :
             /\ cloud' = [cloud EXCEPT ![i] = [cloud[i] EXCEPT !.parts = parts, !.state = st]]
             /\ cloud[i].parts \subseteq parts
             /\ st \in {"pending", "available"} => Alive(i)
    BY <2>1
  <2>3. /\ \A j \in Ids \ {i} : cloud'[j] = cloud[j]
        /\ cloud'[i].parts = parts /\ cloud'[i].state = st /\ cloud'[i].spare = cloud[i].spare
    BY <1>1, <2>2 DEF CloudOK
  <2> QED BY <2>2, <2>3 DEF Live, Alive
<1>6. CASE Configure
  <2>1. PICK i \in Live : cloud' = [cloud EXCEPT ![i].parts = @ \cup Parts]
    BY <1>6 DEF Configure
  <2>2. /\ cloud' = [cloud EXCEPT ![i] =
              [cloud[i] EXCEPT !.parts = cloud[i].parts \cup Parts, !.state = cloud[i].state]]
        /\ i \in Ids /\ Alive(i) /\ cloud[i].parts \subseteq cloud[i].parts \cup Parts
    BY <1>1, <2>1 DEF Live, CloudOK
  <2> QED BY <1>5, <2>2
<1>7. CASE Delete /\ ~UNCHANGED cloud
  <2>1. PICK i \in Live, st \in {"deleting", "gone"} :
          cloud' = [cloud EXCEPT ![i].state = st]
    BY <1>7 DEF Delete, Removable
  <2>2. /\ cloud' = [cloud EXCEPT ![i] =
              [cloud[i] EXCEPT !.parts = cloud[i].parts, !.state = st]]
        /\ i \in Ids /\ cloud[i].parts \subseteq cloud[i].parts
        /\ st \in {"pending", "available"} => Alive(i)
    BY <1>1, <2>1 DEF Live, CloudOK
  <2> QED BY <1>5, <2>2
<1>8. ~TakeAway
  <2>1. TakeAway => pc = "run" /\ Head(todo).op \in {"drop", "clear"}
    BY DEF TakeAway, Running
  <2>2. TakeAway => Does(todo, "drop") \/ Does(todo, "clear")
    BY <2>1, RunFacts, ScriptFacts
  <2> QED BY <2>2, IInvLocal DEF Completes, LocalInv, Ending
<1>9. CASE \E i \in Ids : CloudStep(i) \/ Perish(i)
  <2>1. PICK i \in Ids, st \in {"available", "gone"} :
          /\ cloud' = [cloud EXCEPT ![i].state = st]
          /\ st = "available" => Alive(i)
    BY <1>9 DEF CloudStep, Perish, Alive
  <2>2. cloud' = [cloud EXCEPT ![i] =
              [cloud[i] EXCEPT !.parts = cloud[i].parts, !.state = st]]
    BY <1>1, <2>1 DEF CloudOK
  <2> QED BY <1>5, <2>1, <2>2
<1>10. Reconcile => UNCHANGED cloud \/ Script
  BY DEF Reconcile, ProviderNotUsable, BeginSync, BeginDeletion, ReadObject, AddFinalizer,
     SyncWithoutSecret, SyncInvalid, SyncFinds, SyncCannotFind,
     SyncAsksInVain, SyncSearches, DeleteFinds, DeleteCannotFind,
     WriteStatus, ReportFailure, RemoveFinalizer, WritesBack, WriteFails
<1>11. Environment => UNCHANGED cloud \/ \E i \in Ids : CloudStep(i) \/ Perish(i)
  BY DEF Environment, Crash, SyncCache, RequestDelete, CheckProvider, DeleteProvider,
     LoseCredentials, LoseSecret, Repair
<1>12. CASE Script
  BY <1>2, <1>3, <1>4, <1>6, <1>7, <1>8, <1>12
  DEF Script, CreateRefused, AllocateRefused, ConfigureRefused, NothingToMend, TakeAwayRefused,
     LookUp, LookUpRefused, PlainCall, DeleteRefused, NotImplemented, CallFails, Refused
<1> QED BY <1>2, <1>9, <1>10, <1>11, <1>12 DEF Next

(* What is alive after a step, and was known before it, was so then.       *)
LEMMA KnownLived ==
  ASSUME PInv, Next, NEW id \in Live', id \notin Unused
  PROVE  id \in Live
BY AllAge DEF PInv, Ageing

(* A creation gives at once what it always does, and leaves the rest.      *)
LEMMA CreationGives ==
  ASSUME IInv, Completes, InOrder, CreateResource
  PROVE  /\ AtOnce(Ours.sync) \subseteq Parts
         /\ Whole(Ours.sync) \subseteq AtOnce(Ours.sync) \cup PartsOf(Tail(todo), {"set", "mend"})
<1>1. pc = "run" /\ Head(todo).op = "make" /\ todo \in Scripts /\ todo # <<>>
  BY RunFacts DEF CreateResource, Running
<1>2. ~work.deleting
  BY <1>1, ScriptFacts DEF InOrder
<1>3. 1 \in DOMAIN todo /\ Head(todo) = todo[1] /\ After(todo, 1) \subseteq PartsOf(Tail(todo), {"set", "mend"})
  BY <1>1, PartsFacts
<1> QED BY <1>1, <1>2, <1>3 DEF Completes, Parts

(* What is given at once stays.                                            *)
LEMMA BegunStays ==
  ASSUME CInv, Next, ~Ending'
  PROVE  Begun'
<1>1. /\ PInv /\ IInv /\ Completes /\ InOrder /\ ~Ending /\ Ours' = Ours
      /\ \A i \in Live : AtOnce(Ours.sync) \subseteq cloud[i].parts
  BY EndingStays, SpecStays, Constancy DEF CInv, PInv, Begun
<1>2. ASSUME NEW i \in Live'
      PROVE  AtOnce(Ours.sync) \subseteq cloud'[i].parts
  <2>1. CASE i \in Live
    BY <1>1, <1>2, <2>1, PartsStay
  <2>2. CASE i \notin Live
    <3>1. CreateResource /\ cloud'[i].parts = Parts
      BY <1>1, <1>2, <2>2, PartsStay
    <3>2. AtOnce(Ours.sync) \subseteq Parts
      BY <1>1, <3>1, CreationGives
    <3> QED BY <3>1, <3>2
  <2> QED BY <2>1, <2>2
<1> QED BY <1>1, <1>2 DEF Begun

(* Where the ids come from.                                                *)
LEMMA IdsAreHandedOn ==
  ASSUME PInv, Next
  PROVE  {cache'.id, work'.id} \subseteq {object.id, cache.id, work.id, None}
<1>1. cache' \in {cache, object}
  BY DEF Next, Reconcile, ProviderNotUsable, BeginSync, BeginDeletion, ReadObject, AddFinalizer,
     SyncWithoutSecret, SyncInvalid, SyncFinds, SyncCannotFind,
     SyncAsksInVain, SyncSearches, DeleteFinds, DeleteCannotFind,
     WriteStatus, ReportFailure, RemoveFinalizer, WritesBack, WriteFails,
     Script, CreateResource, CreateRefused, AllocateSpare, AllocateRefused, Configure,
     ConfigureRefused, NothingToMend, TakeAway, TakeAwayRefused, LookUp, LookUpRefused,
     PlainCall, Delete, DeleteRefused, NotImplemented, CallFails, Refused, Remains, kube,
     Environment, Crash, SyncCache, RequestDelete, CloudStep, Perish, CheckProvider,
     DeleteProvider, LoseCredentials, LoseSecret, Repair
<1>2. CASE AddFinalizer
  <2>1. work'.id \in {work.id, None}
    BY <1>2, GoneHasNoId
    DEF AddFinalizer, Return, Forget, PInv, IInv, TypeOK, LocalOK, ObjectType
  <2> QED BY <1>1, <2>1
<1>3. CASE Reconcile /\ ~AddFinalizer /\ ~Script
  <2>1. work' \in {work, cache, Gone}
    BY <1>3 DEF Reconcile, ProviderNotUsable, BeginSync, BeginDeletion, ReadObject,
     SyncWithoutSecret, SyncInvalid, SyncFinds, SyncCannotFind,
     SyncAsksInVain, SyncSearches, DeleteFinds, DeleteCannotFind,
     WriteStatus, ReportFailure, RemoveFinalizer, WritesBack, WriteFails, SyncFails, Return,
     Forget, Absent, Continue
  <2> QED BY <1>1, <2>1, GoneHasNoId
<1>4. CASE Script
  <2>1. work' \in {work, Gone}
    BY <1>4, ScriptGoesOnOrEnds DEF Proceed, Continue, Return, Forget
  <2> QED BY <1>1, <2>1, GoneHasNoId
<1>5. CASE Environment
  <2>1. work' \in {work, Gone}
    BY <1>5 DEF Environment, Crash, SyncCache, RequestDelete, CloudStep, Perish, CheckProvider,
     DeleteProvider, LoseCredentials, LoseSecret, Repair, local, Return, Forget
  <2> QED BY <1>1, <2>1, GoneHasNoId
<1> QED BY <1>2, <1>3, <1>4, <1>5 DEF Next

LEMMA RecordedIs ==
  ASSUME PInv, Next
  PROVE  \/ object'.id \in {object.id, None}
         \/ workFresh /\ WriteStatus /\ object'.id = target /\ UNCHANGED cloud
<1>1. object \in ObjectType
  BY DEF PInv, IInv, TypeOK, KubeOK
<1>2. CASE AddFinalizer \/ ReportFailure
  BY <1>1, <1>2 DEF AddFinalizer, ReportFailure, WritesBack, ObjectType
<1>3. CASE workFresh /\ WriteStatus
  BY <1>1, <1>3 DEF WriteStatus, WritesBack, ObjectType
<1>4. CASE RemoveFinalizer /\ object' # object
  BY <1>4, GoneHasNoId DEF RemoveFinalizer, WritesBack
<1>5. CASE RequestDelete
  BY <1>1, <1>5, GoneHasNoId DEF RequestDelete, ObjectType
<1> QED BY <1>2, <1>3, <1>4, <1>5, OnlyTheseWrite

(* Only what is finished is recorded.                                      *)
LEMMA FinishedStays ==
  ASSUME CInv, Next, ~Ending'
  PROVE  Finished'
<1>1. /\ PInv /\ IInv /\ Completes /\ ~Ending /\ Ours' = Ours
      /\ \A id \in {object.id, cache.id, work.id} \cap Live :
           Whole(Ours.sync) \subseteq cloud[id].parts
  BY EndingStays, SpecStays, Constancy DEF CInv, PInv, Finished
<1>2. ASSUME NEW id \in Live', id \in Live, Whole(Ours.sync) \subseteq cloud[id].parts
      PROVE  Whole(Ours.sync) \subseteq cloud'[id].parts
  BY <1>1, <1>2, PartsStay
<1>3. ASSUME NEW id \in {object.id, cache.id, work.id, None}, id \in Live'
      PROVE  Whole(Ours.sync) \subseteq cloud'[id].parts
  <2>1. id \notin Unused
    BY <1>1, <1>3, Numbers DEF PInv, Recording
  <2>2. id \in Live
    BY <1>1, <1>3, <2>1, KnownLived
  <2>3. id \in {object.id, cache.id, work.id}
    BY <1>3, <2>2, Numbers
  <2> QED BY <1>1, <1>2, <1>3, <2>2, <2>3
<1>4. {cache'.id, work'.id} \subseteq {object.id, cache.id, work.id, None}
  BY <1>1, IdsAreHandedOn
<1>5. \/ object'.id \in {object.id, None}
      \/ workFresh /\ WriteStatus /\ object'.id = target /\ UNCHANGED cloud
  BY <1>1, RecordedIs
<1>6. ASSUME workFresh, WriteStatus, target \in Live
      PROVE  Whole(Ours.sync) \subseteq cloud[target].parts
  <2>1. pc = "status" /\ ~work.deleting /\ todo = <<>>
    BY <1>1, <1>6 DEF WriteStatus, PInv, Attending, IInv, TypeOK, LocalOK
  <2> QED BY <1>1, <1>6, <2>1, NothingLeft DEF CInv, Finishing
<1>7. ASSUME object'.id \in Live'
      PROVE  Whole(Ours.sync) \subseteq cloud'[object'.id].parts
  <2>1. CASE object'.id \in {object.id, None}
    BY <1>3, <1>7, <2>1
  <2>2. CASE workFresh /\ WriteStatus /\ object'.id = target /\ UNCHANGED cloud
    <3>1. target \in Live
      BY <1>7, <2>2 DEF Live, Alive
    <3> QED BY <1>6, <2>2, <3>1
  <2> QED BY <1>5, <2>1, <2>2
<1> QED BY <1>1, <1>3, <1>4, <1>7 DEF Finished

LEMMA StandingStays ==
  ASSUME PInv, Standing, Next
  PROVE  Standing'
<1>1. object \in ObjectType /\ (workFresh => work = object)
  BY DEF PInv, IInv, TypeOK, KubeOK, Latest
<1>2. CASE object' = object
  BY <1>2 DEF Standing
<1>3. CASE (AddFinalizer \/ WriteStatus \/ ReportFailure) /\ workFresh
  <2>1. object'.exists = object.exists /\ object.exists
    BY <1>1, <1>3 DEF AddFinalizer, WriteStatus, ReportFailure, WritesBack, ObjectType, PInv, Attending
  <2> QED BY <2>1 DEF Standing
<1>4. CASE RemoveFinalizer /\ object' # object
  BY <1>4, GoneHasNoId DEF RemoveFinalizer, WritesBack, Standing
<1>5. CASE RequestDelete
  BY <1>1, <1>5, GoneHasNoId DEF RequestDelete, Standing, ObjectType
<1> QED BY <1>2, <1>3, <1>4, <1>5, OnlyTheseWrite

(* A sync begins: with something that is complete, or that the script goes *)
(* on with.                                                                *)
LEMMA LookingFinishes ==
  ASSUME CInv, Next, ~Ending', ~Ending, SyncFinds \/ SyncCannotFind \/ SyncSearches
  PROVE  Finishing'
<1>1. /\ PInv /\ TypeOK /\ Ours' = Ours /\ None \notin Live' /\ UNCHANGED cloud
      /\ Begun /\ Finished
  BY SpecStays, Constancy, Numbers, AllAge
  DEF CInv, PInv, IInv, Ageing, Unused, SyncFinds, SyncCannotFind, SyncSearches
<1>2. Live' = Live
  BY <1>1 DEF Live, Alive
<1>3. CASE SyncFails
  BY <1>3 DEF SyncFails, Return, Finishing
<1>4. CASE Absent
  BY <1>1, <1>4 DEF Absent, Finishing
<1>5. CASE \E i \in Found(Ours.sync.find, work) : target' = i /\ Continue(Ours.sync.found)
  <2>1. PICK i \in Found(Ours.sync.find, work) : target' = i /\ Continue(Ours.sync.found)
    BY <1>5
  <2>2. SUFFICES ASSUME i \in Live
                 PROVE  Whole(Ours.sync) \subseteq
                          cloud[i].parts \cup PartsOf(Ours.sync.found, {"set", "mend"})
    BY <1>1, <1>2, <2>1 DEF Finishing, Continue
  <2>3. CASE Ours.sync.find.by \in {"record", "id"}
    <3>1. i = work.id
      BY <2>1, <2>3 DEF Found, Known
    <3> QED BY <1>1, <2>2, <3>1 DEF Finished
  <2>4. CASE Whole(Ours.sync) \subseteq AtOnce(Ours.sync) \cup PartsOf(Ours.sync.found, {"set", "mend"})
    BY <1>1, <2>2, <2>4 DEF Begun
  <2> QED BY <1>1, <2>3, <2>4, CompletionFacts
<1>6. CASE SyncSearches /\ \E i \in Named : target' = i /\ Continue(Ours.sync.found)
  <2>1. PICK i \in Named : target' = i /\ Continue(Ours.sync.found)
    BY <1>6
  <2>2. Whole(Ours.sync) \subseteq AtOnce(Ours.sync) \cup PartsOf(Ours.sync.found, {"set", "mend"})
    BY <1>1, <1>6, CompletionFacts DEF SyncSearches
  <2> QED BY <1>1, <1>2, <2>1, <2>2 DEF Begun, Finishing, Continue
<1> QED BY <1>3, <1>4, <1>5, <1>6 DEF SyncFinds, SyncCannotFind, SyncSearches

(* A step of the script.                                                   *)
LEMMA ScriptFinishes ==
  ASSUME CInv, Next, ~Ending', ~Ending, Script
  PROVE  Finishing'
<1>1. /\ PInv /\ IInv /\ TypeOK /\ Ours' = Ours /\ Completes /\ InOrder /\ Begun
      /\ pc = "run" /\ todo \in Scripts /\ todo # <<>> /\ ~work.deleting
      /\ target \notin Unused
  BY SpecStays, Constancy, ScriptRuns, RunFacts, IInvLocal
  DEF CInv, PInv, IInv, LocalInv, Ending, Recording
<1>2. CASE Fails
  BY <1>2 DEF Fails, SyncFails, Return, Finishing
<1>3. CASE CreateResource
  <2>1. todo' = Tail(todo)
    BY <1>3 DEF CreateResource, Proceed, Continue
  <2>2. ASSUME target' \in Live'
        PROVE  AtOnce(Ours.sync) \subseteq cloud'[target'].parts
    <3>1. \A i \in Live' : AtOnce(Ours.sync) \subseteq cloud'[i].parts
      BY <1>1, BegunStays DEF Begun
    <3> QED BY <2>2, <3>1
  <2> QED BY <1>1, <1>3, <2>1, <2>2, CreationGives DEF Finishing
<1>4. CASE Proceed /\ target' = target /\ ~CreateResource
  <2>1. todo' = Tail(todo)
    BY <1>4 DEF Proceed, Continue
  <2>2. SUFFICES ASSUME target \in Live'
                 PROVE  Whole(Ours.sync) \subseteq
                          cloud'[target].parts \cup PartsOf(Tail(todo), {"set", "mend"})
    BY <1>1, <1>4, <2>1 DEF Finishing
  <2>3. target \in Live /\ cloud[target].parts \subseteq cloud'[target].parts
    BY <1>1, <2>2, KnownLived, PartsStay
  <2>4. Whole(Ours.sync) \subseteq cloud[target].parts \cup PartsOf(todo, {"set", "mend"})
    BY <1>1, <2>3 DEF CInv, Finishing
  <2>5. ASSUME Head(todo).op \in {"set", "mend"}, Head(todo).on = "fails"
        PROVE  Head(todo).parts \subseteq cloud'[target].parts
    <3>1. ~StepFails
      BY <1>4, <2>5 DEF StepFails, Fails, SyncFails, Return, Proceed, Continue
    <3>2. Configure \/ NothingToMend
      BY <2>5, <3>1
      DEF Script, CreateResource, CreateRefused, AllocateSpare, AllocateRefused, ConfigureRefused,
         TakeAway, TakeAwayRefused, LookUp, LookUpRefused, PlainCall, Delete, DeleteRefused,
         NotImplemented, CallFails, Refused, Running
    <3>3. CASE Configure
      <4>1. PICK i \in Live : \E all :
              /\ i = target /\ all = cloud[i].parts \cup Parts
              /\ cloud' = [cloud EXCEPT ![i] = [cloud[i] EXCEPT !.parts = all]]
        BY <3>3 DEF Configure
      <4>2. PICK all :
              /\ i = target /\ all = cloud[i].parts \cup Parts
              /\ cloud' = [cloud EXCEPT ![i] = [cloud[i] EXCEPT !.parts = all]]
        BY <4>1
      <4>3. cloud'[i].parts = all
        BY <1>1, <4>2 DEF Live, TypeOK, CloudOK
      <4> QED BY <4>2, <4>3 DEF Parts
    <3>4. CASE NothingToMend
      BY <3>4 DEF NothingToMend, Parts
    <3> QED BY <3>2, <3>3, <3>4
  <2> QED BY <1>1, <2>3, <2>4, <2>5, PartsFacts
<1> QED BY <1>2, <1>3, <1>4, ScriptEnds

(* The other steps of Reconcile begin nothing, or end it.                  *)
LEMMA OtherStepsEnd ==
  ASSUME PInv, Next, ~Script, ~SyncFinds, ~SyncCannotFind, ~SyncSearches,
         ~RequestDelete
  PROVE  \/ pc' \notin {"run", "status"} \/ work'.deleting
         \/ UNCHANGED local
<1>1. CASE Reconcile
  BY <1>1 DEF Reconcile, ProviderNotUsable, BeginSync, BeginDeletion, AddFinalizer,
     SyncWithoutSecret, SyncInvalid, SyncAsksInVain, DeleteFinds, DeleteCannotFind, Deleting, WriteStatus,
     ReportFailure, RemoveFinalizer, WritesBack, WriteFails, SyncFails, Return, Continue
<1>2. CASE Environment
  BY <1>2 DEF Environment, Crash, SyncCache, CloudStep, Perish, CheckProvider,
     DeleteProvider, LoseCredentials, LoseSecret, Repair, Return
<1> QED BY <1>1, <1>2 DEF Next

(* What a sync is about gets what it has not got.                          *)
LEMMA FinishingStays ==
  ASSUME CInv, Next, ~Ending'
  PROVE  Finishing'
<1>1. /\ PInv /\ IInv /\ TypeOK /\ Completes /\ ~Ending /\ Ours' = Ours
      /\ Recording /\ None \notin Live' /\ (work.deleting => Ending)
  BY EndingStays, SpecStays, Constancy, Numbers, AllAge, IInvLocal
  DEF CInv, PInv, IInv, LocalInv, Ending, Ageing, Unused
<1>2. CASE pc' \notin {"run", "status"} \/ work'.deleting
  BY <1>2 DEF Finishing
<1>3. CASE UNCHANGED local
  <2>1. target \in Live' => target \in Live /\ cloud[target].parts \subseteq cloud'[target].parts
    BY <1>1, KnownLived, PartsStay DEF Recording
  <2> QED BY <1>1, <1>3, <2>1 DEF local, CInv, Finishing
<1>4. CASE RequestDelete
  <2>1. Ending'
    BY <1>1, <1>4, GoneFacts DEF RequestDelete, Ending, TypeOK, KubeOK, ObjectType
  <2> QED BY <2>1
<1>5. CASE SyncFinds \/ SyncCannotFind \/ SyncSearches
  BY <1>1, <1>2, <1>5, LookingFinishes
<1>6. CASE Script
  BY <1>1, <1>2, <1>6, ScriptFinishes
<1> QED
  BY <1>1, <1>2, <1>3, <1>4, <1>5, <1>6, OtherStepsEnd DEF Next, Reconcile

LEMMA NextKeepsCInv == CInv /\ [Next]_vars => CInv'
<1> SUFFICES ASSUME CInv, [Next]_vars PROVE CInv'
  OBVIOUS
<1>1. PInv'
  BY NextKeepsPInv DEF CInv
<1>2. CASE Next
  <2>1. Completes' /\ Standing'
    BY <1>2, CompletesStays, StandingStays DEF CInv, PInv
  <2>2. CASE Ending'
    BY <1>1, <2>1, <2>2 DEF CInv, Begun, Finishing, Finished
  <2>3. CASE ~Ending'
    BY <1>1, <1>2, <2>1, <2>3, BegunStays, FinishingStays, FinishedStays DEF CInv
  <2> QED BY <2>2, <2>3
<1>3. CASE UNCHANGED vars
  BY <1>1, <1>3, Constancy
  DEF vars, CInv, Standing, Final, Does, Completes, After, Begun, Finishing, Finished, Ending,
     Live, Alive
<1> QED BY <1>2, <1>3

LEMMA InitEstablishesCInv == Init => CInv
<1> SUFFICES ASSUME Init PROVE CInv
  OBVIOUS
<1>1. Live = {} /\ todo = <<>> /\ pc = "idle"
  BY DEF Init, Live, Alive, Nothing, Resource
<1>2. Completes
  BY <1>1, EmptyScript DEF Completes
<1> QED BY <1>1, <1>2, InitEstablishesPInv DEF Init, Created, Object, CInv, Standing, Begun, Finishing, Finished

(* A resource that the status calls ready has everything that its creation *)
(* should have given it, whatever has gone wrong meanwhile: for every      *)
(* catalogue whose syncs go on from what a failed creation has left, or do *)
(* not find it.                                                            *)
THEOREM ReadyComplete == Spec => []ReadyIsComplete
<1>1. CInv => ReadyIsComplete
  <2>1. SUFFICES ASSUME CInv, object.ready, ~object.deleting, object.id \in Live
                 PROVE  Whole(Ours.sync) \subseteq cloud[object.id].parts
    BY DEF ReadyIsComplete
  <2>2. object.exists
    BY <2>1, Numbers DEF CInv, Standing
  <2> QED BY <2>1, <2>2 DEF CInv, Finished, Ending
<1> QED BY <1>1, InitEstablishesCInv, NextKeepsCInv, PTL DEF Spec

=============================================================================
