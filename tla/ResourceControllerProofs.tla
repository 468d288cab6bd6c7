---------------------- MODULE ResourceControllerProofs ----------------------
(* Proofs about ResourceController, for every catalogue of controllers and *)
(* services, every quota and any number of faults: its type invariant,     *)
(* that nothing is made for an object that has no finalizer, and that      *)
(* nothing is deleted that the user has not asked to be deleted.           *)
EXTENDS ResourceController, SequenceTheorems, TLAPS

-----------------------------------------------------------------------------
(* The catalogue.                                                          *)

Steps == [op : Ops, parts : SUBSET STRING, on : {"fails", "ignored"}]

(* The scripts of the controller that a run is about.                      *)
LEMMA CatalogueFacts ==
  ASSUME TypeOK
  PROVE  /\ Ours.sync.found \in Scripts /\ Ours.sync.absent \in Scripts
         /\ Program.script \in Scripts
         /\ ~Does(Ours.sync.found, "remove") /\ ~Does(Ours.sync.absent, "remove")
<1>1. config.kind \in Kinds /\ config.policy \in DOMAIN Ours.delete
  BY DEF TypeOK
<1>2. ControllerType(Ours)
  BY <1>1, CatalogueAssumption DEF Ours
<1>3. Program \in Programs
  BY <1>1, <1>2 DEF ControllerType, Program
<1> QED
  BY <1>1, <1>2, <1>3, SyncAssumption DEF ControllerType, Programs, Ours

(* What is left of a script.                                               *)
LEMMA ScriptFacts ==
  ASSUME NEW script \in Scripts, script # <<>>
  PROVE  /\ Head(script) \in Steps
         /\ Tail(script) \in Scripts
         /\ \A op : Does(Tail(script), op) => Does(script, op)
         /\ Does(script, Head(script).op)
<1>1. Head(script) \in Steps /\ Tail(script) \in Scripts
  BY HeadTailProperties DEF Scripts, Steps
<1>2. Len(script) \in Nat \ {0} /\ DOMAIN script = 1..Len(script)
  BY EmptySeq, LenProperties DEF Scripts
<1>3. /\ DOMAIN Tail(script) = 1..(Len(script) - 1)
      /\ \A k \in 1..(Len(script) - 1) : Tail(script)[k] = script[k + 1]
  BY <1>2, HeadTailProperties, LenProperties DEF Scripts
<1>4. ASSUME NEW op, Does(Tail(script), op) PROVE Does(script, op)
  <2>1. PICK k \in DOMAIN Tail(script) : Tail(script)[k].op = op
    BY <1>4 DEF Does
  <2>2. k + 1 \in DOMAIN script /\ script[k + 1].op = op
    BY <1>2, <1>3, <2>1
  <2> QED BY <2>2 DEF Does
<1>5. Does(script, Head(script).op)
  <2>1. 1 \in DOMAIN script /\ Head(script) = script[1]
    BY <1>2 DEF Scripts
  <2> QED BY <2>1 DEF Does
<1> QED BY <1>1, <1>4, <1>5

-----------------------------------------------------------------------------
(* What a step makes of the local variables of Reconcile.                  *)

(* The part of the invariant that is about them.                           *)
LocalInv ==
  /\ LocalOK
  /\ workFresh => work = object
  /\ work.deleting => object.deleting \/ ~object.exists
  /\ Guarded /\ Removing

LEMMA IInvLocal == IInv => LocalInv
BY DEF IInv, LocalInv, TypeOK, Latest, DeletionKnown

LEMMA EmptyScript == <<>> \in Scripts /\ \A op : ~Does(<<>>, op)
BY EmptySeq DEF Scripts, Does

LEMMA GoneFacts == Gone \in ObjectType /\ ~Gone.deleting /\ ~Gone.exists
BY DEF Gone, Object, ObjectType

(* Neither the spec nor, so far, the object changes, and what went wrong   *)
(* is not forgotten.                                                       *)
Steady == config' = config /\ object' = object /\ faults' \in {faults, faults + 1}

(* Reconcile ends, whatever happens to the object.                         *)
LEMMA ReturnKeeps == Return => LocalInv' /\ workFresh' = FALSE
<1> SUFFICES ASSUME Return PROVE LocalInv' /\ workFresh' = FALSE
  OBVIOUS
<1>1. /\ pc' = "idle" /\ work' = Gone /\ workFresh' = FALSE
      /\ todo' = <<>> /\ target' = None /\ seen' = "none"
  BY DEF Return, Forget
<1>2. LocalOK'
  BY <1>1, GoneFacts, EmptyScript DEF LocalOK
<1>3. Guarded' /\ Removing'
  BY <1>1, EmptyScript DEF Guarded, Removing
<1> QED BY <1>1, <1>2, <1>3, GoneFacts DEF LocalInv

(* The script goes on, or the next one begins.                             *)
LEMMA ContinueKeeps ==
  ASSUME TypeOK, LocalInv, Steady, pc \in {"find", "run"},
         NEW script \in Scripts, Continue(script),
         Does(script, "remove") => work.deleting /\ ~Keeps,
         target' \in Ids \cup {None},
         seen' \in {"none", "pending", "available", "deleting"}
  PROVE  LocalInv'
<1>1. LocalOK'
  BY DEF LocalInv, LocalOK, Continue
<1>2. Guarded'
  BY DEF LocalInv, Guarded, Continue, Steady, TypeOK
<1>3. Removing'
  BY DEF Removing, Continue, Steady, Keeps, Program, Ours
<1> QED BY <1>1, <1>2, <1>3 DEF LocalInv, Continue, Steady

(* The sync fails, the deletion fails, or a call of a script does.         *)
LEMMA SyncFailsKeeps ==
  ASSUME TypeOK, LocalInv, Steady, SyncFails
  PROVE  LocalInv'
<1>1. CASE Ours.onError = "reported"
  <2>1. /\ pc' = "report" /\ todo' = <<>> /\ target' = None /\ seen' = "none"
        /\ UNCHANGED <<work, workFresh>>
    BY <1>1 DEF SyncFails
  <2>2. LocalOK'
    BY <2>1, EmptyScript DEF LocalInv, LocalOK
  <2>3. Guarded' /\ Removing'
    BY <2>1, EmptyScript DEF Guarded, Removing
  <2> QED BY <2>1, <2>2, <2>3 DEF LocalInv, Steady
<1>2. CASE Ours.onError # "reported"
  BY <1>2, ReturnKeeps DEF SyncFails
<1> QED BY <1>1, <1>2

LEMMA FailsKeeps ==
  ASSUME TypeOK, LocalInv, Steady, Fails
  PROVE  LocalInv'
BY ReturnKeeps, SyncFailsKeeps DEF Fails

LEMMA ProceedKeeps ==
  ASSUME TypeOK, LocalInv, Steady, pc = "run", Proceed,
         target' \in Ids \cup {None},
         seen' \in {"none", "pending", "available", "deleting"}
  PROVE  LocalInv'
<1>1. todo \in Scripts /\ todo # <<>>
  BY DEF LocalInv, LocalOK
<1>2. Tail(todo) \in Scripts /\ (Does(Tail(todo), "remove") => Does(todo, "remove"))
  BY <1>1, ScriptFacts
<1>3. Does(Tail(todo), "remove") => work.deleting /\ ~Keeps
  BY <1>2 DEF LocalInv, Removing
<1> QED BY <1>2, <1>3, ContinueKeeps DEF Proceed

LEMMA StepFailsKeeps ==
  ASSUME TypeOK, LocalInv, Steady, pc = "run", StepFails
  PROVE  LocalInv'
<1>1. CASE Head(todo).on = "ignored"
  BY <1>1, ProceedKeeps DEF StepFails, LocalInv, LocalOK
<1>2. CASE Head(todo).on # "ignored"
  BY <1>2, FailsKeeps DEF StepFails
<1> QED BY <1>1, <1>2

-----------------------------------------------------------------------------
(* What a step makes of everything else.                                   *)

Counted == UNCHANGED faults \/ Fault

(* A step that neither reads nor writes the object.                        *)
LEMMA InnerKeeps ==
  ASSUME IInv, LocalInv', CloudOK', UNCHANGED <<config, kube>>, Counted
  PROVE  IInv'
<1>1. faults' \in 0..config'.faults
  BY DEF Counted, Fault, IInv, TypeOK
<1>2. KubeOK'
  BY DEF KubeOK, kube, IInv, TypeOK
<1>3. TypeOK'
  BY <1>1, <1>2 DEF TypeOK, LocalInv, IInv, Ours
<1> QED BY <1>3 DEF IInv, LocalInv, Latest, DeletionKnown, kube

LEMMA CountedIsSteady ==
  ASSUME UNCHANGED <<config, kube>>, Counted
  PROVE  Steady
BY DEF Steady, Counted, Fault, kube

LEMMA AnsweredIsCounted == (Answered => Counted) /\ (Broken => Counted)
BY DEF Answered, Broken, Counted

(* The resources stay of their type.                                       *)
States == {"none", "pending", "available", "deleting", "gone"}

LEMMA CloudKeeps ==
  ASSUME CloudOK, access' = access, NEW i \in Ids, NEW new,
         new \in [state : States, parts : SUBSET STRING, spare : BOOLEAN],
         cloud' = [cloud EXCEPT ![i] = new]
  PROVE  CloudOK'
BY DEF CloudOK, States

LEMMA CloudFacts ==
  ASSUME CloudOK, NEW i \in Ids
  PROVE  /\ cloud[i] \in [state : States, parts : SUBSET STRING, spare : BOOLEAN]
         /\ \A st \in States :
              [cloud[i] EXCEPT !.state = st] \in [state : States, parts : SUBSET STRING, spare : BOOLEAN]
         /\ \A ps \in SUBSET STRING :
              [cloud[i] EXCEPT !.parts = ps] \in [state : States, parts : SUBSET STRING, spare : BOOLEAN]
BY DEF CloudOK, States

LEMMA RunFacts ==
  ASSUME IInv, pc = "run"
  PROVE  /\ todo \in Scripts /\ todo # <<>>
         /\ Head(todo) \in Steps /\ Parts \subseteq STRING
<1>1. todo \in Scripts /\ todo # <<>>
  BY DEF IInv, TypeOK, LocalOK
<1> QED BY <1>1, ScriptFacts DEF Steps, Parts

-----------------------------------------------------------------------------
(* The calls of the scripts.                                               *)

LEMMA InitialStates == Initially \in {"pending", "available"}
BY DEF Initially

LEMMA CreateResourceKeeps == IInv /\ CreateResource => IInv'
<1> SUFFICES ASSUME IInv, CreateResource PROVE IInv'
  OBVIOUS
<1>1. pc = "run" /\ Answered /\ Proceed /\ UNCHANGED <<config, kube, access>>
  BY DEF CreateResource, Running, Remains
<1>2. Counted /\ Steady
  BY <1>1, AnsweredIsCounted, CountedIsSteady
<1>3. CASE UNCHANGED cloud /\ \E i \in Twins : target' = i /\ seen' = cloud[i].state
  <2>1. PICK i \in Twins : target' = i /\ seen' = cloud[i].state
    BY <1>3
  <2>2. i \in Ids /\ cloud[i].state \in {"pending", "available", "deleting"}
    BY <2>1 DEF Twins
  <2>3. LocalInv'
    BY <1>1, <1>2, <2>1, <2>2, IInvLocal, ProceedKeeps DEF IInv
  <2> QED BY <1>1, <1>2, <1>3, <2>3, InnerKeeps DEF IInv, TypeOK, CloudOK
<1>4. CASE /\ seen' = Initially
           /\ \E i \in Fresh : /\ target' = i
                               /\ cloud' = [cloud EXCEPT ![i] = Resource(Initially, Parts, FALSE)]
  <2>1. PICK i \in Fresh : /\ target' = i
                           /\ cloud' = [cloud EXCEPT ![i] = Resource(Initially, Parts, FALSE)]
    BY <1>4
  <2>2. i \in Ids
    BY DEF Fresh, Unused
  <2>3. LocalInv'
    BY <1>1, <1>2, <1>4, <2>1, <2>2, IInvLocal, InitialStates, ProceedKeeps DEF IInv
  <2>4. Resource(Initially, Parts, FALSE) \in [state : States, parts : SUBSET STRING, spare : BOOLEAN]
    BY <1>1, RunFacts, InitialStates DEF Resource, States
  <2>5. CloudOK'
    BY <1>1, <2>1, <2>2, <2>4, CloudKeeps DEF IInv, TypeOK
  <2> QED BY <1>1, <1>2, <2>3, <2>5, InnerKeeps
<1> QED BY <1>3, <1>4 DEF CreateResource

LEMMA AllocateSpareKeeps == IInv /\ AllocateSpare => IInv'
<1> SUFFICES ASSUME IInv, AllocateSpare PROVE IInv'
  OBVIOUS
<1>1. /\ pc = "run" /\ Answered /\ Proceed /\ UNCHANGED <<config, kube, access>>
      /\ UNCHANGED <<target, seen>>
  BY DEF AllocateSpare, Running, Remains
<1>2. Counted /\ Steady
  BY <1>1, AnsweredIsCounted, CountedIsSteady
<1>3. LocalInv'
  BY <1>1, <1>2, IInvLocal, ProceedKeeps DEF IInv, TypeOK, LocalOK
<1>4. PICK i \in Fresh : cloud' = [cloud EXCEPT ![i] = Resource("available", {}, TRUE)]
  BY DEF AllocateSpare
<1>5. CloudOK'
  BY <1>1, <1>4, CloudKeeps DEF IInv, TypeOK, Fresh, Unused, Resource, States
<1> QED BY <1>1, <1>2, <1>3, <1>5, InnerKeeps

(* A call that is refused or fails changes no resource.                    *)
LEMMA FailingCallKeeps ==
  ASSUME IInv, pc = "run", StepFails, UNCHANGED <<cloud, config, kube, access>>, Counted
  PROVE  IInv'
<1>1. Steady
  BY CountedIsSteady
<1>2. LocalInv'
  BY <1>1, IInvLocal, StepFailsKeeps DEF IInv
<1> QED BY <1>2, InnerKeeps DEF IInv, TypeOK, CloudOK

LEMMA RefusedKeeps == ASSUME IInv, pc = "run", Refused PROVE IInv'
BY FailingCallKeeps DEF Refused, Remains, Counted

LEMMA CallFailsKeeps == IInv /\ CallFails => IInv'
BY FailingCallKeeps, AnsweredIsCounted DEF CallFails, Running, Remains

(* A call that succeeds and has found nothing out.                         *)
LEMMA PlainStepKeeps ==
  ASSUME IInv, pc = "run", Proceed, UNCHANGED <<config, kube, access>>, Counted,
         target' = target,
         seen' = seen \/ seen' \in {"pending", "available", "deleting"},
         CloudOK'
  PROVE  IInv'
<1>1. Steady
  BY CountedIsSteady
<1>2. LocalInv'
  BY <1>1, IInvLocal, ProceedKeeps DEF IInv, TypeOK, LocalOK
<1> QED BY <1>2, InnerKeeps

LEMMA ChangeKeeps ==
  ASSUME IInv, pc = "run", Proceed, UNCHANGED <<config, kube, access>>, Counted,
         UNCHANGED <<target, seen>>,
         NEW i \in Ids, NEW new \in [state : States, parts : SUBSET STRING, spare : BOOLEAN],
         cloud' = [cloud EXCEPT ![i] = new]
  PROVE  IInv'
BY CloudKeeps, PlainStepKeeps DEF IInv, TypeOK

LEMMA ConfigureKeeps == IInv /\ Configure => IInv'
<1> SUFFICES ASSUME IInv, Configure PROVE IInv'
  OBVIOUS
<1>1. /\ pc = "run" /\ Answered /\ Proceed /\ UNCHANGED <<config, kube, access>>
      /\ UNCHANGED <<target, seen>> /\ target \in Live
  BY DEF Configure, Running, Remains
<1>2. PICK i \in Ids : i = target /\ cloud' = [cloud EXCEPT ![i].parts = @ \cup Parts]
  BY <1>1 DEF Configure, Live
<1>3. cloud' = [cloud EXCEPT ![i] = [cloud[i] EXCEPT !.parts = cloud[i].parts \cup Parts]]
  BY <1>2
<1>4. cloud[i].parts \cup Parts \subseteq STRING
  BY <1>1, RunFacts, CloudFacts DEF IInv, TypeOK
<1> QED BY <1>1, <1>3, <1>4, ChangeKeeps, CloudFacts, AnsweredIsCounted DEF IInv, TypeOK

LEMMA TakeAwayKeeps == IInv /\ TakeAway => IInv'
<1> SUFFICES ASSUME IInv, TakeAway PROVE IInv'
  OBVIOUS
<1>1. /\ pc = "run" /\ Answered /\ Proceed /\ UNCHANGED <<config, kube, access>>
      /\ UNCHANGED <<target, seen>> /\ target \in Live
  BY DEF TakeAway, Running, Remains
<1>2. PICK i \in Ids : i = target /\ cloud' = [cloud EXCEPT ![i].parts = @ \ Parts]
  BY <1>1 DEF TakeAway, Live
<1>3. cloud' = [cloud EXCEPT ![i] = [cloud[i] EXCEPT !.parts = cloud[i].parts \ Parts]]
  BY <1>2
<1>4. cloud[i].parts \ Parts \subseteq STRING
  BY CloudFacts DEF IInv, TypeOK
<1> QED BY <1>1, <1>3, <1>4, ChangeKeeps, CloudFacts, AnsweredIsCounted DEF IInv, TypeOK

LEMMA DeleteKeeps == IInv /\ Delete => IInv'
<1> SUFFICES ASSUME IInv, Delete PROVE IInv'
  OBVIOUS
<1>1. /\ pc = "run" /\ Answered /\ Proceed /\ UNCHANGED <<config, kube, access>>
      /\ UNCHANGED <<target, seen>>
  BY DEF Delete, Running, Remains
<1>2. CASE UNCHANGED cloud
  BY <1>1, <1>2, PlainStepKeeps, AnsweredIsCounted DEF IInv, TypeOK, CloudOK
<1>3. CASE /\ Removable
           /\ cloud' = [cloud EXCEPT ![target].state = IF Theirs.lingers THEN "deleting" ELSE "gone"]
  <2>1. PICK i \in Ids, st \in {"deleting", "gone"} :
          cloud' = [cloud EXCEPT ![i] = [cloud[i] EXCEPT !.state = st]]
    BY <1>3 DEF Removable, Live
  <2>2. [cloud[i] EXCEPT !.state = st]
          \in [state : States, parts : SUBSET STRING, spare : BOOLEAN]
    BY CloudFacts DEF IInv, TypeOK, States
  <2> QED BY <1>1, <2>1, <2>2, ChangeKeeps, AnsweredIsCounted
<1> QED BY <1>2, <1>3 DEF Delete

LEMMA LookUpKeeps == IInv /\ LookUp => IInv'
<1> SUFFICES ASSUME IInv, LookUp PROVE IInv'
  OBVIOUS
<1>1. /\ pc = "run" /\ Answered /\ Proceed /\ UNCHANGED <<config, kube, access>>
      /\ UNCHANGED <<target, cloud>>
  BY DEF LookUp, Running, Remains
<1>2. seen' \in {"pending", "available", "deleting"}
  BY DEF LookUp, Described, Alive
<1> QED BY <1>1, <1>2, PlainStepKeeps, AnsweredIsCounted DEF IInv, TypeOK, CloudOK

LEMMA PlainCallKeeps == IInv /\ (PlainCall \/ NothingToMend) => IInv'
<1> SUFFICES ASSUME IInv, PlainCall \/ NothingToMend PROVE IInv'
  OBVIOUS
<1>1. /\ pc = "run" /\ Counted /\ Proceed /\ UNCHANGED <<config, kube, access>>
      /\ UNCHANGED <<target, seen, cloud>>
  BY AnsweredIsCounted DEF PlainCall, NothingToMend, Running, Remains, Counted
<1> QED BY <1>1, PlainStepKeeps DEF IInv, TypeOK, CloudOK

LEMMA ScriptKeeps == IInv /\ Script => IInv'
<1> SUFFICES ASSUME IInv, Script PROVE IInv'
  OBVIOUS
<1>1. CASE \/ CreateRefused \/ AllocateRefused \/ ConfigureRefused \/ TakeAwayRefused
           \/ LookUpRefused \/ DeleteRefused \/ NotImplemented
  BY <1>1, RefusedKeeps DEF CreateRefused, AllocateRefused, ConfigureRefused, TakeAwayRefused,
     LookUpRefused, DeleteRefused, NotImplemented, Running
<1>2. CASE CreateResource
  BY <1>2, CreateResourceKeeps
<1>3. CASE AllocateSpare
  BY <1>3, AllocateSpareKeeps
<1>4. CASE Configure
  BY <1>4, ConfigureKeeps
<1>5. CASE TakeAway
  BY <1>5, TakeAwayKeeps
<1>6. CASE LookUp
  BY <1>6, LookUpKeeps
<1>7. CASE PlainCall \/ NothingToMend
  BY <1>7, PlainCallKeeps
<1>8. CASE Delete
  BY <1>8, DeleteKeeps
<1>9. CASE CallFails
  BY <1>9, CallFailsKeeps
<1> QED BY <1>1, <1>2, <1>3, <1>4, <1>5, <1>6, <1>7, <1>8, <1>9 DEF Script

-----------------------------------------------------------------------------
(* The beginning and the end of Reconcile.                                 *)

(* A sync has a script of its own, which deletes nothing.                  *)
LEMMA AbsentKeeps ==
  ASSUME IInv, Steady, pc = "find", Absent
  PROVE  LocalInv'
BY CatalogueFacts, IInvLocal, ContinueKeeps DEF Absent, IInv

Ways == {"id", "anyId", "name", "either", "record", "recordOrName"}

LEMMA FoundAreIds ==
  ASSUME NEW lookup, NEW o \in ObjectType, NEW i \in Found(lookup, o), lookup.by \in Ways
  PROVE  i \in Ids
BY DEF Ways, Found, Known, Named, ObjectType

(* What is looked for, and how.                                            *)
LEMMA LookupFacts ==
  ASSUME TypeOK
  PROVE  /\ Ours.sync.find.by \in Ways /\ Program.find.by \in Ways \ {"anyId", "either"}
         /\ Ours.sync.find.onError \in {"absent", "fails"}
<1>1. config.kind \in Kinds /\ config.policy \in DOMAIN Ours.delete
  BY DEF TypeOK
<1>2. ControllerType(Ours)
  BY <1>1, CatalogueAssumption DEF Ours
<1>3. Program \in Programs
  BY <1>1, <1>2 DEF ControllerType, Program
<1> QED
  BY <1>2, <1>3 DEF ControllerType, Programs, DeletionLookups, Lookups, Ways

(* A sync that has searched begins a script, or fails.                     *)
LEMMA SyncBeginsKeeps ==
  ASSUME IInv, Steady, pc = "find",
         \/ /\ target' \in Ids /\ UNCHANGED seen /\ Continue(Ours.sync.found)
         \/ Absent
         \/ SyncFails
  PROVE  LocalInv'
<1>1. CASE target' \in Ids /\ UNCHANGED seen /\ Continue(Ours.sync.found)
  BY <1>1, CatalogueFacts, IInvLocal, ContinueKeeps DEF IInv, LocalInv, LocalOK
<1>2. CASE Absent
  BY <1>2, AbsentKeeps
<1>3. CASE SyncFails
  BY <1>3, SyncFailsKeeps, IInvLocal DEF IInv
<1> QED BY <1>1, <1>2, <1>3

LEMMA SyncFindsKeeps == IInv /\ (SyncFinds \/ SyncSearches) => IInv'
<1> SUFFICES ASSUME IInv, SyncFinds \/ SyncSearches PROVE IInv'
  OBVIOUS
<1>1. pc = "find" /\ Counted /\ UNCHANGED <<config, kube, cloud, access>>
  BY AnsweredIsCounted DEF SyncFinds, SyncSearches, Syncing, Counted
<1>2. Steady
  BY <1>1, CountedIsSteady
<1>3. \A i \in Found(Ours.sync.find, work) \cup Named : i \in Ids
  BY FoundAreIds, LookupFacts DEF IInv, TypeOK, LocalOK, Named
<1>4. LocalInv'
  BY <1>1, <1>2, <1>3, SyncBeginsKeeps DEF SyncFinds, SyncSearches
<1> QED BY <1>1, <1>4, InnerKeeps DEF IInv, TypeOK, CloudOK

LEMMA SyncCannotFindKeeps == IInv /\ SyncCannotFind => IInv'
<1> SUFFICES ASSUME IInv, SyncCannotFind PROVE IInv'
  OBVIOUS
<1>1. pc = "find" /\ Counted /\ UNCHANGED <<config, kube, cloud, access>>
  BY AnsweredIsCounted DEF SyncCannotFind, Syncing, Counted
<1>2. Steady
  BY <1>1, CountedIsSteady
<1>3. LocalInv'
  BY <1>1, <1>2, AbsentKeeps, SyncFailsKeeps, IInvLocal DEF IInv, SyncCannotFind
<1> QED BY <1>1, <1>3, InnerKeeps DEF IInv, TypeOK, CloudOK

(* A sync that does not get as far as that.                                *)
LEMMA SyncRefusedKeeps ==
  IInv /\ (SyncWithoutSecret \/ SyncInvalid \/ SyncAsksInVain) => IInv'
<1> SUFFICES ASSUME IInv, SyncWithoutSecret \/ SyncInvalid \/ SyncAsksInVain PROVE IInv'
  OBVIOUS
<1>1. pc = "find" /\ Counted /\ UNCHANGED <<config, kube, cloud, access>>
  BY AnsweredIsCounted DEF SyncWithoutSecret, SyncInvalid, SyncAsksInVain, Syncing, Counted
<1>2. Steady
  BY <1>1, CountedIsSteady
<1>3. LocalInv'
  <2>1. CASE pc' = "report" /\ UNCHANGED <<work, workFresh, todo, target, seen>>
    <3>1. LocalOK'
      BY <1>1, <2>1, IInvLocal DEF LocalInv, LocalOK
    <3>2. Guarded' /\ Removing'
      BY <1>1, <1>2, <2>1, IInvLocal
      DEF LocalInv, Guarded, Removing, Steady, Keeps, Program, Ours
    <3> QED BY <1>2, <2>1, <3>1, <3>2, IInvLocal DEF LocalInv, Steady
  <2>2. CASE Return
    BY <2>2, ReturnKeeps
  <2>3. CASE SyncFails
    BY <1>2, <2>3, SyncFailsKeeps, IInvLocal DEF IInv
  <2> QED BY <2>1, <2>2, <2>3 DEF SyncWithoutSecret, SyncInvalid, SyncAsksInVain
<1> QED BY <1>1, <1>3, InnerKeeps DEF IInv, TypeOK, CloudOK

(* A deletion begins the script that the policy calls for, or none.        *)
LEMMA DeletionKeeps == IInv /\ (DeleteFinds \/ DeleteCannotFind) => IInv'
<1> SUFFICES ASSUME IInv, DeleteFinds \/ DeleteCannotFind PROVE IInv'
  OBVIOUS
<1>1. /\ pc = "find" /\ work.deleting /\ Counted
      /\ UNCHANGED <<config, kube, cloud, access>>
  BY AnsweredIsCounted DEF DeleteFinds, DeleteCannotFind, Deleting, Counted
<1>2. Steady
  BY <1>1, CountedIsSteady
<1>3. \/ Return
      \/ /\ UNCHANGED seen
         /\ target' = target \/ target' \in Found(Program.find, work)
         /\ Continue(Program.script) \/ Continue(<<>>)
  BY DEF DeleteFinds, DeleteCannotFind
<1>4. LocalInv'
  <2>1. CASE Return
    BY <2>1, ReturnKeeps
  <2>2. CASE /\ UNCHANGED seen
             /\ target' = target \/ target' \in Found(Program.find, work)
             /\ Continue(Program.script) \/ Continue(<<>>)
    <3>1. target' \in Ids \cup {None}
      BY <2>2, FoundAreIds, LookupFacts DEF IInv, TypeOK, LocalOK
    <3>2. Does(Program.script, "remove") => ~Keeps
      BY DEF Keeps
    <3>3. seen' \in {"none", "pending", "available", "deleting"}
      BY <2>2 DEF IInv, TypeOK, LocalOK
    <3>4. CASE Continue(<<>>)
      BY <1>1, <1>2, <3>1, <3>3, <3>4, EmptyScript, IInvLocal, ContinueKeeps DEF IInv
    <3>5. CASE Continue(Program.script)
      BY <1>1, <1>2, <3>1, <3>2, <3>3, <3>5, CatalogueFacts, IInvLocal, ContinueKeeps DEF IInv
    <3> QED BY <2>2, <3>4, <3>5
  <2> QED BY <1>3, <2>1, <2>2
<1> QED BY <1>1, <1>4, InnerKeeps DEF IInv, TypeOK, CloudOK

(* Reconcile reads the object, and whether it is the latest version        *)
(* decides whether anything has gone wrong.                                *)
LEMMA ReadKeeps ==
  ASSUME IInv, ReadObject, cache.exists,
         \/ pc' \in {"report", "finalizer"}
         \/ pc' = "find" /\ cache.finalizer
  PROVE  IInv'
<1>1. /\ UNCHANGED <<config, kube, cloud, access>> /\ Counted
      /\ work' = cache /\ workFresh' = cacheFresh
      /\ todo' = <<>> /\ target' = None /\ seen' = "none"
      /\ cacheFresh \/ faults' = faults + 1
  BY DEF ReadObject, Counted, Fault, kube
<1>2. LocalOK'
  BY <1>1, EmptyScript DEF LocalOK, IInv, TypeOK, KubeOK
<1>3. Guarded'
  BY <1>1 DEF Guarded, IInv, TypeOK, Latest, kube
<1>4. Removing'
  BY <1>1, EmptyScript DEF Removing
<1>5. LocalInv'
  BY <1>1, <1>2, <1>3, <1>4 DEF LocalInv, IInv, Latest, DeletionKnown, kube
<1> QED BY <1>1, <1>5, InnerKeeps DEF IInv, TypeOK, CloudOK

LEMMA BeginKeeps == IInv /\ (ProviderNotUsable \/ BeginSync \/ BeginDeletion) => IInv'
BY ReadKeeps DEF ProviderNotUsable, BeginSync, BeginDeletion

(* Reconcile ends without a write, or the process.                         *)
LEMMA AbortKeeps ==
  ASSUME IInv, Return, UNCHANGED <<config, kube, cloud, access>>, Counted
  PROVE  IInv'
BY ReturnKeeps, InnerKeeps DEF IInv, TypeOK, CloudOK

(* The object changes: the cache is behind, and the user's wish stays.     *)
LEMMA WriteKeeps ==
  ASSUME IInv, UNCHANGED <<config, cache, cloud, access, faults>>,
         object' \in ObjectType, cacheFresh' = FALSE,
         object.deleting \/ ~object.exists => object'.deleting \/ ~object'.exists,
         LocalInv'
  PROVE  IInv'
<1>1. TypeOK'
  BY DEF IInv, TypeOK, KubeOK, LocalInv, CloudOK, Ours
<1> QED BY <1>1 DEF IInv, LocalInv, Latest, DeletionKnown

LEMMA AddFinalizerKeeps == IInv /\ AddFinalizer => IInv'
<1> SUFFICES ASSUME IInv, AddFinalizer PROVE IInv'
  OBVIOUS
<1>1. CASE ~workFresh
  BY <1>1, AbortKeeps DEF AddFinalizer, kube, Counted
<1>2. CASE workFresh
  <2>1. /\ object' = [object EXCEPT !.finalizer = TRUE]
        /\ work' = [work EXCEPT !.finalizer = TRUE]
        /\ cacheFresh' = FALSE /\ pc = "finalizer" /\ pc' = "find"
        /\ UNCHANGED <<workFresh, todo, target, seen, config, cache, cloud, access, faults>>
    BY <1>2 DEF AddFinalizer
  <2>2. object \in ObjectType /\ work = object
    BY <1>2 DEF IInv, TypeOK, KubeOK, Latest
  <2>3. object' \in ObjectType /\ work' = object' /\ object'.finalizer
        /\ object'.deleting = object.deleting /\ object'.exists = object.exists
    BY <2>1, <2>2 DEF ObjectType
  <2>4. LocalOK'
    BY <2>1, <2>3 DEF LocalOK, IInv, TypeOK
  <2>5. Guarded' /\ Removing'
    BY <2>1, <2>2, <2>3 DEF Guarded, Removing, IInv, Keeps, Program, Ours
  <2>6. LocalInv'
    BY <2>1, <2>2, <2>3, <2>4, <2>5 DEF LocalInv, IInv, DeletionKnown
  <2> QED BY <2>1, <2>3, <2>6, WriteKeeps
<1> QED BY <1>1, <1>2

LEMMA WritesBackKeeps ==
  ASSUME IInv, NEW new \in ObjectType, WritesBack(new),
         object.deleting \/ ~object.exists => new.deleting \/ ~new.exists
  PROVE  IInv'
<1>1. CASE ~workFresh
  BY <1>1, AbortKeeps DEF WritesBack, kube, Counted
<1>2. CASE workFresh
  BY <1>2, ReturnKeeps, WriteKeeps DEF WritesBack
<1> QED BY <1>1, <1>2

LEMMA EndKeeps == IInv /\ (WriteStatus \/ ReportFailure \/ RemoveFinalizer) => IInv'
<1> SUFFICES ASSUME IInv, WriteStatus \/ ReportFailure \/ RemoveFinalizer PROVE IInv'
  OBVIOUS
<1>1. object \in ObjectType /\ target \in Ids \cup {None} /\ Ready \in BOOLEAN
  BY DEF IInv, TypeOK, KubeOK, LocalOK, Ready
<1>2. CASE WriteStatus
  <2> DEFINE new == [object EXCEPT !.ready = Ready, !.id = target]
  <2>1. /\ new \in ObjectType
        /\ new.deleting = object.deleting /\ new.exists = object.exists
    BY <1>1 DEF ObjectType
  <2> QED BY <1>2, <2>1, WritesBackKeeps DEF WriteStatus
<1>3. CASE ReportFailure
  <2> DEFINE new == [object EXCEPT !.ready = FALSE]
  <2>1. /\ new \in ObjectType
        /\ new.deleting = object.deleting /\ new.exists = object.exists
    BY <1>1 DEF ObjectType
  <2> QED BY <1>3, <2>1, WritesBackKeeps DEF ReportFailure
<1>4. CASE RemoveFinalizer
  BY <1>4, GoneFacts, WritesBackKeeps DEF RemoveFinalizer
<1> QED BY <1>2, <1>3, <1>4

LEMMA ReconcileKeeps == IInv /\ Reconcile => IInv'
<1>1. IInv /\ WriteFails => IInv'
  BY AbortKeeps DEF WriteFails, Counted
<1> QED
  BY <1>1, BeginKeeps, AddFinalizerKeeps, SyncRefusedKeeps, SyncFindsKeeps,
     SyncCannotFindKeeps, DeletionKeeps, ScriptKeeps, EndKeeps
  DEF Reconcile

-----------------------------------------------------------------------------
(* Around the controller.                                                  *)

(* Reconcile is where it was, and nobody has touched the object.           *)
LEMMA StillKeeps ==
  ASSUME IInv, UNCHANGED <<config, kube, local>>, Counted, CloudOK'
  PROVE  IInv'
<1>1. Steady
  BY CountedIsSteady
<1>2. LocalInv'
  BY <1>1, IInvLocal
  DEF LocalInv, LocalOK, Guarded, Removing, Steady, Keeps, Program, Ours, local, IInv, TypeOK
<1> QED BY <1>2, InnerKeeps

LEMMA RequestDeleteKeeps == IInv /\ RequestDelete => IInv'
<1> SUFFICES ASSUME IInv, RequestDelete PROVE IInv'
  OBVIOUS
<1>1. object' = (IF object.finalizer THEN [object EXCEPT !.deleting = TRUE] ELSE Gone)
  BY DEF RequestDelete
<1>2. object \in ObjectType
  BY DEF IInv, TypeOK, KubeOK
<1>3. /\ object' \in ObjectType
      /\ object'.deleting \/ ~object'.exists
      /\ object.finalizer => object'.finalizer
  BY <1>1, <1>2, GoneFacts DEF ObjectType
<1>4. /\ cacheFresh' = FALSE /\ workFresh' = FALSE
      /\ UNCHANGED <<config, cache, pc, work, todo, target, seen, cloud, access, faults>>
  BY DEF RequestDelete
<1>5. LocalInv'
  BY <1>3, <1>4
  DEF LocalInv, LocalOK, Guarded, Removing, Keeps, Program, Ours, IInv, TypeOK
<1> QED BY <1>3, <1>4, <1>5, WriteKeeps

LEMMA SyncCacheKeeps == IInv /\ SyncCache => IInv'
<1> SUFFICES ASSUME IInv, SyncCache PROVE IInv'
  OBVIOUS
<1>1. /\ cache' = object /\ cacheFresh' = TRUE
      /\ UNCHANGED <<config, object, pc, work, workFresh, todo, target, seen>>
      /\ UNCHANGED <<cloud, access, faults>>
  BY DEF SyncCache, local
<1>2. TypeOK'
  BY <1>1 DEF IInv, TypeOK, KubeOK, LocalOK, CloudOK, Ours
<1>3. Guarded' /\ Removing'
  BY <1>1 DEF IInv, Guarded, Removing, Keeps, Program, Ours
<1> QED BY <1>1, <1>2, <1>3 DEF IInv, Latest, DeletionKnown

LEMMA CloudStepKeeps ==
  ASSUME NEW i \in Ids
  PROVE  IInv /\ (CloudStep(i) \/ Perish(i)) => IInv'
<1> SUFFICES ASSUME IInv, CloudStep(i) \/ Perish(i) PROVE IInv'
  OBVIOUS
<1>1. PICK st \in {"available", "gone"} :
        cloud' = [cloud EXCEPT ![i] = [cloud[i] EXCEPT !.state = st]]
  BY DEF CloudStep, Perish
<1>2. /\ UNCHANGED <<config, kube, local, access>> /\ Counted
  BY DEF CloudStep, Perish, Counted
<1>3. [cloud[i] EXCEPT !.state = st] \in [state : States, parts : SUBSET STRING, spare : BOOLEAN]
  BY CloudFacts DEF IInv, TypeOK, States
<1>4. CloudOK'
  BY <1>1, <1>2, <1>3, CloudKeeps DEF IInv, TypeOK
<1> QED BY <1>2, <1>4, StillKeeps

(* The provider, its credentials and the Secret come and go.               *)
LEMMA AccessKeeps ==
  IInv /\ (CheckProvider \/ DeleteProvider \/ LoseCredentials \/ LoseSecret \/ Repair) => IInv'
<1> SUFFICES ASSUME IInv,
                    CheckProvider \/ DeleteProvider \/ LoseCredentials \/ LoseSecret \/ Repair
             PROVE  IInv'
  OBVIOUS
<1>1. UNCHANGED <<config, kube, local, cloud>> /\ Counted
  BY DEF CheckProvider, DeleteProvider, LoseCredentials, LoseSecret, Repair, Counted
<1>2. access' \in [provider : {"none", "notReady", "ready"}, creds : {"missing", "bad", "good"},
                   secret : BOOLEAN]
  BY DEF CheckProvider, DeleteProvider, LoseCredentials, LoseSecret, Repair, IInv, TypeOK, CloudOK
<1>3. CloudOK'
  BY <1>1, <1>2 DEF CloudOK, IInv, TypeOK
<1> QED BY <1>1, <1>3, StillKeeps

LEMMA EnvironmentKeeps == IInv /\ Environment => IInv'
<1>1. IInv /\ Crash => IInv'
  BY AbortKeeps DEF Crash, Counted
<1> QED
  BY <1>1, SyncCacheKeeps, RequestDeleteKeeps, CloudStepKeeps, AccessKeeps DEF Environment

-----------------------------------------------------------------------------
(* The theorems.                                                           *)

LEMMA InitEstablishes == Init => IInv
<1> SUFFICES ASSUME Init PROVE IInv
  OBVIOUS
<1>1. /\ config \in [kind : Kinds, policy : STRING, valid : BOOLEAN, faults : Nat]
      /\ config.policy \in DOMAIN Ours.delete
  BY CatalogueAssumption DEF Init, Ours
<1>2. Created \in ObjectType /\ ~Created.deleting /\ Created.exists
  BY DEF Created, Object, ObjectType
<1>3. KubeOK
  BY <1>2 DEF Init, KubeOK
<1>4. LocalOK
  BY GoneFacts, EmptyScript DEF Init, LocalOK
<1>5. CloudOK
  BY DEF Init, CloudOK, Nothing, Resource
<1>6. Guarded /\ Removing
  BY EmptyScript DEF Init, Guarded, Removing
<1>7. faults \in 0..config.faults
  BY <1>1 DEF Init
<1> QED
  BY <1>1, <1>2, <1>3, <1>4, <1>5, <1>6, <1>7, GoneFacts
  DEF IInv, TypeOK, Latest, DeletionKnown, Init

LEMMA StutterKeeps == IInv /\ UNCHANGED vars => IInv'
BY StillKeeps DEF vars, kube, local, Counted, IInv, TypeOK, CloudOK

(* The invariant holds of every controller in every catalogue.             *)
THEOREM Invariant == Spec => []IInv
<1>1. IInv /\ [Next]_vars => IInv'
  BY ReconcileKeeps, EnvironmentKeeps, StutterKeeps DEF Next
<1> QED BY InitEstablishes, <1>1, PTL DEF Spec

(* All variables stay of their types, scripts and ids included.            *)
THEOREM TypeCorrect == Spec => []TypeOK
<1>1. IInv => TypeOK
  BY DEF IInv
<1> QED BY Invariant, <1>1, PTL

(* Only the calls that create make use of an id.                           *)
LEMMA OthersMakeNothing ==
  ASSUME IInv, Next, Unused' # Unused
  PROVE  pc = "run"
<1>1. SUFFICES ASSUME pc # "run" PROVE Unused' = Unused
  OBVIOUS
<1>2. CASE UNCHANGED cloud
  BY <1>2 DEF Unused
<1>3. ~Script
  BY <1>1 DEF Script, CreateResource, CreateRefused, AllocateSpare, AllocateRefused, Configure,
     ConfigureRefused, NothingToMend, TakeAway, TakeAwayRefused, LookUp, LookUpRefused,
     PlainCall, Delete, DeleteRefused, NotImplemented, CallFails, Running
<1>4. Reconcile => UNCHANGED cloud
  BY <1>3 DEF Reconcile, ProviderNotUsable, BeginSync, BeginDeletion, ReadObject, AddFinalizer,
     SyncWithoutSecret, SyncInvalid, SyncFinds, SyncCannotFind, SyncAsksInVain, SyncSearches,
     DeleteFinds, DeleteCannotFind,
     WriteStatus, ReportFailure, RemoveFinalizer, WritesBack, WriteFails
<1>5. CASE \E i \in Ids : CloudStep(i) \/ Perish(i)
  <2>1. PICK i \in Ids, st \in {"available", "gone"} :
          /\ cloud[i].state \in {"pending", "available", "deleting"}
          /\ cloud' = [cloud EXCEPT ![i].state = st]
    BY <1>5 DEF CloudStep, Perish, Alive
  <2>2. \A j \in Ids : (cloud'[j].state = "none") = (cloud[j].state = "none")
    BY <2>1 DEF IInv, TypeOK, CloudOK
  <2> QED BY <2>2 DEF Unused
<1>6. Environment => UNCHANGED cloud \/ \E i \in Ids : CloudStep(i) \/ Perish(i)
  BY DEF Environment, Crash, SyncCache, RequestDelete, CheckProvider, DeleteProvider,
     LoseCredentials, LoseSecret, Repair
<1> QED BY <1>2, <1>4, <1>5, <1>6 DEF Next

(* Whatever is made is made for an object that its finalizer keeps.        *)
THEOREM MadeGuarded == Spec => NothingMadeUnguarded
<1>1. ASSUME IInv, Next, Unused' # Unused
      PROVE  object.finalizer \/ faults > 0
  <2>1. pc = "run"
    BY <1>1, OthersMakeNothing
  <2> QED BY <1>1, <2>1 DEF IInv, TypeOK, Guarded
<1>2. IInv /\ [Next]_vars => [Unused' # Unused => object.finalizer \/ faults > 0]_vars
  BY <1>1
<1> QED BY Invariant, <1>2, PTL DEF Spec, NothingMadeUnguarded

(* A resource that is changed in its parts only, or that is new, or that   *)
(* becomes available, leaves all that lives alive.                         *)
LEMMA LiveStays ==
  ASSUME CloudOK, NEW i \in Ids, NEW new,
         cloud' = [cloud EXCEPT ![i] = new],
         i \in Live => new.state \in {"pending", "available"} /\ ~new.spare
  PROVE  Live \subseteq Live'
BY DEF CloudOK, Live, Alive

LEMMA OnlyRemovalsDelete ==
  ASSUME IInv, Script, ~(Live \subseteq Live')
  PROVE  pc = "run" /\ Does(todo, "remove")
<1>1. CloudOK
  BY DEF IInv, TypeOK
<1>2. CASE UNCHANGED cloud
  BY <1>2 DEF Live, Alive
<1>3. CASE Delete
  <2>1. pc = "run" /\ Head(todo).op = "remove"
    BY <1>3 DEF Delete, Running
  <2> QED BY <2>1, RunFacts, ScriptFacts
<1>4. CASE \E i \in Fresh : \E new : cloud' = [cloud EXCEPT ![i] = new]
  <2>1. PICK i \in Fresh : \E new : cloud' = [cloud EXCEPT ![i] = new]
    BY <1>4
  <2>2. i \in Ids /\ i \notin Live
    BY DEF Fresh, Unused, Live, Alive
  <2> QED BY <1>1, <2>1, <2>2, LiveStays
<1>5. CASE Configure \/ TakeAway
  <2>1. PICK i \in Ids : \E parts :
          cloud' = [cloud EXCEPT ![i] = [cloud[i] EXCEPT !.parts = parts]]
    BY <1>5 DEF Configure, TakeAway, Live
  <2>2. PICK parts : cloud' = [cloud EXCEPT ![i] = [cloud[i] EXCEPT !.parts = parts]]
    BY <2>1
  <2>3. i \in Live => /\ [cloud[i] EXCEPT !.parts = parts].state \in {"pending", "available"}
                      /\ ~[cloud[i] EXCEPT !.parts = parts].spare
    BY <1>1 DEF Live, Alive, CloudOK
  <2> QED BY <1>1, <2>2, <2>3, LiveStays
<1> QED
  BY <1>2, <1>3, <1>4, <1>5
  DEF Script, CreateResource, CreateRefused, AllocateSpare, AllocateRefused,
     ConfigureRefused, NothingToMend, TakeAwayRefused, LookUp, LookUpRefused,
     PlainCall, DeleteRefused, NotImplemented, CallFails, Refused

LEMMA ScriptDeletesAsked ==
  ASSUME IInv, Script, ~(Live \subseteq Live')
  PROVE  ~Keeps /\ (object.deleting \/ ~object.exists)
BY OnlyRemovalsDelete, IInvLocal DEF LocalInv, Removing

LEMMA OthersDeleteNothing ==
  ASSUME IInv, Next, ~Script, faults' = faults
  PROVE  Live \subseteq Live'
<1>1. CASE UNCHANGED cloud
  BY <1>1 DEF Live, Alive
<1>2. Reconcile => UNCHANGED cloud
  BY DEF Reconcile, ProviderNotUsable, BeginSync, BeginDeletion, ReadObject, AddFinalizer,
     SyncWithoutSecret, SyncInvalid, SyncFinds, SyncCannotFind, SyncAsksInVain, SyncSearches,
     DeleteFinds, DeleteCannotFind,
     WriteStatus, ReportFailure, RemoveFinalizer, WritesBack, WriteFails
<1>3. CASE \E i \in Ids : CloudStep(i)
  <2>1. PICK i \in Ids, st \in {"available", "gone"} :
          /\ cloud[i].state = "pending" => st = "available"
          /\ cloud[i].state \in {"pending", "deleting"}
          /\ cloud' = [cloud EXCEPT ![i] = [cloud[i] EXCEPT !.state = st]]
    BY <1>3 DEF CloudStep
  <2>2. i \in Live => /\ [cloud[i] EXCEPT !.state = st].state \in {"pending", "available"}
                      /\ ~[cloud[i] EXCEPT !.state = st].spare
    BY <2>1 DEF Live, Alive, CloudOK, IInv, TypeOK
  <2> QED BY <2>1, <2>2, LiveStays DEF IInv, TypeOK
<1>4. ~ \E i \in Ids : Perish(i)
  BY DEF Perish, Fault, IInv, TypeOK
<1>5. Environment => UNCHANGED cloud \/ \E i \in Ids : CloudStep(i)
  BY <1>4 DEF Environment, Crash, SyncCache, RequestDelete, CheckProvider, DeleteProvider,
     LoseCredentials, LoseSecret, Repair
<1> QED BY <1>1, <1>2, <1>3, <1>5 DEF Next

(* The controllers destroy nothing unless the user has deleted the object  *)
(* and the deletion policy does not say otherwise.                         *)
THEOREM DeletedOnlyAsked == Spec => NothingDeletedUnasked
<1>1. ASSUME IInv, Next
      PROVE  \/ Live \subseteq Live' \/ faults' # faults
             \/ ~Keeps /\ (object.deleting \/ ~object.exists)
  BY <1>1, ScriptDeletesAsked, OthersDeleteNothing
<1>2. IInv /\ [Next]_vars =>
        [Live \subseteq Live' \/ faults' # faults
           \/ (~Keeps /\ (object.deleting \/ ~object.exists))]_vars
  BY <1>1
<1> QED BY Invariant, <1>2, PTL DEF Spec, NothingDeletedUnasked

=============================================================================
