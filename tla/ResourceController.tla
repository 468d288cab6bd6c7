------------------------- MODULE ResourceController -------------------------
(***************************************************************************)
(* One object of the operator, the AWS resources made for it, and the      *)
(* Reconcile of its kind: what all the resource controllers do, with the   *)
(* scripts of their use cases run one AWS call at a time, so that whatever *)
(* may happen between two calls happens there.  The AWSProvider of the     *)
(* object and its controller are here too.                                 *)
(*                                                                         *)
(* A controller reconciles one object at a time.  It reads the object from *)
(* a cache that may be behind, and the API server refuses a write that is  *)
(* based on an old version.                                                *)
(***************************************************************************)
EXTENDS AwsScripts, Integers, FiniteSets

CONSTANTS
  Kinds,        \* the kinds of resources
  Controller,   \* what is peculiar to the reconciler of a kind: see Reconcilers
  Service,      \* what AWS does with resources of a kind: see AwsServices
  Objects,      \* the objects considered: kind, policy and validity of the
                \* spec, and how often something goes wrong
  MaxId         \* how many resources the account's quota allows

Scripts  == Seq([op : Ops, parts : SUBSET STRING, on : {"fails", "ignored"}])
Programs == [guarded : BOOLEAN, find : DeletionLookups, script : Scripts]

ControllerType(c) ==
  /\ c.carries \in BOOLEAN
  /\ c.ready \in {"state", "named", "always"}
  /\ c.sync \in [find : Lookups, found : Scripts, absent : Scripts]
  /\ \A policy \in DOMAIN c.delete : c.delete[policy] \in Programs
  /\ {c.gate, c.onError, c.noSecret} \subseteq {"reported", "error"}
  /\ c.secret \in {"nothing", "sync", "both"}

ServiceType(s) ==
  /\ s.twins \in {"same", "refused", "another"}
  /\ {s.slow, s.lingers, s.forgives} \subseteq BOOLEAN
  /\ {s.exclusive, s.blocking} \subseteq SUBSET STRING

ASSUME CatalogueAssumption ==
  /\ \A kind \in Kinds : ControllerType(Controller[kind]) /\ ServiceType(Service[kind])
  /\ Objects \subseteq [kind : Kinds, policy : STRING, valid : BOOLEAN, faults : Nat]
  /\ \A o \in Objects : o.policy \in DOMAIN Controller[o.kind].delete

ASSUME BoundsAssumption == MaxId \in Nat \ {0}

Does(script, op) == \E k \in DOMAIN script : script[k].op = op

(* A script goes through one of the operations, or fails.                  *)
Insists(script, ops) == \E k \in DOMAIN script : script[k].op \in ops /\ script[k].on = "fails"

(* No use case deletes anything, or takes a part of it away, to make the   *)
(* resource as it should be.                                               *)
ASSUME SyncAssumption ==
  \A kind \in Kinds : \A script \in {Controller[kind].sync.found, Controller[kind].sync.absent} :
    ~Does(script, "remove") /\ ~Does(script, "drop") /\ ~Does(script, "clear")

(* Of resources with the same name only an id tells which one is meant;    *)
(* only when there is none a sync creates one, and a deletion deletes.     *)
Tells(kind, lookup) ==
  Service[kind].twins = "another" => Controller[kind].carries /\ lookup.by # "name"

ASSUME IdentityAssumption ==
  \A kind \in Kinds :
    /\ Tells(kind, Controller[kind].sync.find)
    /\ Insists(Controller[kind].sync.absent, {"make", "refuse"})
    /\ ~Does(Controller[kind].sync.found, "make")
    /\ \A policy \in DOMAIN Controller[kind].delete :
         LET program == Controller[kind].delete[policy]
         IN Does(program.script, "remove") =>
              /\ Tells(kind, program.find)
              /\ Insists(program.script, {"remove"})
              /\ (program.guarded /\ program.find.by \in {"record", "id", "recordOrName"}
                    => Controller[kind].carries)

(* A step that, about a resource that lives, is never refused, or whose    *)
(* refusal does not matter.                                                *)
Certain(step) ==
  /\ step.op # "make"
  /\ step.op \in {"set", "mend", "look", "call"} \/ step.on = "ignored"

(* Nothing that comes after the creation can be refused.                   *)
Final(script) ==
  \A j, k \in DOMAIN script : j < k /\ script[j].op = "make" => Certain(script[k])

(* No deletion makes anything, and a resource that only its id tells from  *)
(* another is made when nothing is left that could fail without a cause.   *)
ASSUME CreationAssumption ==
  \A kind \in Kinds :
    /\ Service[kind].twins = "another" => Final(Controller[kind].sync.absent)
    /\ \A policy \in DOMAIN Controller[kind].delete :
         ~Does(Controller[kind].delete[policy].script, "make")

(* What the operations of a script give, if they are not ignored.          *)
PartsOf(script, ops) ==
  UNION {script[k].parts : k \in {j \in DOMAIN script : script[j].op \in ops
                                                    /\ script[j].on = "fails"}}

(* What a script gives after one of its steps.                             *)
After(script, k) ==
  UNION {script[j].parts : j \in {j \in DOMAIN script :
    k < j /\ script[j].op \in {"set", "mend"} /\ script[j].on = "fails"}}

(* What a creation is to give: all but the Secret with the private key of  *)
(* a key pair; a failure to write that is not made good.                   *)
Whole(sync) == PartsOf(sync.absent, {"make", "set", "mend"}) \ {"privateKeySecret"}

(* What it gives at once.                                                  *)
AtOnce(sync) ==
  {part \in Whole(sync) : \A k \in DOMAIN sync.absent :
     sync.absent[k].op = "make" => part \in sync.absent[k].parts}

(* What a creation does not give at once it gives later; and if it failed  *)
(* half-way then either nothing finds what it has made, or what does goes  *)
(* on from there.                                                          *)
ASSUME CompletionAssumption ==
  \A kind \in Kinds :
    LET sync == Controller[kind].sync
    IN /\ \A k \in DOMAIN sync.absent :
            sync.absent[k].op = "make"
              => Whole(sync) \subseteq AtOnce(sync) \cup After(sync.absent, k)
       /\ \/ sync.find.by \in {"record", "id"} /\ Service[kind].twins # "same"
          \/ Whole(sync) \subseteq AtOnce(sync) \cup PartsOf(sync.found, {"set", "mend"})

Ids == 1..MaxId
None == 0

VARIABLES
  config,      \* the spec, as far as it matters: a member of Objects
  object,      \* the object in the API server
  cache,       \* the object in the controller's cache
  cacheFresh,  \* whether that is the latest version
  pc,          \* where Reconcile is
  work,        \* the object that Reconcile has read
  workFresh,   \* whether it is still the latest version
  todo,        \* the calls that the script has left
  target,      \* the resource that the script is about
  seen,        \* the state of it that AWS has reported
  cloud,       \* the resources
  access,      \* the AWSProvider, its credentials, and the Secret of the spec
  faults       \* how often something has gone wrong

local  == <<pc, work, workFresh, todo, target, seen>>
kube   == <<object, cache, cacheFresh>>
vars   == <<config, object, cache, cacheFresh, pc, work, workFresh, todo, target,
            seen, cloud, access, faults>>

Object(exists, deleting, finalizer, ready, id) ==
  [exists |-> exists, deleting |-> deleting, finalizer |-> finalizer,
   ready |-> ready, id |-> id]

Created == Object(TRUE, FALSE, FALSE, FALSE, None)
Gone    == Object(FALSE, FALSE, FALSE, FALSE, None)

Resource(state, parts, spare) == [state |-> state, parts |-> parts, spare |-> spare]

Nothing == Resource("none", {}, FALSE)

Ours   == Controller[config.kind]
Theirs == Service[config.kind]

(* The program that the deletion policy calls for.                         *)
Program == Ours.delete[config.policy]

Fault == faults < config.faults /\ faults' = faults + 1

-----------------------------------------------------------------------------
(* The resources.                                                          *)

Alive(i) == cloud[i].state \in {"pending", "available"}

(* What the object is about, without what was allocated besides.           *)
Live == {i \in Ids : Alive(i) /\ ~cloud[i].spare}

Described(i) == Alive(i) \/ (Theirs.lingers /\ cloud[i].state = "deleting")

Unused == {i \in Ids : cloud[i].state = "none"}

(* Those that have the resource's name.                                    *)
Named == {i \in Ids : Described(i) /\ ~cloud[i].spare}

(* Mutant of the next one: the mapper leaves out the id.                   *)
KnownToNobody(o) == {}

(* The id in the status of an object that the use case gets to know.       *)
Known(o) == IF Ours.carries THEN {o.id} \ {None} ELSE {}

(* What a lookup for an object finds.                                      *)
Found(lookup, o) ==
  LET described == {i \in Known(o) : Described(i)}
  IN CASE lookup.by = "record"           -> Known(o)
       [] lookup.by \in {"id", "anyId"}  -> described
       [] lookup.by = "name"             -> Named
       [] lookup.by = "either"           -> IF described # {} THEN described ELSE Named
       [] lookup.by = "recordOrName"     -> IF Known(o) # {} THEN Known(o) ELSE Named

(* Without an id most adapters have nothing that AWS could be asked about. *)
Asks(lookup, o) ==
  \/ lookup.by \in {"anyId", "name", "either"}
  \/ lookup.by = "id" /\ Known(o) # {}
  \/ lookup.by = "recordOrName" /\ Known(o) = {}

(* What the others ask then AWS does not accept as a question.             *)
Senseless(lookup, o) == lookup.by = "anyId" /\ Known(o) = {}

-----------------------------------------------------------------------------
(* A call that AWS answers, and one that it does not, or with an error     *)
(* that has nothing to do with the resource.                               *)
Answered == access.creds = "good" /\ UNCHANGED faults
Broken   == IF access.creds = "good" THEN Fault ELSE UNCHANGED faults

(* Mutant of the next one: the script outlives its Reconcile.              *)
ForgetAllButTheScript ==
  /\ work' = Gone /\ workFresh' = FALSE
  /\ UNCHANGED todo /\ target' = None /\ seen' = "none"

(* Reconcile ends; its local variables are forgotten.                      *)
Forget ==
  /\ work' = Gone /\ workFresh' = FALSE
  /\ todo' = <<>> /\ target' = None /\ seen' = "none"

Return == pc' = "idle" /\ Forget

(* A sync that fails is reported in the status, or only returned.          *)
SyncFails ==
  IF Ours.onError = "reported"
  THEN /\ pc' = "report" /\ todo' = <<>> /\ target' = None /\ seen' = "none"
       /\ UNCHANGED <<work, workFresh>>
  ELSE Return

(* Mutant: a deletion that fails releases the object all the same.         *)
FailsAndReleases ==
  IF work.deleting
  THEN /\ pc' = "release" /\ todo' = <<>> /\ target' = None /\ seen' = "none"
       /\ UNCHANGED <<work, workFresh>>
  ELSE SyncFails

Fails == IF work.deleting THEN Return ELSE SyncFails

(* The calls that are left; after the last one what it was all for.        *)
Continue(script) ==
  /\ todo' = script
  /\ pc' = IF script # <<>> THEN "run"
           ELSE IF work.deleting THEN "release" ELSE "status"
  /\ UNCHANGED <<work, workFresh>>

-----------------------------------------------------------------------------
(* The beginning of Reconcile.  The provider comes first, even before the  *)
(* deletion: what it does not let us reach is not deleted.                 *)

Usable == access.provider = "ready" /\ access.creds # "missing"

ReadObject ==
  /\ pc = "idle"
  /\ IF cacheFresh THEN UNCHANGED faults ELSE Fault
  /\ work' = cache /\ workFresh' = cacheFresh
  /\ todo' = <<>> /\ target' = None /\ seen' = "none"
  /\ UNCHANGED <<config, object, cache, cacheFresh, cloud, access>>

ProviderNotUsable ==
  /\ ReadObject /\ cache.exists /\ ~Usable
  /\ Ours.gate = "reported"
  /\ pc' = "report"

(* Mutant: the finalizer is left for the next Reconcile.                   *)
BeginSyncUnguarded ==
  /\ ReadObject /\ cache.exists /\ Usable
  /\ ~cache.deleting
  /\ pc' = "find"

BeginSync ==
  /\ ReadObject /\ cache.exists /\ Usable
  /\ ~cache.deleting
  /\ pc' = IF cache.finalizer THEN "find" ELSE "finalizer"

(* Mutant: only what is ready is deleted.                                  *)
BeginDeletionOfReady ==
  /\ ReadObject /\ cache.exists /\ Usable
  /\ cache.deleting /\ cache.finalizer /\ cache.ready
  /\ Ours.secret = "both" => access.secret
  /\ pc' = "find"

BeginDeletion ==
  /\ ReadObject /\ cache.exists /\ Usable
  /\ cache.deleting /\ cache.finalizer
  /\ Ours.secret = "both" => access.secret
  /\ pc' = "find"

AddFinalizer ==
  /\ pc = "finalizer"
  /\ IF workFresh
     THEN /\ object' = [object EXCEPT !.finalizer = TRUE]
          /\ work' = [work EXCEPT !.finalizer = TRUE]
          /\ cacheFresh' = FALSE
          /\ pc' = "find"
          /\ UNCHANGED <<workFresh, todo, target, seen>>
     ELSE /\ Return
          /\ UNCHANGED <<object, cacheFresh>>
  /\ UNCHANGED <<config, cache, cloud, access, faults>>

-----------------------------------------------------------------------------
(* The sync: a Secret that is missing, a spec that is not valid, and then  *)
(* whether the resource exists.                                            *)

Syncing == pc = "find" /\ ~work.deleting

SecretMissing == Ours.secret # "nothing" /\ ~access.secret

SyncWithoutSecret ==
  /\ Syncing /\ SecretMissing
  /\ IF Ours.noSecret = "reported"
     THEN pc' = "report" /\ UNCHANGED <<work, workFresh, todo, target, seen>>
     ELSE Return
  /\ UNCHANGED <<config, kube, cloud, access, faults>>

SyncInvalid ==
  /\ Syncing /\ ~SecretMissing /\ ~config.valid
  /\ SyncFails
  /\ UNCHANGED <<config, kube, cloud, access, faults>>

Absent == target' = None /\ seen' = "none" /\ Continue(Ours.sync.absent)

SyncFinds ==
  /\ Syncing /\ ~SecretMissing /\ config.valid
  /\ ~Senseless(Ours.sync.find, work)
  /\ IF Asks(Ours.sync.find, work) THEN Answered ELSE UNCHANGED faults
  /\ \/ \E i \in Found(Ours.sync.find, work) :
          target' = i /\ UNCHANGED seen /\ Continue(Ours.sync.found)
     \/ /\ Found(Ours.sync.find, work) = {}
        /\ IF Asks(Ours.sync.find, work) /\ Ours.sync.find.onMissing = "fails"
           THEN SyncFails ELSE Absent
  /\ UNCHANGED <<config, kube, cloud, access>>

SyncCannotFind ==
  /\ Syncing /\ ~SecretMissing /\ config.valid
  /\ Asks(Ours.sync.find, work) /\ Broken
  /\ IF Ours.sync.find.onError = "absent" THEN Absent ELSE SyncFails
  /\ UNCHANGED <<config, kube, cloud, access>>

SyncAsksInVain ==
  /\ Syncing /\ ~SecretMissing /\ config.valid
  /\ Senseless(Ours.sync.find, work) /\ Answered
  /\ SyncFails
  /\ UNCHANGED <<config, kube, cloud, access>>

(* The first question fails, the second one does not.                      *)
SyncSearches ==
  /\ Syncing /\ ~SecretMissing /\ config.valid
  /\ Ours.sync.find.by = "either" /\ Known(work) # {}
  /\ access.creds = "good" /\ Fault
  /\ \/ \E i \in Named : target' = i /\ UNCHANGED seen /\ Continue(Ours.sync.found)
     \/ /\ Named = {}
        /\ IF Ours.sync.find.onMissing = "fails" THEN SyncFails ELSE Absent
  /\ UNCHANGED <<config, kube, cloud, access>>

-----------------------------------------------------------------------------
(* The deletion.                                                           *)

(* Mutant: the finalizer is taken for the request to delete.               *)
DeletingGuarded == pc = "find" /\ work.finalizer

Deleting == pc = "find" /\ work.deleting

DeleteFinds ==
  /\ Deleting
  /\ IF Program.guarded /\ Asks(Program.find, work) THEN Answered ELSE UNCHANGED faults
  /\ UNCHANGED seen
  /\ \/ \E i \in Found(Program.find, work) : target' = i /\ Continue(Program.script)
     \/ /\ Found(Program.find, work) = {}
        /\ IF ~Program.guarded THEN UNCHANGED target /\ Continue(Program.script)
           ELSE IF Asks(Program.find, work) /\ Program.find.onMissing = "fails" THEN Return
           ELSE UNCHANGED target /\ Continue(<<>>)
  /\ UNCHANGED <<config, kube, cloud, access>>

DeleteCannotFind ==
  /\ Deleting
  /\ Program.guarded /\ Asks(Program.find, work) /\ Broken
  /\ IF Program.find.onError = "absent"
     THEN UNCHANGED <<target, seen>> /\ Continue(<<>>) ELSE Return
  /\ UNCHANGED <<config, kube, cloud, access>>

-----------------------------------------------------------------------------
(* The steps of the scripts.                                               *)

Running(ops) == pc = "run" /\ Head(todo).op \in ops

Parts == Head(todo).parts

Proceed == Continue(Tail(todo))

(* Mutant: errors are logged, and that is all.                             *)
StepPasses == Proceed /\ UNCHANGED <<target, seen>>

(* AWS refuses the call, or does not answer it.                            *)
StepFails ==
  IF Head(todo).on = "ignored" THEN Proceed /\ UNCHANGED <<target, seen>> ELSE Fails

Remains == UNCHANGED <<config, kube, access>>

Refused == StepFails /\ UNCHANGED <<faults, cloud>> /\ Remains

(* The next id: which one it is makes no difference.                       *)
Fresh == {i \in Unused : \A j \in Unused : i <= j}

Twins == {i \in Ids : ~cloud[i].spare /\ cloud[i].state \in {"pending", "available", "deleting"}}

Initially == IF Theirs.slow THEN "pending" ELSE "available"

CreateResource ==
  /\ Running({"make"}) /\ Answered
  /\ \/ /\ Theirs.twins = "another" \/ Twins = {}
        /\ seen' = Initially
        /\ \E i \in Fresh : /\ target' = i
                            /\ cloud' = [cloud EXCEPT ![i] = Resource(Initially, Parts, FALSE)]
     \/ /\ Theirs.twins = "same"
        /\ \E i \in Twins : target' = i /\ seen' = cloud[i].state
        /\ UNCHANGED cloud
  /\ Proceed /\ Remains

CreateRefused ==
  /\ Running({"make"})
  /\ Fresh = {} \/ (Theirs.twins = "refused" /\ Twins # {})
  /\ Refused

AllocateSpare ==
  /\ Running({"allocate"}) /\ Answered
  /\ \E i \in Fresh : cloud' = [cloud EXCEPT ![i] = Resource("available", {}, TRUE)]
  /\ UNCHANGED <<target, seen>>
  /\ Proceed /\ Remains

AllocateRefused == Running({"allocate"}) /\ Fresh = {} /\ Refused

(* Nobody else holds a part that only one resource can have.               *)
Free ==
  \A j \in Live \ {target} : Parts \cap Theirs.exclusive \cap cloud[j].parts = {}

Configure ==
  /\ Running({"set", "mend"}) /\ Answered
  /\ target \in Live /\ Free
  /\ cloud' = [cloud EXCEPT ![target].parts = @ \cup Parts]
  /\ UNCHANGED <<target, seen>>
  /\ Proceed /\ Remains

ConfigureRefused ==
  /\ Running({"set", "mend"})
  /\ ~(target \in Live /\ Free)
  /\ Refused

(* The comparison shows that there is nothing to do.                       *)
NothingToMend ==
  /\ Running({"mend"})
  /\ target \in Live /\ Parts \subseteq cloud[target].parts
  /\ UNCHANGED <<target, seen, cloud, faults>>
  /\ Proceed /\ Remains

TakeAway ==
  /\ Running({"drop", "clear"}) /\ Answered
  /\ target \in Live
  /\ Running({"drop"}) => Parts \subseteq cloud[target].parts
  /\ cloud' = [cloud EXCEPT ![target].parts = @ \ Parts]
  /\ UNCHANGED <<target, seen>>
  /\ Proceed /\ Remains

TakeAwayRefused ==
  /\ Running({"drop", "clear"})
  /\ ~(target \in Live /\ (Running({"drop"}) => Parts \subseteq cloud[target].parts))
  /\ Refused

(* Mutant: the state that AWS has reported is not copied.                  *)
LookUpUnread ==
  /\ Running({"look"}) /\ Answered
  /\ target \in Ids /\ Described(target)
  /\ UNCHANGED <<target, seen, cloud>>
  /\ Proceed /\ Remains

LookUp ==
  /\ Running({"look"}) /\ Answered
  /\ target \in Ids /\ Described(target)
  /\ seen' = cloud[target].state
  /\ UNCHANGED <<target, cloud>>
  /\ Proceed /\ Remains

LookUpRefused ==
  /\ Running({"look"})
  /\ ~(target \in Ids /\ Described(target))
  /\ Refused

PlainCall ==
  /\ Running({"call"}) /\ Answered
  /\ UNCHANGED <<target, seen, cloud>>
  /\ Proceed /\ Remains

Removable == target \in Live /\ cloud[target].parts \cap Theirs.blocking = {}

(* Deleting what is being deleted already succeeds or fails.               *)
Delete ==
  /\ Running({"remove"}) /\ Answered
  /\ \/ /\ Removable
        /\ cloud' = [cloud EXCEPT ![target].state = IF Theirs.lingers THEN "deleting" ELSE "gone"]
     \/ /\ target \in Ids /\ cloud[target].state = "deleting"
        /\ UNCHANGED cloud
     \/ /\ target \in Ids /\ cloud[target].state = "gone" /\ Theirs.forgives
        /\ UNCHANGED cloud
  /\ UNCHANGED <<target, seen>>
  /\ Proceed /\ Remains

DeleteRefused ==
  /\ Running({"remove"})
  /\ ~Removable
  /\ ~(target \in Ids \ Live /\ Theirs.forgives)
  /\ Refused

NotImplemented == Running({"refuse"}) /\ Refused

CallFails ==
  /\ Running(Ops \ {"refuse"}) /\ Broken
  /\ StepFails
  /\ UNCHANGED cloud /\ Remains

Script ==
  \/ CreateResource \/ CreateRefused \/ AllocateSpare \/ AllocateRefused
  \/ Configure \/ ConfigureRefused \/ NothingToMend
  \/ TakeAway \/ TakeAwayRefused \/ LookUp \/ LookUpRefused \/ PlainCall
  \/ Delete \/ DeleteRefused \/ NotImplemented \/ CallFails

-----------------------------------------------------------------------------
(* The end of Reconcile.                                                   *)

WritesBack(new) ==
  /\ IF workFresh THEN object' = new /\ cacheFresh' = FALSE
     ELSE UNCHANGED <<object, cacheFresh>>
  /\ Return
  /\ UNCHANGED <<config, cache, cloud, access, faults>>

(* What the domain object says of its readiness.                           *)
Ready == Ours.ready = "state" => seen = "available"

(* Mutant: the id stays in the domain object.                              *)
WriteStatusWithoutId ==
  pc = "status" /\ WritesBack([object EXCEPT !.ready = Ready])

WriteStatus ==
  pc = "status" /\ WritesBack([object EXCEPT !.ready = Ready, !.id = target])

(* The id that the failed sync may have learnt is not written.             *)
ReportFailure == pc = "report" /\ WritesBack([object EXCEPT !.ready = FALSE])

(* The finalizer is the last thing that keeps the object.                  *)
RemoveFinalizer == pc = "release" /\ WritesBack(Gone)

(* The API server does not answer.                                         *)
WriteFails ==
  /\ pc \in {"finalizer", "status", "report", "release"} /\ Fault
  /\ Return
  /\ UNCHANGED <<config, kube, cloud, access>>

Reconcile ==
  \/ ProviderNotUsable \/ BeginSync \/ BeginDeletion \/ AddFinalizer
  \/ SyncWithoutSecret \/ SyncInvalid \/ SyncFinds \/ SyncCannotFind
  \/ SyncAsksInVain \/ SyncSearches \/ DeleteFinds \/ DeleteCannotFind
  \/ Script
  \/ WriteStatus \/ ReportFailure \/ RemoveFinalizer \/ WriteFails

-----------------------------------------------------------------------------
(* Around the controller.                                                  *)

Crash ==
  /\ pc # "idle" /\ Fault
  /\ Return
  /\ UNCHANGED <<config, kube, cloud, access>>

SyncCache ==
  /\ ~cacheFresh
  /\ cache' = object /\ cacheFresh' = TRUE
  /\ UNCHANGED <<config, object, local, cloud, access, faults>>

(* The user deletes the object; the finalizer keeps it, marked.            *)
RequestDelete ==
  /\ object.exists /\ ~object.deleting
  /\ object' = IF object.finalizer THEN [object EXCEPT !.deleting = TRUE] ELSE Gone
  /\ cacheFresh' = FALSE /\ workFresh' = FALSE
  /\ UNCHANGED <<config, cache, pc, work, todo, target, seen, cloud, access, faults>>

(* A resource becomes available, or is gone after it was deleted.          *)
CloudStep(i) ==
  /\ cloud[i].state \in {"pending", "deleting"}
  /\ cloud' = [cloud EXCEPT ![i].state = IF @ = "pending" THEN "available" ELSE "gone"]
  /\ UNCHANGED <<config, kube, local, access, faults>>

(* Somebody else deletes it.                                               *)
Perish(i) ==
  /\ Alive(i) /\ Fault
  /\ cloud' = [cloud EXCEPT ![i].state = "gone"]
  /\ UNCHANGED <<config, kube, local, access>>

(* The reconciler of the AWSProvider asks AWS who the credentials are.     *)
CheckProvider ==
  /\ access.provider # "none"
  /\ access' = [access EXCEPT !.provider = IF access.creds = "good" THEN "ready" ELSE "notReady"]
  /\ UNCHANGED <<config, kube, local, cloud, faults>>

DeleteProvider ==
  /\ access.provider # "none" /\ Fault
  /\ access' = [access EXCEPT !.provider = "none"]
  /\ UNCHANGED <<config, kube, local, cloud>>

LoseCredentials ==
  /\ access.creds = "good" /\ Fault
  /\ \E creds \in {"missing", "bad"} : access' = [access EXCEPT !.creds = creds]
  /\ UNCHANGED <<config, kube, local, cloud>>

LoseSecret ==
  /\ Ours.secret # "nothing" /\ access.secret /\ Fault
  /\ access' = [access EXCEPT !.secret = FALSE]
  /\ UNCHANGED <<config, kube, local, cloud>>

(* The user puts right what is missing.                                    *)
Repair ==
  /\ access' \in {[access EXCEPT !.creds = "good"], [access EXCEPT !.secret = TRUE],
                  [access EXCEPT !.provider = IF @ = "none" THEN "notReady" ELSE @]}
  /\ access' # access
  /\ UNCHANGED <<config, kube, local, cloud, faults>>

Environment ==
  \/ Crash \/ SyncCache \/ RequestDelete
  \/ \E i \in Ids : CloudStep(i) \/ Perish(i)
  \/ CheckProvider \/ DeleteProvider \/ LoseCredentials \/ LoseSecret \/ Repair

-----------------------------------------------------------------------------
Init ==
  /\ config \in Objects
  /\ object = Created
  /\ cache = object /\ cacheFresh = TRUE
  /\ pc = "idle" /\ work = Gone /\ workFresh = FALSE
  /\ todo = <<>> /\ target = None /\ seen = "none"
  /\ cloud = [i \in Ids |-> Nothing]
  /\ access = [provider |-> "notReady", creds |-> "good", secret |-> TRUE]
  /\ faults = 0

Next == Reconcile \/ Environment

Spec == Init /\ [][Next]_vars

(* Every object is requeued, the watch delivers, AWS finishes what it has  *)
(* begun, and the provider is checked again every few minutes.             *)
Fairness ==
  /\ WF_vars(Reconcile) /\ WF_vars(SyncCache) /\ WF_vars(CheckProvider)
  /\ WF_vars(\E i \in Ids : CloudStep(i))

FairSpec == Spec /\ Fairness

-----------------------------------------------------------------------------
(* What the operator is about.                                             *)

ObjectType ==
  [exists : BOOLEAN, deleting : BOOLEAN, finalizer : BOOLEAN, ready : BOOLEAN,
   id : Ids \cup {None}]

KubeOK == {object, cache} \subseteq ObjectType /\ cacheFresh \in BOOLEAN

LocalOK ==
  /\ pc \in {"idle", "finalizer", "find", "run", "status", "report", "release"}
  /\ work \in ObjectType /\ workFresh \in BOOLEAN
  /\ todo \in Scripts /\ (pc = "run") = (todo # <<>>)
  /\ target \in Ids \cup {None}
  /\ seen \in {"none", "pending", "available", "deleting"}

CloudOK ==
  /\ cloud \in [Ids -> [state : {"none", "pending", "available", "deleting", "gone"},
                       parts : SUBSET STRING, spare : BOOLEAN]]
  /\ access \in [provider : {"none", "notReady", "ready"}, creds : {"missing", "bad", "good"},
                 secret : BOOLEAN]

(* Everything is of its type.                                              *)
TypeOK ==
  /\ config \in [kind : Kinds, policy : STRING, valid : BOOLEAN, faults : Nat]
  /\ config.policy \in DOMAIN Ours.delete
  /\ KubeOK /\ LocalOK /\ CloudOK
  /\ faults \in 0..config.faults

(* What was ever made for the object, but for what was allocated besides.  *)
Made == {i \in Ids \ Unused : ~cloud[i].spare}

(* As long as nothing goes wrong one resource is all that an object ever   *)
(* gets: a reconcile finds what the one before it has made, although the   *)
(* object may have been changed or deleted in between.                     *)
NothingMadeTwice == faults = 0 => \A i, j \in Made : i = j

(* A resource that the status calls ready has everything that its creation *)
(* should have given it, also if the creation failed half-way and a later  *)
(* reconcile went on from there.                                           *)
ReadyIsComplete ==
  object.ready /\ ~object.deleting /\ object.id \in Live =>
    Whole(Ours.sync) \subseteq cloud[object.id].parts

(* Policies under which the resource is to survive the object, if the      *)
(* reconciler asks for the policy at all (those of ECR and RDS do not).    *)
Keeps == ~Does(Program.script, "remove")

(* The controller destroys nothing unless the user has deleted the object  *)
(* and the deletion policy does not say otherwise.                         *)
NothingDeletedUnasked ==
  [][Live \subseteq Live' \/ faults' # faults
     \/ (~Keeps /\ (object.deleting \/ ~object.exists))]_vars

(* What the documentation promises for every kind: under Retain the object *)
(* goes and the resource stays.  DeleteDBInstance and DeleteRepository do  *)
(* not ask.                                                                *)
RetainHonoured ==
  [][config.policy = "Retain" => Live \subseteq Live' \/ faults' # faults]_vars

(* Whatever is made is made for an object that its finalizer keeps, so     *)
(* that there will be a deletion; only a reconcile that read an old        *)
(* version of the object makes something for one that is gone.             *)
NothingMadeUnguarded ==
  [][Unused' # Unused => object.finalizer \/ faults > 0]_vars

(* Nothing that lives drops out of the status, or is recorded when the     *)
(* object goes, unless it is to be kept.  A call that fails can make the   *)
(* lookups of many adapters answer that the resource does not exist.       *)
NothingForgotten ==
  [][object.id \in Live /\ object'.id # object.id =>
       \/ object.id \notin Live' \/ Keeps \/ faults > 0]_vars

(* The kinds for which an error of AWS passes for the absence of the       *)
(* resource, although its id is recorded, and which then let go of it.     *)
Forgetful ==
  \/ /\ Ours.sync.find.onError = "absent"
     /\ Theirs.twins = "another"
  \/ /\ Program.guarded /\ Program.find.by # "recordOrName"
     /\ Program.find.onError = "absent"

(* The invariant that the safety properties follow from.                   *)

(* What is said to be the latest version is it.                            *)
Latest == (cacheFresh => cache = object) /\ (workFresh => work = object)

(* A request to delete is not taken back.                                  *)
DeletionKnown ==
  \A copy \in {cache, work} : copy.deleting => object.deleting \/ ~object.exists

(* Nothing is looked for, or made, before the finalizer is there.          *)
Guarded == faults = 0 /\ pc \in {"find", "run"} => object.finalizer

(* Only the script of a deletion deletes.                                  *)
Removing == Does(todo, "remove") => work.deleting /\ ~Keeps

IInv == TypeOK /\ Latest /\ DeletionKnown /\ Guarded /\ Removing

(* What the operator may let go of: what it is to keep, and what it cannot *)
(* help to forget.                                                         *)
Kept == Keeps \/ Forgetful

(* And what it may let go of by now: it forgets when an error passes for   *)
(* an answer.                                                              *)
Excused == Keeps \/ (Forgetful /\ faults > 0)

(* And the one that the promise of the other kinds follows from.           *)

(* Ids come from AWS, and only with a finalizer into the status.           *)
Recording ==
  /\ {object.id, cache.id, work.id, target} \cap Unused = {}
  /\ object.id # None => object.finalizer

(* AWS answers until something goes wrong.                                 *)
Trusted == access.creds # "good" => faults > 0

(* A reconcile is about an object that exists, and that has a finalizer    *)
(* before it looks for anything.                                           *)
Attending ==
  /\ pc # "idle" => work.exists
  /\ pc \in {"find", "run", "status", "release"} => work.finalizer
  /\ pc \in {"finalizer", "find"} => target = None
  /\ pc = "status" => ~work.deleting
  /\ pc = "release" => work.deleting

(* Where names are unique, there is one resource of a name.                *)
OneOfAName == Theirs.twins # "another" => \A i, j \in Twins : i = j

(* Scripts are in the order in which the adapters have put them.           *)
InOrder ==
  /\ work.deleting => ~Does(todo, "make")
  /\ Theirs.twins = "another" => Final(todo)

(* Where a name finds what an id has not found, a resource is made only if *)
(* no other has its name, so that there is one of a name there too.        *)
Searched ==
  Ours.sync.find.by = "either" /\ Ours.sync.find.onError = "fails"
  /\ Theirs.twins = "another"
  => /\ \A i, j \in Named : i = j
     /\ pc = "run" /\ Does(todo, "make") => Named = {}

(* A sync ends up with the resource in the status, if that lives.          *)
SyncsTheSame ==
  (/\ pc \in {"run", "status"} /\ ~work.deleting /\ workFresh
   /\ ~Excused /\ object.id \in Live)
  => \/ /\ target = object.id
        /\ Theirs.twins = "another" => ~Does(todo, "make")
     \/ /\ target = None /\ pc = "run"
        /\ Theirs.twins # "another" /\ Insists(todo, {"make", "refuse"})

(* A deletion does not end before that is deleted.                         *)
DeletesTheSame ==
  (/\ pc \in {"run", "release"} /\ work.deleting /\ workFresh
   /\ ~Excused /\ object.id \in Live)
  => /\ pc = "run" /\ target \in {None, object.id}
     /\ Insists(todo, {"remove"}) /\ ~Does(todo, "make")

PInv ==
  /\ IInv /\ InOrder /\ Searched
  /\ Trusted /\ Recording /\ Attending /\ OneOfAName
  /\ SyncsTheSame /\ DeletesTheSame

(* And the one that NothingMadeTwice follows from.                         *)

(* The user has deleted the object.                                        *)
Ending == object.deleting \/ ~object.exists

(* As long as nothing goes wrong only that overtakes a reconcile.          *)
Overtaken == pc # "idle" /\ ~workFresh => Ending

(* What is deleted is deleted by a deletion, after which there is no sync. *)
Over == Made \subseteq Live \/ (Ending /\ (pc \in {"idle", "report"} \/ work.deleting))

(* The sync that has made a resource is still at work, and not overtaken.  *)
Delivering(i) ==
  /\ pc \in {"run", "status"} /\ ~work.deleting /\ workFresh /\ target = i
  /\ \A k \in DOMAIN todo : Certain(todo[k])

(* Where only the id tells resources apart the one that was made is in the *)
(* status, or is on the way to it; every sync knows it, and makes none.    *)
Remembered(i) ==
  /\ Ending \/ object.id = i \/ Delivering(i)
  /\ pc \in {"finalizer", "find"} /\ ~work.deleting => work.id = i
  /\ pc \in {"run", "status"} /\ ~work.deleting => target = i /\ ~Does(todo, "make")

Undisturbed ==
  /\ \A i, j \in Made : i = j
  /\ Overtaken /\ Over
  /\ Theirs.twins = "another" => \A i \in Made : Remembered(i)

MInv == PInv /\ (faults = 0 => Undisturbed)

(* And the one that ReadyIsComplete follows from.                          *)

(* What a sync has left to do completes what it makes.                     *)
Completes ==
  ~work.deleting =>
    /\ ~Does(todo, "drop") /\ ~Does(todo, "clear")
    /\ \A k \in DOMAIN todo : todo[k].op = "make" =>
         /\ AtOnce(Ours.sync) \subseteq todo[k].parts
         /\ Whole(Ours.sync) \subseteq AtOnce(Ours.sync) \cup After(todo, k)

(* What lives has what was given at once, until it is deleted.             *)
Begun == ~Ending => \A i \in Live : AtOnce(Ours.sync) \subseteq cloud[i].parts

(* What a sync is about gets what it has not got.                          *)
Finishing ==
  ~Ending /\ pc \in {"run", "status"} /\ ~work.deleting /\ target \in Live =>
    Whole(Ours.sync) \subseteq cloud[target].parts \cup PartsOf(todo, {"set", "mend"})

(* What was ever recorded is complete, until the object is deleted.        *)
Finished ==
  ~Ending => \A id \in {object.id, cache.id, work.id} \cap Live :
               Whole(Ours.sync) \subseteq cloud[id].parts

(* Only an object that exists records anything.                            *)
Standing == object.id # None => object.exists

CInv == PInv /\ Completes /\ Begun /\ Finishing /\ Finished /\ Standing

Promise == INSTANCE Lifecycle
  WITH object   <- IF ~object.exists THEN "gone"
                   ELSE IF object.deleting THEN "marked" ELSE "standing",
       kept     <- Kept,
       recorded <- IF object.id = None THEN {} ELSE {object.id},
       live     <- Live

(* The other kinds keep the operator's promise whatever goes wrong.        *)
KeepsPromise == Promise!SharedSpec

-----------------------------------------------------------------------------
(* When nothing stands in the way.                                         *)
Fine ==
  /\ access.provider = "ready" /\ access.creds = "good"
  /\ Ours.secret # "nothing" => access.secret

(* The calls of the deletion can succeed: a resource that is missing, or   *)
(* that lacks what is to be taken away from it, makes most of them fail.   *)
Deletable ==
  LET found == Found(Program.find, object)
      steps == Program.script
  IN \/ Keeps
     \/ /\ Program.guarded /\ found = {}
        /\ ~(Asks(Program.find, object) /\ Program.find.onMissing = "fails")
     \/ \E i \in found :
          \/ /\ i \notin Live /\ Theirs.forgives
          \/ /\ i \in Live
             /\ PartsOf(steps, {"drop"}) \subseteq cloud[i].parts
             /\ Theirs.blocking \cap cloud[i].parts \subseteq PartsOf(steps, {"drop", "clear"})

(* An object that the user deletes goes, if nothing stands in the way.     *)
(* Not Deletable are a resource that is gone if neither the lookup nor AWS *)
(* takes that for an answer, as of a queue that is recorded, and one that  *)
(* lacks what is to be taken away.                                         *)
DeletionCompletes == []<>~(object.exists /\ object.deleting /\ Fine /\ Deletable)

(* A sync can succeed: there is no such thing as an implementation that is *)
(* missing, a lookup that takes a missing resource for an error or asks    *)
(* about no id, a half-made resource that is in the way, or a quota that   *)
(* is used up.                                                             *)
Attainable ==
  LET found == Found(Ours.sync.find, object)
  IN IF found = {}
     THEN /\ ~Senseless(Ours.sync.find, object)
          /\ ~(Asks(Ours.sync.find, object) /\ Ours.sync.find.onMissing = "fails")
          /\ ~Does(Ours.sync.absent, "refuse")
          /\ Twins = {} \/ Theirs.twins = "another"
          /\ Cardinality(Unused) >= 2
     ELSE \A i \in found : i \in Live /\ ~Does(Ours.sync.found, "refuse")

(* An object that is let alone becomes ready, if nothing stands in the     *)
(* way, and not only for a moment: what can stand there is Attainable's,   *)
(* for a key of KMS that it has never been made.                           *)
EventuallyReady ==
  []<>(object.ready \/ ~object.exists \/ object.deleting
       \/ ~(Fine /\ config.valid /\ Attainable))
=============================================================================
