# A verification project for infra-operator-aws

infra-operator-aws is a Kubernetes operator, a command line tool and a REST
server that create, reconcile and delete AWS resources from declarative
objects. This directory holds TLA+ modules that model its core, TLC
configurations that check them on small instances, and theorems about them that
TLAPS proves for every instance. Paths below are relative to the repository's
root unless they name a file of this directory.

    tlc -workers 2 -config safety.cfg MCComputeStack.tla      one run
    tlapm ComputeStackProofs.tla                              the proofs of one module

Sections: 1 the system; 2 the modules and the plan; 3 to 6 the four models; 7 the
abstract specification; 8 the runs; 9 the proofs; 10 what is not modelled.

## 1. The system

### Components

| Component | State it keeps | Operations | Hard behaviour |
|---|---|---|---|
| **ComputeStack controller** `controllers/computestack_controller.go` (2655 lines) | the status of a `ComputeStack` object: phase, ready, the ids of a VPC, an Internet gateway, lists of subnets, NAT gateways, route tables and security groups, a bastion and its group; a key pair in AWS, a Secret in Kubernetes | one reconcile per queue item: add the finalizer, one phase of creation, one step of deletion, write the status | AWS calls happen, their record may be lost; stale cache; 409 conflicts; crashes; partial lists; EC2's own pace and dependency order |
| **SetupEKS controller** `controllers/setupeks_controller.go` (2256) | the same plus IAM roles, cluster, node pools, add-ons | the same shell around a phase machine that trusts the recorded phase | as above, and phases that skip what is half done |
| **Resource controllers** `controllers/*_controller.go` (about thirty of one shape) with `internal/usecases`, `internal/ports`, `internal/adapters/aws`, `pkg/mapper` | status and `Ready` of one object per AWS resource | get, sync through a use case, delete through a use case, finalizer, status write | create-then-record; deletion with a policy; requeue for ever |
| **AWSProvider controller, client factory** `controllers/awsprovider_controller.go`, `pkg/clients`, `pkg/aws` | credentials in a Secret, `Ready` of the provider | validate, hand out AWS configurations | every other controller waits for it |
| **State-file engine** `pkg/core` (CLI and API) | one JSON file per resource under a state directory | plan, apply, delete, get, drift, refresh | two processes on one directory; a crash between AWS and the file; a half-written file |
| **CLI executor** `pkg/cli` | the same state files, under `~/.infra-operator/state` by default | a second implementation of the same commands | as above |
| **REST server** `pkg/api` | none of its own | one handler per request, each on the engine, no lock between them | interleaved requests |
| **Drift package** `pkg/drift` | the latest drift of each resource | detect, filter, classify, heal | imported by nobody in this commit |
| **Managers and chart** `main.go`, `cmd/main.go`, `chart/` | none | start controllers, elect a leader when asked to | leader election is off by default in the binaries and on in `chart/values.yaml` |
| Domain types, API types and webhooks, metrics | none | validation, defaulting, counters | none |

### How they interact

* Controllers share nothing in memory. Each reads its object from an informer's
  **cache**, which follows the API server with a delay, and writes with the
  `resourceVersion` it read: a write of a stale copy is refused.
* The work queue hands one object to one worker at a time; a reconcile that
  fails, or asks for it, is repeated. All progress of a resource is therefore a
  sequence of reconciles, each free to be cut short anywhere.
* Controllers call **AWS**, whose changes last whatever becomes of the status
  write that should record them.
* An object with a **finalizer** stays, marked as being deleted, until the
  controller removes the finalizer.
* CLI and REST server call the engine, the engine calls AWS and then writes a
  state file.

### What makes each component correct

* ComputeStack, SetupEKS: what the status records exists; `Ready` means that
  what the spec asks for is there; nothing the operator created is let go of
  while it lives; nothing the user owns is touched; nothing is deleted unasked;
  a deletion is final and ends; creation gets through failures.
* Resource controllers: the resource behind an object is created once, and only
  for an object that a finalizer keeps; the finalizer goes only after the
  resource or under a policy that keeps it; `Ready` means that the resource has
  all that its creation should have given it.
* Engine: what AWS holds and what the files say agree after every command, and
  after a crash a repeated command repairs the difference.
* Drift: what is ignored is never healed; healing ends with no drift.

## 2. The modules and the plan

| Modules | Model | Status |
|---|---|---|
| `EC2`, `ComputeStack`, `ComputeStackInv`, `MCComputeStack` | the ComputeStack controller and the part of EC2 it drives | done |
| `AwsScripts`, `Adapters`, `UseCases`, `ApiTypes`, `Domain`, `Mappers`, `Reconcilers`, `AwsServices`, `ResourceController`, `MCResourceController` | the thirty resource controllers with their layers, and the AWSProvider | done |
| `Engine`, `MCEngine` | `pkg/core` under the CLI and the REST server, and `pkg/cli` | done |
| `SetupEKS`, `SetupEKSInv`, `MCSetupEKS` | the SetupEKS controller | done |
| `Lifecycle` | what the operator promises of any object | implemented by `ComputeStack` and `ResourceController`, checked and proved |
| `ComputeStackProofs`, `ComputeStackDeletionProofs`, `ComputeStackReadyProofs` | proofs about `ComputeStack` | done |
| `ResourceControllerProofs`, `ResourcePromiseProofs` | proofs about `ResourceController` | done |
| `EngineProofs` | proofs about `Engine` | done |
| `SetupEKSProofs`, `SetupEKSDeletionProofs` | proofs about `SetupEKS` | done |

What extends what: `EC2` ← `ComputeStack` ← `ComputeStackInv`; `AwsScripts` ←
`Adapters` ← `UseCases`, `ApiTypes` ← `Mappers` (with `Domain`), both ←
`Reconcilers` ← `AwsServices`, a catalogue of data; `AwsScripts` ←
`ResourceController`, which takes the catalogue as constants, so that what is
proved about it holds of every catalogue. `MCResourceController` brings the two
together. `Lifecycle` is instantiated by `ComputeStack` and by
`ResourceController`. The proof modules extend the module they are about.

Every invariant and every action property that a passing run checks is proved
(section 9); liveness stays with TLC. What is left to model: two stacks of one name;
lists in order (`checkNATGatewaysReady` by position).

## 3. The ComputeStack model

### Modules

* `EC2.tla`: EC2 as the controller sees it. A resource is a record of kind,
  state, the slot it occupies (a subnet's range, a group's name), the tag by
  which the controller searches, what it `uses` (and thereby keeps from being
  deleted), and for a route table its associations. EC2 is not in the
  repository; every definition is read off the calls and the error codes that
  `controllers/` is prepared for, and is marked external.
* `ComputeStack.tla`: the controller, its environment, `Spec`, `FairSpec` and
  the properties.
* `ComputeStackInv.tla`: the inductive invariant `IInv`, by named conjuncts, and
  `Untouched`, `AllEarned`, `Apart` and `TidyWhenCalm`, additions to it.
* `MCComputeStack.tla`: specs and accounts for TLC.
* `ComputeStackProofs.tla`: that `IInv` is invariant, and what follows from it.
* `ComputeStackDeletionProofs.tla`: that `Untouched` and `Apart` are invariant too,
  what follows from them, and that the controller implements `Lifecycle`.
* `ComputeStackReadyProofs.tla`: that `AllEarned`, `TidyWhenCalm` and `ReadyIsTidy`
  are invariant, and what follows for a stack that nothing disturbs.

### State

| Variable | Code |
|---|---|
| `config` | the object's `spec`; chosen by `Init` from the constant `Configs`, so that one run covers a set of specs |
| `stack` | the object in the API server: `metadata` (exists, deletionTimestamp, finalizer) and `status` |
| `cache`, `cacheFresh` | the informer's copy, and whether it is the object's latest version |
| `pc`, `work`, `workFresh` | the reconcile in flight: its program counter, its in-memory copy, and whether the API server would accept that copy |
| `made` | a resource that has been created and is not yet entered in the copy: a local variable of the phase functions |
| `routed` | how far the loop over gateways in `reconcileRouteTables` is |
| `keypair`, `secret` | the key pair in AWS and the Secret that holds its private key |
| `cloud` | EC2 |
| `faults` | how many faults have happened, at most `MaxFaults` |

### Actions

`Begin` is `Reconcile` up to the phase switch: it takes the cache's copy,
returns for a gone or Ready object, starts a deletion step, adds the finalizer
or resumes in the phase that `DetermineCurrentPhase` gives. Each function of a
phase is split at its AWS calls: `CreateVpc` and `ModifyVpc`,
`CreateInternetGateway` and `AttachInternetGateway`, `CreateSubnet` and
`RecordSubnet`, `AllocateAddress` and `CreateNatGateway`, `CreateRouteTable`
and `RecordRouteTable`, `CreateSecurityGroup` and `AuthorizeIngress`,
`PrepareBastion`, `StoreKey` and `RunInstance`; the environment acts between any
two. `UseExisting...` is the branch taken when the spec names existing
resources, `Check...Ready` the waiting phases, `CreateCallFails`,
`RouteTableFails`, `QuotaExceeded` and `NoPublicSubnetPanic` what goes wrong.
`DeleteBastion` to `DeleteVpc` are the steps of `deleteStackAsync`, one per
reconcile, in its order (`DeleteStage`); `DeleteCallFails` their errors.
`WriteStatus`, `WriteLost`, `AddFinalizer`, `RemoveFinalizer` are the writes to
the API server. `RequestDelete`, `SyncCache`, `CloudStep` and `Crash` are the
environment.

`SyncCache` may happen at any time, so a reconcile may see its own last write
or not. `Begin` with a cache that lags counts as a fault, to bound how often it
happens. A write of a stale copy fails without counting as one.

### Assumptions

* One reconcile at a time works on an object: controller-runtime guarantees it
  within a process; across processes it takes leader election (on in the chart,
  off by default in the binaries) or a single replica.
* The spec is not edited after the object is created, and nobody but the
  operator deletes what it created.
* DNS attributes are on (the default) and every listed security group has
  ingress rules: otherwise the second call of those phases is skipped.
* Lists of the status are sets. The controller processes them from the head,
  the model takes some fixed member (`Pick`).
* Ids are never reused. Ranges and names clash exactly when slots are equal.
* What the user owns may carry the stack's tags (an earlier stack of the name,
  deleted under Retain, leaves such things behind). The deletion searches the VPC
  by those tags, for bastions and for route tables, and takes what it finds:
  `Swept`.

### Not modelled in this controller

`deleteStack` (lines 1357–1750), which nothing calls; tags other than the one
searched for; the arithmetic of CIDR ranges and zones; the branch of
`reconcileBastionInstance` that updates a Secret that already exists, which the
life of one object does not reach; a second stack in the same account.

## 4. The model of the resource controllers

About thirty controllers share one `Reconcile`, and differ in what their use
case and adapter call, in whether the mapper hands the id of the status on, and
in a few twists. The model keeps what they share (`ResourceController`) apart
from what they differ in, which is data:

* `Adapters`: every function of `internal/adapters/aws/*/repository.go` that a
  use case calls, as a **script**: the sequence of AWS calls, each with what
  happens when it fails (`AwsScripts` defines the notation). A lookup says by
  what it searches and what it makes of an error and of a missing resource: most
  `Exists` answer "no" to any error. It searches by id (`ById`; `ByAnyId` asks AWS
  also when there is no id, which AWS does not accept as a question), by name, by
  either, by the name only if nothing is recorded (`UnlessRecorded`), or it trusts
  the record.
* `UseCases`: `internal/usecases`: the script when the resource is found, the one
  when it is absent, and the deletion's under a policy.
* `ApiTypes`, `Domain`, `Mappers`: the policies a schema admits, `ShouldDelete` and
  `IsReady`, and whether the id reaches the domain object.
* `Reconcilers`: one record per controller that the manager registers (S3 has two),
  with the twists: provider failure reported or returned, a Secret needed for the
  sync or also for the deletion, the policy asked in the controller or not at all.
* `AwsServices` (external): per kind, whether a second creation under a name is
  answered with the first resource, refused, or makes another; whether creation
  and deletion take time; what only one resource can have; what blocks deletion.

`ResourceController` runs these scripts one AWS call at a time.

| Variable | Code |
|---|---|
| `config` | the object's spec: kind, policy, validity, and the number of faults it has to bear |
| `object`, `cache`, `cacheFresh` | the object in the API server and in the informer's cache |
| `pc`, `work`, `workFresh` | the reconcile in flight and its copy |
| `todo`, `target`, `seen` | the calls the script has left, the resource it is about (the id in the domain object), the state AWS has reported (the state in the domain object) |
| `cloud` | the resources: state, configured parts, and whether it is one allocated besides (the address of a NAT gateway) |
| `access` | the AWSProvider's Ready condition, its credentials, the user's Secret |
| `faults` | how many faults have happened |

Where the code looks things up in a way of its own the model does the same. `SyncKey`
asks about a new key with an empty id and fails (`SyncAsksInVain`): no KMS key is ever
made. `DeleteQueue` and `DeleteTopic` look nothing up that is recorded: SQS answers the
deletion of a queue that is gone with an error, every time, while SNS forgives. A hosted
zone that cannot be read by its id is searched by its name (`SyncSearches`). What a sync
takes away because the spec does not list it, policies, subscriptions and tags, is a
`Tidy` step: it can fail, but no part of what the spec wants depends on it.

`BeginSync`, `BeginDeletion`, `ProviderNotUsable` are the head of `Reconcile` (the
provider comes first, then the object), `AddFinalizer` the write that guards what
follows; `SyncFinds`, `SyncCannotFind`, `DeleteFinds`, `DeleteCannotFind` the
lookups (with `SyncAsksInVain` and `SyncSearches`); `CreateResource` to `CallFails` the steps of a script; `WriteStatus`,
`ReportFailure`, `RemoveFinalizer`, `WriteFails` its end. `Crash`, `SyncCache`,
`RequestDelete`, `CloudStep`, `Perish` (somebody else deletes the resource),
`CheckProvider` (the AWSProvider's own reconciler), `DeleteProvider`,
`LoseCredentials`, `LoseSecret` and `Repair` are the environment.

Assumptions: one reconcile at a time per object; the spec does not change; an id
is never reused; one object per resource name.

## 5. The model of the engine

`pkg/core` is used by the REST server, and `pkg/cli` repeats it with few
differences for the tool: both load the state file of a document, create or
delete through a series of AWS calls, and write or remove the file. There is no
lock between processes, nor between requests to the server.

| Variable | Code |
|---|---|
| `manifest` | what the user writes: a function from documents to kinds |
| `files` | one state file per document: none, whole with its ids, or torn |
| `cloud` | the resources: status, the slot and document they were made for, parts, network |
| `command`, `queue`, `pc`, `script`, `state` | of each process: what it runs, the documents left, where it is with the first, the calls left, the ids in its memory |
| `met` | whether two commands have ever run at the same time |
| `faults` | how many faults have happened |

A process takes its documents in dependency order (`OrderByDependency`: the
sort is stable and sorts by kind, so that the model takes any of the orders that
agree with the kinds). For each it loads the file (`Unreadable`, `Skip`, `NotSupported`,
`BeginCreation`, `BeginDeletion`), runs a script (`CreateCall`, `SetCall`,
`DropCall`, `RemoveCall`, `DescribeCall`, `ImageCall` and their refusals), and then
`Truncate` and `Write`, or `DeleteState`: `os.WriteFile` truncates the file before
it writes, and a crash in between leaves it torn. The tool gives up at the first
document that fails (`Aborting`), the server goes on.

A stack's deletion waits a fixed ten seconds for its bastion and ignores every
error: its steps are `TryDelete`. `SetupEKS` is in the list of kinds, but nothing
creates it: its script is empty.

## 6. The model of the SetupEKS controller

The controller runs one phase per reconcile and, unlike ComputeStack, trusts the
phase that the status records. What a phase makes enters the in-memory status at
the end of a sequence of calls, and the object at the end of the reconcile.

| Variable | Code |
|---|---|
| `config` | the spec: NAT mode, zones, what exists already, add-ons, policy; and the account's quota |
| `object`, `cache`, `cacheFresh`, `pc`, `work`, `workFresh` | as in the other controllers |
| `todo` | the calls left in this reconcile |
| `made` | the ids held in local variables of the phase's function |
| `cloud` | the resources: state, part of the setup, settings, network, address |
| `faults` | how many faults have happened |

`reconcileIAMRoles` to `reconcileAddons` are the scripts of the ten phases that
make something, `NextPhase` the order of the phases, `Check` a phase that waits;
`deleteNodeGroups` to `deleteIAMRoles` are parts of the one script of the
deletion. A step says what it does when AWS answers that the resource is in use
(wait and come back, or pass over it) and when the call fails otherwise: most
deletions clear the record whatever AWS says, and the model does so. `Expose` is a
Service of type LoadBalancer in the cluster, whose balancer keeps the VPC.

Left out here: resources that somebody else deletes, and a provider that is not
usable (both are in the model of the resource controllers). One node group and
one add-on stand for several. The sweeps over route tables and over load
balancers are one step each: any subset of them is deleted. If a subnet could not be
taken off a table, EC2 refuses to delete it, and the reconcile ends there with the tables
still recorded (`SweepHeldUp`); any other error only leaves the table out. `zones = 1` stands for
one public and one private subnet, `zones = 2` for the default. Subnets of the
user's are those of one zone.

What the controller promises without any fault it does not promise when the account
is full, or when the VPC has a gateway of the user's. Then AWS refuses a call
half-way through a phase, the phase fails, and what it had made is in no status: the
next attempt makes it again (a NAT gateway's address, an internet gateway), or the
list that is not empty any more is taken for complete (the second NAT gateway, the
tables after the first). `Undisturbed` names that condition: no fault, room for one
more resource, and no such gateway.

## 7. Lifecycle, the abstract specification

`Lifecycle` is what a user may rely on, whatever resources an object stands for.
It has four variables: the object's standing (`standing`, `marked`, `gone`), whether
the operator may let go of what lives (`kept`), the resources the status
`recorded`s, and those of the operator that are `live`. Resources appear at any
time; none is destroyed before the object is marked; a status write, and the
removal of the object, drop nothing that lives; the object goes unmarked only if
it never recorded anything. `SharedSpec` adds somebody else's deletions.

* `ComputeStack` implements `Spec`: `recorded` are the ids in the status but those
  the spec names as existing, `live` what lives in EC2 (`Promise` and
  `KeepsPromise`).
* `ResourceController` implements `SharedSpec`, with `kept` for the policies that
  keep the resource and for the kinds that cannot help forgetting it (`Forgetful`:
  an error of AWS passes for absence, and the controller then creates another one
  or takes the deletion for done). That such kinds exist is part of what the model
  says of the code: the VPC controller is one. A recorded
  topic or queue is not looked up before its deletion, so SNS and SQS are not among
  them.

Both are checked by TLC as properties of a run and proved by TLAPS for all
constants. `SetupEKS` does not implement it, since its deletion lets go of what
could not be deleted; nor does the engine, whose files are not objects.

## 8. Runs

| Run | States | Asks | Shows |
|---|---|---|---|
| `safety` | 754,129 | all the safety properties of ComputeStack, for four specs under any two faults, and the refinement | hold |
| `liveness` | 78,093 | do deletion and creation get through one fault, for six specs? | yes, unless a stray was left behind |
| `existing` | 12,433 | is what the user owns left alone, when all or part of the network is the user's? | yes, but for what the sweeps find |
| `controllers` | 437,306 | the nine properties of the resource controllers, every kind under every policy | hold |
| `engine` | 514,615 | two processes over six manifests with one fault | hold |
| `setupeks` | 340,918 | six setups with one fault | hold |
| `second_vpc` | | "Isso garante idempotência mesmo com conflitos de atualização de status": one VPC per stack? | refuted |
| `pending_loop` | | "Tudo criado = Ready": does a complete status become Ready? | refuted |
| `ready_incomplete` | | "All resources ready": is Ready complete? | refuted |
| `key_lost` | | "Stores private key in Secret": is the key of a Ready bastion there? | refuted |
| `deletion_stuck` | | "until done=true": is done reached? | refuted |
| `delete_policy` | | "`Retain`: Instance remains in AWS but unmanaged": does a database survive its object? | refuted |

The refuted statements and why they fail are in `PROJECT.json` under `findings`.
What does hold of each is checked beside it: `CompleteWithoutFault` for
`ReadyIsComplete` and `ReadyKeyIsStored`, `DeletionCompletes` for
`DeletionFinishes`, `CreationRecovers` for `CreatedBecomesReady`,
`NothingLostWithoutFault` for `OneVpc`, `NothingDeletedUnasked` for
`RetainHonoured`.

Several properties of the passing runs say what holds as long as nothing fails
(`faults = 0`, `Undisturbed`), or while one command runs at a time (`~met`). They check
the order of the code's own steps; they do not cover the hazards that need a failed
call, a crash or a second process, and are not credited with them under `hazards`. Those
are covered by the properties without such a premise, by the violation runs, or, where
a `note` says so, by none. Every property of a passing run has a mutant in `PROJECT.json`: a
changed definition, standing beside the right one in the module, under which the
run finds the property violated.

### The properties, by what they would catch

ComputeStack:

* `RecordedIsLive`: an id in the status that EC2 does not have.
* `ReadyIsEarned`: Ready with a kind of resource missing or not yet available.
* `NothingLostWithoutFault`: a resource created and recorded nowhere although
  nothing failed, the quota has room and nothing of the user's is in the way.
* `CompleteWithoutFault`: Ready with a list cut short, or a bastion whose key
  nobody has, although nothing disturbed the stack.
* `NoLiveResourceForgotten`: a step that drops a live resource from the status,
  or the object with it.
* `DeletingIsFinal`: a stale reconcile that turns a deletion back into a
  creation.
* `DeletionIsAsked`: a deletion in EC2 before the user has asked for the
  object's, or under Retain.
* `ForeignIntact`: a deletion, detachment or disassociation of the user's
  resources. What the deletion sweeps up by tag is excepted, but only once the
  deletion is asked for and not under Retain: no reconcile, stale or not, may sweep
  before, and nothing but instances and route tables in the named VPC is ever swept.
* `KeepsPromise`: a step that `Lifecycle` does not allow.
* `DeletionCompletes`: a wrong order of deletion steps, a waiting step that
  waits for nothing, a search that does not find.
* `CreationRecovers`: a phase that cannot be resumed.

Resource controllers:

* `NothingMadeTwice`: a reconcile that does not find what the one before it made,
  although nothing failed.
* `ReadyIsComplete`: Ready with a part of the configuration missing, after a
  creation that failed half-way and was taken up by a later reconcile.
* `NothingMadeUnguarded`: a resource made before the finalizer, or for an object
  that is gone.
* `NothingDeletedUnasked`: a script that removes in a sync, or under a policy that
  keeps. It says "if the reconciler asks for the policy at all": `delete_policy`
  shows the one that does not.
* `NothingForgotten`: a status write that replaces a live id by another although
  nothing failed.
* `KeepsPromise`: the same under faults, for the kinds that know their resources
  apart.
* `DeletionCompletes`, `EventuallyReady`: a state in which every retry fails. Their
  premises (`Fine`, `Deletable`, `Attainable`) say which states these are for the code
  as it is: an adapter that is not implemented, a lookup that takes a missing
  resource for an error or asks about no id (a KMS key is therefore never
  `Attainable`), a recorded queue that is gone (not `Deletable`), a half-made resource
  whose deletion fails for lack of what is to be taken away first.

Engine:

* `NothingLost`: a resource that lives and is in no state file, although nothing
  failed and no two commands met; stacks with a bastion are the exception.
* `WhatIsRecordedIsComplete`: a whole file with an id missing or another
  document's, whatever failed and whoever met.
* `NothingShared`: one resource in two files.
* `ForgottenWhenGone`: a file removed while what it records lives.
* `TornStopsAll`: a half-written file taken for a document that exists, or for one
  that does not.
* `DeletesInTheEnd`: a delete that repetition does not finish. The exceptions
  (`Stuck`) are the torn files and the resources that are gone without their file:
  for those the command fails for ever.

SetupEKS:

* `NothingLost`, `NothingForgotten`: a resource the phases make, or the deletion
  gives up, that nothing records while it lives, although nothing failed and (for the
  first) the account was not full (`Undisturbed`).
* `ReadyIsComplete`: Ready without a part that a cluster needs under any fault and
  any quota, or without any part that was asked for when nothing disturbed it.
* `NothingDeletedUnasked`: a deletion before it is asked for, under Retain, or of
  the user's network.
* `DeletionCompletes`, `EventuallyReady`: a phase, or a step of the deletion, that
  waits for what does not come.

### What the code does that the properties except

Where the code, read line by line and modelled as it is, does something that no reader
would expect of it, the property that would say otherwise has an exception. Six of
these are runs of their own, above. The others are these, each with the exception, in
brackets, without which the property would be violated:

* A new KMS key is never made. `SyncKey` (`usecases/kms/key_usecase.go:30`) asks AWS
  about a key with an empty id; the refusal is not the one that the adapter takes for
  absence, and the sync gives up, every time (`Senseless`, in `Attainable`).
* An SQS queue that is recorded and gone keeps its object. `DeleteQueue`
  (`usecases/sqs/queue_usecase.go:107`) does not look it up, and its adapter returns
  the error of deleting what is not there (`Deletable`).
* One failed `DescribeVpcs` makes the sync of a VPC create a second one and record it in
  the first one's place (`adapters/aws/vpc/repository.go:28`; `Forgetful`).
* A route table that a spec names as existing and that carries the stack's tag is
  deleted with the stack (`computestack_controller.go:2087`; `Swept`). So is one that an
  earlier stack of the name has left under Retain.
* A role of a SetupEKS whose policies could not be attached is taken for done, and the
  gateways or tables of a list that was cut short are never made, but the setup becomes
  Ready (`setupeks_controller.go:450`, `:878`; `Undisturbed`).
* The deletion of a SetupEKS clears the record of a role, group, subnet, gateway or VPC
  that AWS refused to delete for another reason than a dependency
  (`setupeks_controller.go:2106`, `:2154`; `faults = 0` in `NothingForgotten`).
* Two commands that apply one document at the same time create it twice
  (`core/engine.go:139`; `met` in `NothingLost`), and so does one that dies before it
  has saved the state and is repeated.
* The state file of a stack with a bastion goes although what the bastion uses could
  not be deleted (`core/engine.go:878`; `Stacks` in `ForgottenWhenGone`).

### Bounds

* `MaxFaults` (in `ResourceController` the object's `faults`): 2 for the safety of
  ComputeStack and for the resource controllers under Delete: a fault, and a second
  one during the recovery from it; 1 elsewhere; 0 where the point is that no fault
  is needed. A fault is a call that fails, a crash, a reconcile of a stale cache, a
  lost credential, Secret or provider, or a resource somebody else deletes. A
  status write that is refused because the copy was stale is not counted.
* `MaxId`, the account's quota. ComputeStack: above what the specs need plus what
  two faults lose (18; the same in `existing`, where the user owns ten of them), and in
  `liveness` a spec (`Greedy`) that asks for more than
  there is. Resource controllers: 4, that is the resource, one more that a fault
  makes, its address, and one to spare. Engine: 6, so that two processes that
  create the same bastion stack meet the quota half-way. SetupEKS: a quota per
  setup between 8 (a user's VPC with a gateway, where each retry loses one) and 24
  (two zones, a gateway each).
* The specs of ComputeStack (`Configs`) between them take every branch: with and
  without subnets of either kind, NAT with one gateway and with one per zone (more
  gateways than private subnets), security groups, a bastion with and without key
  and name of its own, Retain, existing resources for all or for part of the
  network, private subnets alone (the panic). Two subnets, groups and gateways per
  list are enough for a list to be half filled, half available and half deleted.
* The objects of `controllers` are all thirty kinds under all policies of their
  schemas, with valid specs, and three kinds with an invalid one.
* The manifests of `engine`: one per way in which a document can be peculiar (one
  call or several, a call that fails, is ignored or panics, an unsupported kind, a
  stack with and without a bastion), two documents where the order matters. Two
  processes, one of which gives up at the first failure.
* The setups of `setupeks`: one and two zones, each NAT mode, a VPC, a VPC with a
  gateway, subnets of the user's, with and without add-ons, Retain.

### Fairness

* Controllers: `WF` of `Reconcile` (the queue keeps reconciling: every path that
  leaves work returns an error or `RequeueAfter`), of `SyncCache` (the watch
  delivers), of the cloud's steps (AWS finishes what it has begun) and of
  `CheckProvider` (the AWSProvider is requeued every five minutes). `Reconcile`
  contains the calls that fail, which are bounded by the number of faults: failures
  stop in the end. No fairness is asked of the user or of faults.
* Engine: a command that runs goes on (`WF` of a process's steps); nothing makes a
  user begin one, so `DeletesInTheEnd` takes "deleting is repeated and nothing else
  is done" as its premise.
* `DeletionCompletes` of ComputeStack is conditional on `<>[](Strays = {})`: a
  resource that is recorded nowhere and found by no search makes EC2 refuse the
  VPC's deletion for ever, which `deletion_stuck` shows can happen even without a
  fault. `CreationRecovers` has the same proviso, and is for every buildable spec
  as long as nothing fails; under a fault it is for specs with lists of at most
  one element, because of what `pending_loop` and `ready_incomplete` show.

Runs with `CHECK_DEADLOCK FALSE`: an object that is gone leaves nothing to do, so
those systems may stop.

## 9. Proofs

All theorems are for every value of the constants that satisfies the named
assumptions of the modules, any number of faults, and any number of steps.

| Module | Theorem | Statement |
|---|---|---|
| `ComputeStackProofs` | `Invariant` | `Spec => []IInv` |
| | `TypeCorrect` | `Spec => []TypeOK` |
| | `NothingForgotten` | `Spec => NoLiveResourceForgotten` |
| | `DeletingStays` | `Spec => DeletingIsFinal` |
| `ComputeStackDeletionProofs` | `RecordedLives` | `Spec => []RecordedIsLive` |
| | `NothingDeletedUnasked` | `Spec => DeletionIsAsked` |
| | `ForeignKept` | `Spec => []ForeignIntact` |
| | `PromiseKept` | `Spec => KeepsPromise` |
| `ComputeStackReadyProofs` | `ReadyEarned` | `Spec => []ReadyIsEarned` |
| | `NothingLost` | `Spec => []NothingLostWithoutFault` |
| | `ReadyComplete` | `Spec => []CompleteWithoutFault` |
| `ResourceControllerProofs` | `Invariant` | `Spec => []IInv` |
| | `TypeCorrect` | `Spec => []TypeOK` |
| | `MadeGuarded` | `Spec => NothingMadeUnguarded` |
| | `DeletedOnlyAsked` | `Spec => NothingDeletedUnasked` |
| `ResourcePromiseProofs` | `PromiseInvariant` | `Spec => []PInv` |
| | `ResourcePromiseKept` | `Spec => KeepsPromise` |
| | `NothingLeftBehind` | `Spec => NothingForgotten` |
| | `MadeOnce` | `Spec => []NothingMadeTwice` |
| | `ReadyComplete` | `Spec => []ReadyIsComplete` |
| `EngineProofs` | `Invariant` | `Spec => []IInv` |
| | `TypeCorrect` | `Spec => []TypeOK` |
| | `SavedWhole` | `Spec => []WhatIsRecordedIsComplete` |
| | `RecordedOnce` | `Spec => []NothingShared` |
| | `GoneBeforeForgotten` | `Spec => ForgottenWhenGone` |
| | `TornIsLeftAlone` | `Spec => TornStopsAll` |
| | `NothingIsLost` | `Spec => []NothingLost` |
| `SetupEKSProofs` | `Invariant` | `Spec => []IInv` |
| | `TypeCorrect` | `Spec => []TypeOK` |
| | `DeletedOnlyAsked` | `Spec => NothingDeletedUnasked` |
| | `SureUnlessAsked` | `Spec => []RInv` |
| | `NothingIsLost` | `Spec => []NothingLost` |
| | `ReadyComplete` | `Spec => []ReadyIsComplete` |
| `SetupEKSDeletionProofs` | `InSight` | `Spec => []FInv` |
| | `NothingLeftBehind` | `Spec => NothingForgotten` |

### ComputeStack

Assumptions: specs of the type `ConfigType` (`ConfigAssumption`); a user's network of
well-formed, available resources (`PreexistingAssumption`), with the stack's tags or
without, in which an `Existing...` id names a resource of the kind that is asked for
(`ExistingAssumption`: the controller describes it as one before it enters it).

`NoLiveResourceForgotten` is not inductive: that a status write drops nothing
that lives depends on what the copy knew when it was taken. `IInv` adds

* `NamesAreBorn`, `CloudSane`: no copy names an id EC2 has not handed out, so a
  new resource is never one that some copy already counts as gone;
* `ExistingOnly`: where the spec names existing resources the status holds no
  others, so that the removal of the finalizer may leave them;
* `AtPc`: what is known of the copy at each point of a reconcile (the phase that
  creates a VPC has none recorded, so entering one drops none);
* `Fresh`: a copy said to be fresh equals the object but for what has been
  `Released`, that is deleted, the user's, or retained. This is the heart of it:
  `WriteStatus` puts such a copy in the object's place;
* `Guarded`: nothing is recorded before the finalizer is there, so that the
  object cannot vanish at once with what it records;
* `Marked`, `InFlight`: the deletion mark in the object, the cache and the copy,
  and their phases. They give `DeletingIsFinal`: no fresh copy of an object
  whose phase is Deleting is in a creation phase.

A step inside a reconcile is split in three (`CloudMove`, `WorkMove`, `PcMove`):
what it does to EC2, to the copy and to the control. `LocalMove` puts them
together once for all actions, so that an action's lemma only says what that
action does. Steps that read or write the object have lemmas of their own
(`BeginMove`, `ReturnKeeps`, `RestartKeeps`).

`RecordedIsLive` and `DeletionIsAsked` need one thing more, that a reconcile
cannot be deleting while the object is not being deleted. `InFlight` gives it
for the reconcile; `Untouched` carries it over to EC2: until the deletion is
asked for no resource is going or gone, and under Retain no step of the deletion
is entered. It is preserved because every step outside the deletion leaves what
exists in EC2 standing (`OthersDeleteNothing`).

`ReadyIsEarned` speaks of the object alone, but a status says Ready because of what
the copies before it knew. `AllEarned` says of the object, the cache and the copy in
hand that Ready is earned, and of each point of a reconcile which phases are behind
it (`PhasesBehind`: a copy in the phase of the groups has a complete network and a
route table). A phase is entered only by `DetermineCurrentPhase`, which asks for all
that comes before it; a list that a phase has filled is emptied again only by the
deletion, and then the phase is not Ready.

`ForeignIntact` needs that no id of the user's gets into a list that the
deletion works through. `Apart` has `OnlyNamed` (a copy names of the user's only
what the spec names; what a search by tag finds is deleted, not entered),
`HandsOff` (a deletion step is reached only if the spec names nothing of that kind),
`OwnAddresses` (a NAT gateway of the stack's does not use an address of the
user's, which would be released with it) and `AsFound`: what is the user's is as it
was, and of what can be swept (`Swept`) the kind, the tag and the place are
(`SameKind`), so that nothing else is swept for its sake.

`NothingLostWithoutFault` and `CompleteWithoutFault` are about a stack that nothing
has disturbed (`Undisturbed`): no call, write or read has failed, the quota is not
used up, and in a VPC of the user's nothing stands where the stack's own is to go
(`Unhindered`: a gateway that the spec does not name, a subnet in a range or a group of
a name that the controller will ask for, a route table that holds a subnet which the
spec names). TLC gives a counterexample without any one of these: a creation is refused
half-way, by the account's own state, as if a call had failed. With them no call of
the creation is refused, which has to be proved from what the phases have done so far.
`TidyWhenCalm` is that: as long as nothing disturbs a stack that is to stay, `Tidy` holds
of its newest copy, the one in flight if there is one:

* `OwnKinds`, `OwnSlots`: what a list holds is of the list's kind, and the ranges and
  names are those of the first so many, so that the next one is free;
* `AllKnown`: what exists is recorded, just made, the address of a recorded gateway, or
  a table without an association. This is what the theorem says, and why nothing that is
  not recorded can refuse a call;
* `Filled`: each list is empty or as long as the spec asks, but for the one that the
  present phase fills. `DetermineCurrentPhase` only asks whether a list is empty, so
  this is why Ready is complete, and it needs that a phase is left by its last step
  only;
* `MadeFits`, `InOrder`, `Routing`, `Disjoint`: what has just been made is what the phase
  misses; subnets come before what is put into them; and the subnets that the next
  route table takes are in no other table, for which the gateways routed so far and
  the tables so far have to agree;
* `KeyIsKept`: a private key that EC2 returned is stored or about to be.

Ready outlives the calm, since a deletion that is asked for does not change what the
status says: `ReadyIsTidy` carries `Filled` on for as long as the object says Ready.

`PromiseKept` needs no more than `IInv` and `Untouched`: a step that the two allow is a step of
`Lifecycle` (`ComputeStackDeletionProofs` has one lemma per way the mapped
variables can move), and what `DeletionIsAsked` and `NoLiveResourceForgotten` say
of the details is what `Lifecycle` says of the whole.

### Resource controllers

The proofs know nothing of the thirty kinds but what these assumptions say, and TLC
evaluates them for the catalogue that is read off the code:

* `CatalogueAssumption`: types; `SyncAssumption`: no sync removes anything or takes
  a part of it away;
* `IdentityAssumption`, for the refinement: where a name does not tell resources
  apart the id is carried and used; a sync of what is absent insists on a creation,
  one of what is there makes nothing; a deletion insists on its removal;
* `CreationAssumption`, for `NothingMadeTwice`: where only ids tell resources
  apart, no step after the creation can be refused, so that the id gets into the
  status; no deletion makes anything;
* `CompletionAssumption`, for `ReadyIsComplete`: what a creation does not give at
  once it gives later, and if it fails in between then either the lookup does not
  find what it has left, or the sync of what is found makes up for it.

`IInv` is `TypeOK` with `Latest` (a copy that is said to be fresh is the object),
`DeletionKnown` (no copy is marked that the object is not), `Guarded` (nothing is
looked for before the finalizer is there, until something goes wrong) and
`Removing` (a script that removes is a deletion's, under a policy that does not
keep). Two of the safety properties follow directly.

The others need more, since a sync replaces the id in the status by what its
script ends with, and a deletion ends by removing the object. `PInv` adds
`Recording` (ids in any copy are of resources that were made, and none without a
finalizer), `Attending` (what each place of `Reconcile` knows of its copy),
`OneOfAName` (where names are unique there is one resource of a name),
`SyncsTheSame` (a sync based on the object's latest version is about the recorded
resource, if that lives, or is going to be refused) and `DeletesTheSame` (a
deletion based on it does not end before that is deleted). The last two carry the
identity of a resource over the AWS calls between the read and the write. They are
said of all kinds that are not `Excused`: those that may take an error for an answer
are only once there has been one (`Trusted`: AWS answers until something goes
wrong). The refinement and `NothingForgotten` both follow.

`NothingMadeTwice` is about two reconciles, the one that made the resource and the
one that would make another. `MInv` adds to `PInv`, until something goes wrong:
`Overtaken` (only the user's deletion makes a copy stale), `Over` (what is deleted
is deleted by a deletion, after which no sync comes) and, where only ids tell
resources apart, `Remembered`: the id of what was made is in the status, or with a
sync that is not overtaken and cannot be refused any more (`Delivering`), and every
later sync knows it and makes none.

`ReadyIsComplete` holds after any faults. `CInv` adds to `PInv` that a sync's
script still has all that its creation lacks (`Completes`, `Finishing`), that what
lives has what was given at once (`Begun`), and that an id that was ever recorded,
in whichever copy, is of a complete resource (`Finished`): ids enter the status only
at the end of a script. All of it until the deletion takes parts away.

### Engine

Assumptions: `ManifestAssumption` (documents of the known kinds) and
`BoundsAssumption`; any number of processes, any manifests.

`IInv` is `TypeOK` with `Alone` (until two commands meet there is one at a time),
`AtPc` and `OnFile`. `AtPc` says what a process in each place knows: the ids in its
memory were made for its document (`MadeFor`); what a creation has not recorded is
still to be made by its script (`Creates`), which is why a file that is written is
complete; what a deletion's script is about is recorded, and what still lives of
it is still to be deleted by a call that insists (`Deletes`); and until commands
meet it knows what the file says (`KnowsFile`). `OnFile` says the same of a file at
rest. Scripts are sequences of any length: that a step takes the head off keeps
`Creates` and `Deletes` is one lemma (`ProceedKeeps`), used for every call.

`NothingLost` needs more: that no call of a creation is refused that would make it
give up with what it has made, and that what the deletion of a stack still minds is
refused nothing, since a refusal is ignored there and the file removed all the same.
Both are about the order of the scripts and about what else there is. `NInv` adds

* `Placed`: a resource is in a slot that its document's kind makes, its network is
  the document's own VPC, and only instances take time to go. So what is around a part
  of a stack without a bastion is of the same stack, and never an instance;
* `Blank`: only a whole file records anything, so that rewriting one loses nothing;
* `Careful`, of each process while nothing has gone wrong and no two commands have met:
  a creation (`Builds`) holds only what lives, makes each slot once, sets only what it
  has made and insists only on an attachment to what has none (`Orderly`); a deletion
  of a stack (`Clears`) still has a call for all that lives, detaches and
  disassociates before it deletes (`Loosens`), and deletes the VPC last.

That the scripts of the code have this order is proved from the scripts, and one
lemma for each kind of step says that it is kept. The one process that works then
holds or has recorded every twin a refusal could come from (`AllKept`), which `Orderly`
contradicts (`NotRefused`), and every neighbour is gone by the time the VPC is deleted
(`RefusedIfGone`). A stack with a bastion is the exception the property names:
the deletion does not wait for the bastion to be gone.

### SetupEKS

Assumptions: `SetupAssumption` (the shape of a setup; a quota of at least the
user's resources; subnets of the user's are those of one zone) and
`BoundsAssumption`.

`NothingDeletedUnasked` speaks of what the user owns, of the deletion policy and of
the request to delete, and needs an invariant of all three. `IInv` is `TypeOK` with
`ForeignStand` (the user's resources stand), `Copies` (no copy is marked that the
object is not; a copy said to be fresh agrees with the object), `Sound` of every
copy (`KeptApart`: what is the user's is recorded only under the names the spec
gives, and only those names are never deleted by id) and `AtPc`: a reconcile that
is not deleting has only `MakingSteps` left, or the search for what exists; one
that deletes has only `DeletingSteps`, none of which is about a name of the user's,
and none at all under Retain. That the scripts of the ten phases and of the
deletion consist of such steps is proved once for each.

`NothingLost` and `ReadyIsComplete` need to follow the ten scripts step by step, as
long as nobody asks for the deletion. `SetupEKSInv` has the invariant `RInv` for
that; with `IInv` it is inductive, under all faults and for all quotas. Its parts:

* `Whole`, of the object, of the cache and of the copy in memory: what has an id lives
  under the name of its part (`Held`) and has what belongs to it (`Equipped`; a role
  that is recorded gets its policies with the next step: `Pending`); the parts that one
  phase makes come in an order (`InOrder`), so that a list that has its first member
  has all of them, unless something went wrong; and every phase before the present one
  has left what it is for (`Reached`).
* `Scripted`, of a script: it makes a part once and only if it is not recorded, sets up
  only what it has made before, records it when it has what belongs to it, and gives up
  at the first refusal, except for the add-on (`Orderly`); what has been made is
  recorded, or will be (`Accounted`), and so is what the phase is for (`Following`).
* `UpToDate`, if nothing disturbs: what there is of the setup's is in its place in the
  status, or in the hands of the reconcile.

Each script is shown to be `Orderly` when its phase begins (`PhaseBegins`, put together
from blocks by `BlocksJoin`), and stays so when a step takes its head off
(`TailOrderly`). A refusal ends the phase: the proof shows that nothing stands in the way
of a call while nothing disturbs (`NoneStands`), so that what a failed phase has lost is
never counted.

`NothingForgotten` is about the deletion, and about the time before it as well: the
script lets go of a role or an address without asking whether the call was refused,
so it must be known that nothing can refuse it. `FInv` says what is so as long as no
fault has happened and the object is there (`Minded`):

* `Situated`, of the object and of the copy in memory: what is recorded is what it is
  recorded as and in the recorded VPC, an address is used by the gateway beside it
  only, and as long as a gateway, a cluster or a balancer is in the VPC a recorded
  subnet lives, which such a thing keeps in use. So the deletion waits at the subnets,
  and does not reach the internet gateway.
* `Departing`, of a reconcile that deletes: nothing that the object records and that
  lives has another id in the copy (`InStep`), and what the script still has to do is
  `Clearing`: it clears a part only after the step that removes it, detaches before it
  deletes where a refusal is passed over (`Loose`), and takes whatever is recorded out
  of the status, so that nothing is recorded when the finalizer goes.
* `Arriving` and `Standing`, of one that makes: nothing is on its way out, no phase
  makes a resource whose VPC or first subnet is not recorded (`FoundedSteps`), and an
  address that was made for a gateway serves no other.

The script of the deletion is put together from its blocks (`JoinDeletes`) and shown to
be `Clearing` when it begins (`SetupClears`); it stays so when a step takes its head off
(`ClearingAfter`) and when AWS gets something done (`ClearingStays`). The invariants
`IInv` and `RInv` are used at every step: `RInv` for what is recorded while the phases
run, `IInv` for the copies and the script's types.

### What stays with TLC

* Liveness (`DeletionCompletes`, `CreationRecovers`, `EventuallyReady`,
  `DeletesInTheEnd`): fairness and ENABLED are beyond the prover.
* No RECURSIVE operator is used.

## 10. Not modelled

* `pkg/drift`: no package imports it at this commit, so nothing in the program
  calls it. Its comparisons of strings and numbers have unit tests of their own.
* The use case, adapter and mapper of Route 53: nothing calls them; the two
  controllers of Route 53 call AWS themselves and are in `Reconcilers`.
* Webhooks: no manager registers them. The generated deep copies, the generated
  API documentation, `pkg/metrics` (counters nothing reads back), flags, probes and
  the chart.
* `pkg/aws`, which nothing uses, and the role assumption of `pkg/clients`: it is not
  implemented. Of the AWSProvider its Ready condition and credentials are
  modelled, as part of `ResourceController`; its own status writes are not.
* REST routing, authentication, CORS; plan, get, dry run: they change no state. The
  unsynchronised `ConfigureAWS` of the server sets process-wide variables that no
  property here is about.
* In ComputeStack: `deleteStack` (lines 1357–1750), which nothing calls, and what
  section 3 lists. In SetupEKS: what section 6 lists.
* Field conversions of mappers and adapters: copied one by one.
