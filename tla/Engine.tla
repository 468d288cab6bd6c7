------------------------------- MODULE Engine -------------------------------
(***************************************************************************)
(* The engine that works without Kubernetes: the command line tool and the *)
(* REST API server create and delete what a manifest lists, and remember   *)
(* the ids of what they have created in one state file per document.  Both *)
(* have an engine of their own, with the same code, and the same directory *)
(* of state files, without a lock.  Every AWS call and every access to a   *)
(* file is a step of its own.                                              *)
(***************************************************************************)
EXTENDS Integers, FiniteSets, SequencesExt

CONSTANTS
  Processes,   \* those that run commands: the tool, and requests to the server
  Aborting,    \* the ones that a failing document makes give up the others too
  Manifests,   \* what the users write: functions from documents to kinds
  MaxId,       \* how many resources can be made in all
  MaxFaults    \* how often something goes wrong

Kinds == {"VPC", "Subnet", "InternetGateway", "SecurityGroup", "EC2Instance",
          "ComputeStack", "ComputeStackWithBastion", "S3Bucket", "SetupEKS"}

ASSUME ManifestAssumption ==
  /\ Aborting \subseteq Processes
  /\ \A m \in Manifests :
       DOMAIN m # {} /\ IsFiniteSet(DOMAIN m) /\ \A d \in DOMAIN m : m[d] \in Kinds

ASSUME BoundsAssumption == MaxId \in Nat /\ MaxFaults \in Nat

Ids == 1..MaxId

Slots == {"vpcId", "subnetId", "publicSubnetId", "internetGatewayId", "routeTableId",
          "securityGroupId", "bastionSecurityGroupId", "instanceId", "bastionInstanceId"}

Parts == {"", "dns", "attachment", "publicIp", "route", "association", "ingress"}

(* What a state file records: some slots, each with the id of a resource.  *)
IsRecord(ids) == DOMAIN ids \subseteq Slots /\ \A s \in DOMAIN ids : ids[s] \in Ids

VARIABLES
  manifest,    \* what the commands are about
  files,       \* the state file of each document
  cloud,       \* the resources
  command,     \* what each process runs: "none", "apply" or "delete"
  queue,       \* the documents that it has not finished yet
  pc,          \* where it is with the first of them
  script,      \* the AWS calls that are left to be made for it
  state,       \* the ids that it has in its memory
  met,         \* whether two commands have ever run at the same time
  faults       \* how often something has gone wrong

procs == <<command, queue, pc, script, state>>
vars  == <<manifest, files, cloud, command, queue, pc, script, state, met, faults>>

File(content, ids) == [content |-> content, ids |-> ids]

NoIds  == [s \in {} |-> 0]
NoFile == File("none", NoIds)
Torn   == File("torn", NoIds)

Resource(status, slot, doc, parts, network) ==
  [status |-> status, slot |-> slot, doc |-> doc, parts |-> parts, network |-> network]

Fault == faults < MaxFaults /\ faults' = faults + 1

-----------------------------------------------------------------------------
(* The scripts.  A call that fails makes the document fail, or is ignored; *)
(* where the result is used although there is none, the process panics.    *)
Steps == [op : {"make", "set", "drop", "remove", "describe", "image"}, slot : Slots,
          part : Parts, on : {"fails", "ignored", "panics"}]

Step(op, slot, part, on) == [op |-> op, slot |-> slot, part |-> part, on |-> on]

(* Mutant: an error of AWS is not looked at.                               *)
DeleteAnyway(slot) == Step("remove", slot, "", "ignored")

Make(slot)           == Step("make", slot, "", "fails")
Set(slot, part)      == Step("set", slot, part, "fails")
TrySet(slot, part)   == Step("set", slot, part, "ignored")
Drop(slot, part)     == Step("drop", slot, part, "ignored")
Delete(slot)         == Step("remove", slot, "", "fails")
TryDelete(slot)      == Step("remove", slot, "", "ignored")
Describe(slot)       == Step("describe", slot, "", "panics")
FindImage            == Step("image", "bastionInstanceId", "", "panics")

createVPC             == <<Make("vpcId"), TrySet("vpcId", "dns")>>
createSubnet          == <<Make("subnetId")>>
createInternetGateway == <<Make("internetGatewayId"), Set("internetGatewayId", "attachment")>>
createSecurityGroup   == <<Make("securityGroupId"), TrySet("securityGroupId", "ingress")>>
createEC2Instance     == <<Make("instanceId")>>

(* The bastion's image is looked for if the spec does not name one.        *)
createComputeStack(bastion) ==
  createVPC \o createInternetGateway
  \o <<Describe("vpcId"), Make("publicSubnetId"), TrySet("publicSubnetId", "publicIp")>>
  \o <<Make("routeTableId"), TrySet("routeTableId", "route"),
       TrySet("routeTableId", "association")>>
  \o IF bastion
     THEN <<Make("bastionSecurityGroupId"), TrySet("bastionSecurityGroupId", "ingress"),
            FindImage, Make("bastionInstanceId")>>
     ELSE <<>>

(* Other kinds are not supported: there is nothing that could succeed.     *)
createResource(kind) ==
  CASE kind = "VPC"                     -> createVPC
    [] kind = "Subnet"                  -> createSubnet
    [] kind = "InternetGateway"         -> createInternetGateway
    [] kind = "SecurityGroup"           -> createSecurityGroup
    [] kind = "EC2Instance"             -> createEC2Instance
    [] kind = "ComputeStack"            -> createComputeStack(FALSE)
    [] kind = "ComputeStackWithBastion" -> createComputeStack(TRUE)
    [] OTHER                            -> <<>>

Supported(kind) == createResource(kind) # <<>>

Stacks == {"ComputeStack", "ComputeStackWithBastion"}

(* Only what is recorded is deleted.                                       *)
IfRecorded(slot, ids, steps) == IF slot \in DOMAIN ids THEN steps ELSE <<>>

(* Mutant: the gateway is not detached before it is deleted.               *)
deleteAttachedStack(ids) ==
  IfRecorded("bastionInstanceId", ids, <<TryDelete("bastionInstanceId")>>)
  \o IfRecorded("bastionSecurityGroupId", ids, <<TryDelete("bastionSecurityGroupId")>>)
  \o IfRecorded("routeTableId", ids,
       <<Describe("routeTableId"), Drop("routeTableId", "association"), TryDelete("routeTableId")>>)
  \o IfRecorded("publicSubnetId", ids, <<TryDelete("publicSubnetId")>>)
  \o IfRecorded("internetGatewayId", ids, <<TryDelete("internetGatewayId")>>)
  \o IfRecorded("vpcId", ids, <<TryDelete("vpcId")>>)

(* Whatever AWS says, the deletion of a stack goes on to the end.          *)
deleteComputeStack(ids) ==
  IfRecorded("bastionInstanceId", ids, <<TryDelete("bastionInstanceId")>>)
  \o IfRecorded("bastionSecurityGroupId", ids, <<TryDelete("bastionSecurityGroupId")>>)
  \o IfRecorded("routeTableId", ids,
       <<Describe("routeTableId"), Drop("routeTableId", "association"), TryDelete("routeTableId")>>)
  \o IfRecorded("publicSubnetId", ids, <<TryDelete("publicSubnetId")>>)
  \o IfRecorded("internetGatewayId", ids,
       <<Drop("internetGatewayId", "attachment"), TryDelete("internetGatewayId")>>)
  \o IfRecorded("vpcId", ids, <<TryDelete("vpcId")>>)

(* The only id that matters in the record of another kind.  Those of a     *)
(* subnet and of a security group name their VPC too.                      *)
MainSlot(kind) ==
  CASE kind = "VPC"             -> "vpcId"
    [] kind = "Subnet"          -> "subnetId"
    [] kind = "InternetGateway" -> "internetGatewayId"
    [] kind = "SecurityGroup"   -> "securityGroupId"
    [] OTHER                    -> "instanceId"

(* Mutant: a gateway of its own is not detached either.                    *)
deleteAttached(slot) == <<Delete(slot)>>

deleteOne(slot) ==
  IF slot = "internetGatewayId" THEN <<Drop(slot, "attachment"), Delete(slot)>>
  ELSE <<Delete(slot)>>

deleteResource(kind, ids) ==
  IF kind \in Stacks THEN deleteComputeStack(ids)
  ELSE IfRecorded(MainSlot(kind), ids, deleteOne(MainSlot(kind)))

Priority ==
  [kind \in Kinds |->
    CASE kind = "VPC"             -> 1
      [] kind = "InternetGateway" -> 2
      [] kind = "Subnet"          -> 3
      [] kind = "SecurityGroup"   -> 7
      [] kind = "S3Bucket"        -> 11
      [] kind = "EC2Instance"     -> 19
      [] kind \in Stacks          -> 100
      [] OTHER                    -> 0]

(* The sort is stable: documents of one priority stay in the order of the  *)
(* manifest, which may be any.                                             *)
OrderByDependency ==
  {order \in [1..Cardinality(DOMAIN manifest) -> DOMAIN manifest] :
     /\ IsInjective(order)
     /\ \A j, k \in DOMAIN order :
          j < k => Priority[manifest[order[j]]] <= Priority[manifest[order[k]]]}

-----------------------------------------------------------------------------
(* The resources.                                                          *)
Live      == {i \in Ids : cloud[i].status = "available"}
Described == {i \in Ids : cloud[i].status \in {"available", "deleting"}}
Unused    == {i \in Ids : cloud[i].status = "none"}

Fresh == {i \in Unused : \A j \in Unused : i <= j}

Instances == {"instanceId", "bastionInstanceId"}

(* What is in the same network as a resource of a stack; a VPC is one.     *)
NetworkOf(i) == IF cloud[i].slot = "vpcId" THEN i ELSE cloud[i].network

Around(i) == {j \in Described \ {i} : NetworkOf(j) = NetworkOf(i) /\ NetworkOf(i) # 0}

(* The others of the same document, from another attempt to create it.     *)
Twins(d, slot) == {i \in Described : cloud[i].doc = d /\ cloud[i].slot = slot}

InUse(i) ==
  LET around(slots) == \E j \in Around(i) : cloud[j].slot \in slots
  IN CASE cloud[i].slot = "vpcId" ->
            \E j \in Around(i) :
               cloud[j].slot = "internetGatewayId" => "attachment" \in cloud[j].parts
       [] cloud[i].slot \in {"publicSubnetId", "bastionSecurityGroupId"} -> around(Instances)
       [] cloud[i].slot = "internetGatewayId" -> "attachment" \in cloud[i].parts
       [] cloud[i].slot = "routeTableId"      ->
            "association" \in cloud[i].parts /\ around({"publicSubnetId"})
       [] OTHER -> FALSE

(* Two groups of a network differ in their names, a network has only one   *)
(* gateway, and one that an instance needs cannot be detached.             *)
MakeRefused(d, slot) == slot = "securityGroupId" /\ Twins(d, slot) # {}

SetRefused(d, i, part) ==
  /\ part = "attachment" /\ cloud[i].network = 0
  /\ \E j \in Twins(d, cloud[i].slot) : "attachment" \in cloud[j].parts

DropRefused(i) ==
  /\ cloud[i].slot = "internetGatewayId"
  /\ \E j \in Around(i) : cloud[j].slot \in Instances

-----------------------------------------------------------------------------
(* The commands.                                                           *)
Doc(p) == Head(queue[p])

Running == {p \in Processes : command[p] # "none"}

(* A user starts one only if the resources that it may need can be made.   *)
Makes(d) ==
  Cardinality({k \in DOMAIN createResource(manifest[d]) : createResource(manifest[d])[k].op = "make"})

Needed == SumFunctionOnSet([d \in DOMAIN manifest |-> Makes(d)], DOMAIN manifest)

Begin(p, cmd) ==
  /\ command[p] = "none"
  /\ cmd = "apply" => Cardinality(Unused) >= Needed * (Cardinality(Running) + 1)
  /\ command' = [command EXCEPT ![p] = cmd]
  /\ \E order \in OrderByDependency :
       queue' = [queue EXCEPT ![p] = IF cmd = "apply" THEN order ELSE Reverse(order)]
  /\ pc' = [pc EXCEPT ![p] = "load"]
  /\ met' = (met \/ Running # {})
  /\ UNCHANGED <<manifest, files, cloud, script, state, faults>>

(* Mutant: the other documents are left for the next command.              *)
FinishEarly(p) ==
  /\ command' = [command EXCEPT ![p] = "none"]
  /\ pc' = [pc EXCEPT ![p] = "idle"]
  /\ script' = [script EXCEPT ![p] = <<>>]
  /\ state' = [state EXCEPT ![p] = NoIds]
  /\ UNCHANGED queue

(* The command ends, and its memory with it.                               *)
Finish(p) ==
  /\ command' = [command EXCEPT ![p] = "none"]
  /\ queue' = [queue EXCEPT ![p] = <<>>]
  /\ pc' = [pc EXCEPT ![p] = "idle"]
  /\ script' = [script EXCEPT ![p] = <<>>]
  /\ state' = [state EXCEPT ![p] = NoIds]

(* Mutant: the ids of one document are carried over to the next.           *)
NextDocumentCarrying(p) ==
  IF Len(queue[p]) = 1 THEN Finish(p)
  ELSE /\ queue' = [queue EXCEPT ![p] = Tail(@)]
       /\ pc' = [pc EXCEPT ![p] = "load"]
       /\ script' = [script EXCEPT ![p] = <<>>]
       /\ UNCHANGED <<command, state>>

NextDocument(p) ==
  IF Len(queue[p]) = 1 THEN Finish(p)
  ELSE /\ queue' = [queue EXCEPT ![p] = Tail(@)]
       /\ pc' = [pc EXCEPT ![p] = "load"]
       /\ script' = [script EXCEPT ![p] = <<>>]
       /\ state' = [state EXCEPT ![p] = NoIds]
       /\ UNCHANGED command

(* The tool returns the error; the engine of the server notes it.          *)
DocumentFails(p) == IF p \in Aborting THEN Finish(p) ELSE NextDocument(p)

(* After the last call the state is saved, or deleted.                     *)
Continue(p, steps) ==
  /\ script' = [script EXCEPT ![p] = steps]
  /\ pc' = [pc EXCEPT ![p] = IF steps # <<>> THEN "run"
                             ELSE IF command[p] = "apply" THEN "save" ELSE "drop"]
  /\ UNCHANGED <<command, queue>>

Remains == UNCHANGED <<manifest, met>>

(* What the state file says; a dry run, like Plan, would end here.         *)
LoadState(p) == pc[p] = "load" /\ UNCHANGED <<files, cloud, faults>> /\ Remains

Unreadable(p) ==
  /\ LoadState(p) /\ files[Doc(p)].content = "torn"
  /\ DocumentFails(p)

(* What exists is not created, and what does not is not deleted.           *)
Skip(p) ==
  /\ LoadState(p)
  /\ files[Doc(p)].content = IF command[p] = "apply" THEN "whole" ELSE "none"
  /\ NextDocument(p)

NotSupported(p) ==
  /\ LoadState(p) /\ command[p] = "apply"
  /\ files[Doc(p)].content = "none" /\ ~Supported(manifest[Doc(p)])
  /\ DocumentFails(p)

(* Mutant: a state that cannot be read is taken for one that is missing.   *)
BeginCreationUnread(p) ==
  /\ LoadState(p) /\ command[p] = "apply"
  /\ files[Doc(p)].content # "whole" /\ Supported(manifest[Doc(p)])
  /\ Continue(p, createResource(manifest[Doc(p)]))
  /\ UNCHANGED state

BeginCreation(p) ==
  /\ LoadState(p) /\ command[p] = "apply"
  /\ files[Doc(p)].content = "none" /\ Supported(manifest[Doc(p)])
  /\ Continue(p, createResource(manifest[Doc(p)]))
  /\ UNCHANGED state

BeginDeletion(p) ==
  /\ LoadState(p) /\ command[p] = "delete"
  /\ files[Doc(p)].content = "whole"
  /\ Continue(p, deleteResource(manifest[Doc(p)], files[Doc(p)].ids))
  /\ state' = [state EXCEPT ![p] = files[Doc(p)].ids]

-----------------------------------------------------------------------------
(* The calls of a script.                                                  *)
Call(p, op) == pc[p] = "run" /\ Head(script[p]).op = op

Slot(p)    == Head(script[p]).slot
Part(p)    == Head(script[p]).part
Target(p)  == state[p][Slot(p)]
Proceed(p) == Continue(p, Tail(script[p]))

(* Mutant: what there is by then is saved.                                 *)
CallFailsAndSaves(p) ==
  /\ \/ Head(script[p]).on # "panics" /\ Continue(p, <<>>) /\ UNCHANGED state
     \/ Head(script[p]).on = "panics" /\ Finish(p)
  /\ UNCHANGED <<files, cloud>> /\ Remains

(* The call fails, or AWS refuses it.                                      *)
CallFails(p) ==
  /\ \/ Head(script[p]).on = "fails" /\ DocumentFails(p)
     \/ Head(script[p]).on = "ignored" /\ Proceed(p) /\ UNCHANGED state
     \/ Head(script[p]).on = "panics" /\ Finish(p)
  /\ UNCHANGED <<files, cloud>> /\ Remains

NotAnswered(p) == pc[p] = "run" /\ Fault /\ CallFails(p)

Network(p) == IF "vpcId" \in DOMAIN state[p] THEN state[p]["vpcId"] ELSE 0

CreateCall(p) ==
  /\ Call(p, "make") /\ ~MakeRefused(Doc(p), Slot(p))
  /\ \E i \in Fresh :
       /\ cloud' = [cloud EXCEPT ![i] = Resource("available", Slot(p), Doc(p), {}, Network(p))]
       /\ state' = [state EXCEPT ![p] = [s \in DOMAIN @ \cup {Slot(p)} |->
                                           IF s = Slot(p) THEN i ELSE @[s]]]
  /\ Proceed(p)
  /\ UNCHANGED <<files, faults>> /\ Remains

CreateCallRefused(p) ==
  /\ Call(p, "make") /\ MakeRefused(Doc(p), Slot(p))
  /\ CallFails(p) /\ UNCHANGED faults

SetCall(p) ==
  /\ Call(p, "set")
  /\ Target(p) \in Live /\ ~SetRefused(Doc(p), Target(p), Part(p))
  /\ cloud' = [cloud EXCEPT ![Target(p)].parts = @ \cup {Part(p)}]
  /\ Proceed(p)
  /\ UNCHANGED <<state, files, faults>> /\ Remains

SetCallRefused(p) ==
  /\ Call(p, "set")
  /\ ~(Target(p) \in Live /\ ~SetRefused(Doc(p), Target(p), Part(p)))
  /\ CallFails(p) /\ UNCHANGED faults

DropCall(p) ==
  /\ Call(p, "drop") /\ Target(p) \in Live
  /\ ~DropRefused(Target(p))
  /\ cloud' = [cloud EXCEPT ![Target(p)].parts = @ \ {Part(p)}]
  /\ Proceed(p)
  /\ UNCHANGED <<state, files, faults>> /\ Remains

DropCallRefused(p) ==
  /\ Call(p, "drop")
  /\ ~(Target(p) \in Live /\ ~DropRefused(Target(p)))
  /\ CallFails(p) /\ UNCHANGED faults

(* An instance can be terminated again as long as it can be described.     *)
RemoveCall(p) ==
  /\ Call(p, "remove")
  /\ Target(p) \in IF Slot(p) \in Instances THEN Described ELSE Live
  /\ ~InUse(Target(p))
  /\ cloud' = [cloud EXCEPT ![Target(p)].status =
                  IF Slot(p) \in Instances THEN "deleting" ELSE "gone"]
  /\ Proceed(p)
  /\ UNCHANGED <<state, files, faults>> /\ Remains

RemoveCallRefused(p) ==
  /\ Call(p, "remove")
  /\ ~(Target(p) \in IF Slot(p) \in Instances THEN Described ELSE Live) \/ InUse(Target(p))
  /\ CallFails(p) /\ UNCHANGED faults

(* To describe a route table that is not there is an error.                *)
DescribeCall(p) ==
  /\ Call(p, "describe") /\ Target(p) \in Live
  /\ Proceed(p)
  /\ UNCHANGED <<state, files, cloud, faults>> /\ Remains

DescribeCallRefused(p) ==
  /\ Call(p, "describe") /\ Slot(p) = "routeTableId" /\ Target(p) \notin Live
  /\ CallFails(p) /\ UNCHANGED faults

(* Without an image there is no bastion, and the stack is ready all the    *)
(* same.                                                                   *)
ImageCall(p) ==
  /\ Call(p, "image")
  /\ \/ Proceed(p)
     \/ Continue(p, <<>>)
  /\ UNCHANGED <<state, files, cloud, faults>> /\ Remains

-----------------------------------------------------------------------------
(* The state file is truncated first, and written then.                    *)
Truncate(p) ==
  /\ pc[p] = "save"
  /\ files' = [files EXCEPT ![Doc(p)] = Torn]
  /\ pc' = [pc EXCEPT ![p] = "write"]
  /\ UNCHANGED <<command, queue, script, state, cloud, faults>> /\ Remains

Write(p) ==
  /\ pc[p] = "write"
  /\ files' = [files EXCEPT ![Doc(p)] = File("whole", state[p])]
  /\ NextDocument(p)
  /\ UNCHANGED <<cloud, faults>> /\ Remains

DeleteState(p) ==
  /\ pc[p] = "drop"
  /\ files' = [files EXCEPT ![Doc(p)] = NoFile]
  /\ NextDocument(p)
  /\ UNCHANGED <<cloud, faults>> /\ Remains

FileFails(p) ==
  /\ pc[p] \in {"save", "write", "drop"} /\ Fault
  /\ DocumentFails(p)
  /\ UNCHANGED <<files, cloud>> /\ Remains

Crash(p) ==
  /\ pc[p] # "idle" /\ Fault
  /\ Finish(p)
  /\ UNCHANGED <<files, cloud>> /\ Remains

(* Somebody deletes a resource.                                            *)
Perish(i) ==
  /\ i \in Live /\ Fault
  /\ cloud' = [cloud EXCEPT ![i].status = "gone"]
  /\ UNCHANGED <<manifest, files, procs, met>>

(* An instance takes some minutes to shut down.                            *)
ShutDown(i) ==
  /\ cloud[i].status = "deleting"
  /\ cloud' = [cloud EXCEPT ![i].status = "gone"]
  /\ UNCHANGED <<manifest, files, procs, met, faults>>

Init ==
  /\ manifest \in Manifests
  /\ files = [d \in DOMAIN manifest |-> NoFile]
  /\ cloud = [i \in Ids |-> Resource("none", "", "", {}, 0)]
  /\ command = [p \in Processes |-> "none"]
  /\ queue = [p \in Processes |-> <<>>]
  /\ pc = [p \in Processes |-> "idle"]
  /\ script = [p \in Processes |-> <<>>]
  /\ state = [p \in Processes |-> NoIds]
  /\ met = FALSE /\ faults = 0

Proc(p) ==
  \/ Unreadable(p) \/ Skip(p) \/ NotSupported(p) \/ BeginCreation(p) \/ BeginDeletion(p)
  \/ CreateCall(p) \/ CreateCallRefused(p) \/ SetCall(p) \/ SetCallRefused(p)
  \/ DropCall(p) \/ DropCallRefused(p) \/ RemoveCall(p) \/ RemoveCallRefused(p)
  \/ DescribeCall(p) \/ DescribeCallRefused(p) \/ ImageCall(p)
  \/ Truncate(p) \/ Write(p) \/ DeleteState(p)
  \/ NotAnswered(p) \/ FileFails(p)

Next ==
  \/ \E p \in Processes : Proc(p) \/ Crash(p) \/ \E cmd \in {"apply", "delete"} : Begin(p, cmd)
  \/ \E i \in Ids : Perish(i) \/ ShutDown(i)

Spec == Init /\ [][Next]_vars

(* A command that runs goes on, and an instance shuts down some day.       *)
Fairness ==
  /\ \A p \in Processes : WF_vars(Proc(p))
  /\ \A i \in Ids : WF_vars(ShutDown(i))

FairSpec == Spec /\ Fairness

-----------------------------------------------------------------------------
Recorded(d) == {files[d].ids[s] : s \in DOMAIN files[d].ids}

Kept(p) == {state[p][s] : s \in DOMAIN state[p]}

FilesOK ==
  /\ files = [d \in DOMAIN manifest |-> files[d]]
  /\ \A d \in DOMAIN files :
       /\ files[d] = File(files[d].content, files[d].ids)
       /\ files[d].content \in {"none", "torn", "whole"} /\ IsRecord(files[d].ids)

CloudOK ==
  cloud \in [Ids -> [status : {"none", "available", "deleting", "gone"}, slot : Slots \cup {""},
                    doc : DOMAIN manifest \cup {""}, parts : SUBSET Parts, network : Ids \cup {0}]]

ProcsOK ==
  /\ command \in [Processes -> {"none", "apply", "delete"}]
  /\ queue \in [Processes -> Seq(DOMAIN manifest)]
  /\ pc \in [Processes -> {"idle", "load", "run", "save", "write", "drop"}]
  /\ script \in [Processes -> Seq(Steps)]
  /\ state = [p \in Processes |-> state[p]]
  /\ \A p \in Processes :
       /\ (pc[p] = "idle") = (command[p] = "none")
       /\ (pc[p] = "idle") = (queue[p] = <<>>)
       /\ (pc[p] = "run") = (script[p] # <<>>)
       /\ IsRecord(state[p])

(* Everything is of its type.                                              *)
TypeOK ==
  /\ manifest \in Manifests
  /\ FilesOK /\ CloudOK /\ ProcsOK
  /\ met \in BOOLEAN /\ faults \in 0..MaxFaults

(* If nothing goes wrong and no two commands meet, then whatever lives is  *)
(* in the state file of its document, or still in the hands of the process *)
(* that has made it; but the deletion of a stack does not wait until its   *)
(* bastion is gone, and forgets what could not be deleted for that reason. *)
NothingLost ==
  faults = 0 /\ ~met =>
    \A i \in Live :
      \/ i \in Recorded(cloud[i].doc)
      \/ \E p \in Processes : i \in Kept(p) /\ command[p] = "apply"
      \/ manifest[cloud[i].doc] = "ComputeStackWithBastion"

(* A state file that can be read has all that the document asks for,       *)
(* whatever has gone wrong, and whoever else has been at work.             *)
WhatIsRecordedIsComplete ==
  \A d \in DOMAIN manifest :
    files[d].content = "whole" =>
      LET steps == createResource(manifest[d])
      IN \A k \in DOMAIN steps :
           steps[k].op = "make" /\ steps[k].slot # "bastionInstanceId" =>
             /\ steps[k].slot \in DOMAIN files[d].ids
             /\ cloud[files[d].ids[steps[k].slot]].doc = d

(* Of two documents no resource is recorded twice, so that the deletion of *)
(* one leaves the other alone.                                             *)
NothingShared ==
  \A d, e \in DOMAIN manifest : d # e => Recorded(d) \cap Recorded(e) = {}

(* A state file is given up only after what it records is deleted, also if *)
(* the process had died before and the command is repeated; of a stack     *)
(* this cannot be said, and not if another process made the file anew.     *)
ForgottenWhenGone ==
  [][\A d \in DOMAIN manifest :
       files[d].content = "whole" /\ files'[d].content = "none" =>
         \/ Recorded(d) \cap Live = {}
         \/ manifest[d] \in Stacks \/ met]_vars

(* While a file is being written, and for ever if the process dies then,   *)
(* nothing is made or deleted for its document: the file is taken neither  *)
(* for a document that exists nor for one that does not.                   *)
LiveOf(d) == {i \in Live : cloud[i].doc = d}

TornStopsAll ==
  [][\A d \in DOMAIN manifest :
       files[d].content = "torn" => LiveOf(d)' = LiveOf(d) \/ faults' # faults \/ met]_vars

(* The invariant that all but the first and the last of these follow from. *)

(* Until two commands meet, there is one at a time.                        *)
Alone == ~met => \A p, q \in Running : p = q

(* Ids are those of resources that were made for the document, and each is *)
(* in its slot.                                                            *)
MadeFor(d, ids) ==
  \A s \in DOMAIN ids :
    cloud[ids[s]].doc = d /\ cloud[ids[s]].slot = s /\ cloud[ids[s]].status # "none"

MakesOf(steps) == {steps[k].slot : k \in {j \in DOMAIN steps : steps[j].op = "make"}}

MadeSlots(kind) == MakesOf(createResource(kind))

(* What is missing from the record is still to be made; whether there will *)
(* be a bastion turns out when its image is looked for.                    *)
Creates(kind, ids, steps) ==
  /\ DOMAIN ids \cup MakesOf(steps) \subseteq MadeSlots(kind)
  /\ MadeSlots(kind) \ {"bastionInstanceId"} \subseteq DOMAIN ids \cup MakesOf(steps)
  /\ \A k \in DOMAIN steps :
       steps[k].op # "remove" /\ (steps[k].op = "make" => steps[k].on = "fails")
  /\ \A j, k \in DOMAIN steps :
       steps[j].op = "image" /\ j < k /\ steps[k].op = "make" => steps[k].slot = "bastionInstanceId"

(* Only what is recorded is to be deleted, and what still lives still is.  *)
Deletes(kind, ids, steps) ==
  /\ \A k \in DOMAIN steps : steps[k].op \notin {"make", "image"} /\ steps[k].slot \in DOMAIN ids
  /\ kind \notin Stacks =>
       \A s \in DOMAIN ids : ids[s] \notin Live \/ \E k \in DOMAIN steps : steps[k] = Delete(s)

(* A process that has met no other knows what the file says.               *)
KnowsFile(p) ==
  /\ command[p] = "apply" /\ pc[p] # "write" => files[Doc(p)].content = "none"
  /\ command[p] = "delete" => files[Doc(p)] = File("whole", state[p])

AtPc(p) ==
  /\ pc[p] \in {"idle", "load"} => DOMAIN state[p] = {}
  /\ pc[p] \in {"save", "write"} => command[p] = "apply"
  /\ pc[p] = "drop" => command[p] = "delete"
  /\ pc[p] \notin {"idle", "load"} =>
       /\ MadeFor(Doc(p), state[p])
       /\ command[p] = "apply" => Creates(manifest[Doc(p)], state[p], script[p])
       /\ command[p] = "delete" => Deletes(manifest[Doc(p)], state[p], script[p])
       /\ ~met => KnowsFile(p)

OnFile(d) ==
  /\ MadeFor(d, files[d].ids)
  /\ DOMAIN files[d].ids \subseteq MadeSlots(manifest[d])
  /\ files[d].content = "whole" =>
       MadeSlots(manifest[d]) \ {"bastionInstanceId"} \subseteq DOMAIN files[d].ids

IInv ==
  /\ TypeOK /\ Alone
  /\ \A p \in Processes : AtPc(p)
  /\ \A d \in DOMAIN manifest : OnFile(d)

(* And the one that NothingLost follows from.                              *)

(* Slots are those of the document's kind; a network is the document's own *)
(* VPC; and only instances take time to go.                                *)
Placed ==
  \A i \in Ids : cloud[i].status # "none" =>
    /\ cloud[i].doc \in DOMAIN manifest
    /\ cloud[i].slot \in MadeSlots(manifest[cloud[i].doc])
    /\ cloud[i].network # 0 =>
         /\ cloud[cloud[i].network].status # "none"
         /\ cloud[cloud[i].network].doc = cloud[i].doc
    /\ cloud[i].status = "deleting" => cloud[i].slot \in Instances

(* Only a whole file records anything.                                     *)
Blank == \A d \in DOMAIN manifest : files[d].content # "whole" => DOMAIN files[d].ids = {}

(* In the order in which the creations have them, no step is refused that  *)
(* must not be: a slot is made once, and before what is set insists on it. *)
Insists(step) == step.op = "set" /\ step.on # "ignored"

Orderly(slots, steps) ==
  \A k \in DOMAIN steps :
    /\ steps[k].op \in {"make", "set", "describe"}
    /\ steps[k].op = "describe" => steps[k].slot = "vpcId"
    /\ steps[k].op = "make" => steps[k].slot \notin slots
    /\ steps[k].op = "set" => steps[k].slot \notin Instances
    /\ steps[k].op = "set" =>
         \/ steps[k].slot \in slots
         \/ \E j \in DOMAIN steps :
              j < k /\ steps[j].op = "make" /\ steps[j].slot = steps[k].slot
    /\ \A j \in DOMAIN steps :
         /\ j < k
         /\ \/ steps[j].op = "make" /\ steps[k].op = "make"
            \/ steps[j].op = "set" /\ Insists(steps[k])
         => steps[j].slot # steps[k].slot

(* A creation that nothing disturbs has made all that it knows of.         *)
Builds(ids, steps) ==
  /\ Orderly(DOMAIN ids, steps)
  /\ \A s \in DOMAIN ids : ids[s] \in Live
  /\ \A k \in DOMAIN steps :
       Insists(steps[k]) /\ steps[k].slot \in DOMAIN ids => cloud[ids[steps[k].slot]].parts = {}

(* What keeps a part of a stack from being deleted is taken away before.   *)
Loosens(ids, steps, slot, part) ==
  \A k \in DOMAIN steps : steps[k] = TryDelete(slot) =>
    \/ ids[slot] \notin Live
    \/ part \notin cloud[ids[slot]].parts
    \/ \E j \in DOMAIN steps : j < k /\ steps[j] = Drop(slot, part)

(* A deletion of a stack deletes all that it knows of, and the VPC last.   *)
Clears(ids, steps) ==
  /\ \A s \in DOMAIN ids : ids[s] \in Live => \E k \in DOMAIN steps : steps[k] = TryDelete(s)
  /\ \A k \in DOMAIN steps : steps[k].op # "set"
  /\ Loosens(ids, steps, "routeTableId", "association")
  /\ Loosens(ids, steps, "internetGatewayId", "attachment")
  /\ \A j, k \in DOMAIN steps : steps[k] = TryDelete("vpcId") => j <= k

Careful(p) ==
  pc[p] \notin {"idle", "load"} =>
    /\ command[p] = "apply" /\ manifest[Doc(p)] # "ComputeStackWithBastion" =>
         Builds(state[p], script[p])
    /\ command[p] = "delete" /\ manifest[Doc(p)] = "ComputeStack" =>
         Clears(state[p], script[p])
    /\ pc[p] = "write" => files[Doc(p)].content = "torn"

NInv ==
  /\ IInv /\ Placed /\ Blank
  /\ faults = 0 /\ ~met => NothingLost /\ \A p \in Processes : Careful(p)

(* If deleting is repeated again and again, and nothing else is done, then *)
(* the process that does not give up at the first failure deletes all but  *)
(* the documents whose file is torn or whose resource somebody else has    *)
(* deleted: for those the command fails for ever.                          *)
Stuck(d) ==
  \/ files[d].content = "torn"
  \/ files[d].content = "whole" /\ ~(Recorded(d) \subseteq Live)

DeletingGoesOn ==
  \E p \in Processes \ Aborting :
    /\ []<><<Begin(p, "delete")>>_vars
    /\ <>[][\A q \in Processes : ~Begin(q, "apply")]_vars

DeletesInTheEnd ==
  DeletingGoesOn =>
    <>[](\A d \in DOMAIN manifest : files[d].content = "none" \/ Stuck(d))
=============================================================================
