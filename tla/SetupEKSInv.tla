----------------------------- MODULE SetupEKSInv -----------------------------
(* Inductive invariants of SetupEKS: what is so as long as nobody has      *)
(* asked for the deletion of the object, and what a script still does; and *)
(* what is so from there to the deletion's end, if nothing goes wrong.     *)
EXTENDS SetupEKS

NoPart(rec) == {part \in Parts : rec[part] = None}

(* Everything that has an id lives, under the name of its part; and what   *)
(* goes by a name of the user's is the user's.                             *)
Held(ids) ==
  \A part \in Parts \ NoPart(ids) :
    /\ ids[part] \in Live /\ cloud[ids[part]].part = part
    /\ part \in Kept => ids[part] \in Foreign

(* It has what belongs to it, but for a role that gets it next.            *)
Equipped(rec, pending) ==
  \A part \in Parts \ (NoPart(rec) \cup pending) : Settings(part) \subseteq cloud[rec[part]].settings

Attaches(step, part) == step.op = "set" /\ step.part = part /\ step.setting = "policies"

Pending == {part \in Roles : todo # <<>> /\ Attaches(todo[1], part)}

(* What a script will have recorded in the end.                            *)
Coming(s) == UNION {s[k].records : k \in 1..Len(s)}

(* An address comes with its NAT gateway, the first gateway before the     *)
(* second, the public table before the others; and all that is wanted      *)
(* comes with the first, if nothing goes wrong.                            *)
Complete(rec, coming, first, parts) ==
  Undisturbed /\ (rec[first] # None \/ first \in coming) =>
    Wanted \cap parts \cap NoPart(rec) \subseteq coming

InOrder(rec, coming) ==
  /\ \A z \in Zones : rec[Eip[z]] # None => rec[NAT[z]] # None
  /\ rec["nat2"] # None => rec["nat1"] # None
  /\ (\E part \in Each(PrivateRT) : rec[part] # None) => rec["publicRT"] # None
  /\ Complete(rec, coming, "nat1", Each(NAT)) /\ Complete(rec, coming, "publicRT", Tables)

(* How far the setup is in a phase, and what is recorded after it.         *)
Ranks ==
  [CreatingIAMRoles |-> 1, CreatingVPC |-> 2, WaitingVPC |-> 3, CreatingIGW |-> 4,
   CreatingSubnets |-> 5, WaitingSubnets |-> 6, CreatingNATGateway |-> 7,
   WaitingNATGateway |-> 8, CreatingRouteTables |-> 9, CreatingSecGroups |-> 10,
   CreatingCluster |-> 11, WaitingCluster |-> 12, CreatingNodePools |-> 13,
   WaitingNodePools |-> 14, InstallingAddons |-> 15, WaitingAddons |-> 16, Ready |-> 17]

Rank(phase) == IF phase \in DOMAIN Ranks THEN Ranks[phase] ELSE 0

Promised == Needed \cup (IF Undisturbed THEN Wanted ELSE {})

Makes ==
  [CreatingIAMRoles |-> Roles, CreatingVPC |-> {"vpc"}, CreatingIGW |-> {"igw"},
   CreatingSubnets |-> Subnets, CreatingNATGateway |-> Each(NAT),
   CreatingRouteTables |-> Tables, CreatingSecGroups |-> Groups,
   CreatingCluster |-> {"cluster"}, CreatingNodePools |-> {"pool"},
   InstallingAddons |-> {"addon"}]

Reached(o) ==
  \A phase \in Creating :
    Rank(phase) < Rank(o.phase) => Promised \cap Makes[phase] \cap NoPart(o.rec) = {}

Whole(o, pending, coming) ==
  /\ Held(o.rec) /\ Equipped(o.rec, pending) /\ InOrder(o.rec, coming) /\ Reached(o)
  /\ o.ready => o.phase = "Ready"

-----------------------------------------------------------------------------
(* The script of a phase that makes something.                             *)
Before(s, k, part) == \E j \in 1..(k - 1) : s[j].op = "make" /\ s[j].part = part

HasMade(s, k, part) == made[part] # None \/ Before(s, k, part)

Equips(s, k, part, setting) ==
  \/ made[part] # None /\ setting \in cloud[made[part]].settings
  \/ \E j \in 1..k : s[j].op = "set" /\ s[j].part = part /\ s[j].setting = setting

(* Every part is made once, if it is not there; a role gets its policies   *)
(* with the next step.                                                     *)
MakesOnce(s, k) ==
  LET part == s[k].part
  IN s[k].op = "make" =>
       /\ made[part] = None /\ work.rec[part] = None
       /\ \A j \in 1..(k - 1) : s[j].part # part
       /\ \E j \in k..Len(s) : part \in s[j].records
       /\ part \in Roles => k < Len(s) /\ s[k].records = {part} /\ Attaches(s[k + 1], part)

(* It is set up after that.                                                *)
SetsMade(s, k) ==
  s[k].op = "set" =>
    /\ HasMade(s, k, s[k].part)
    /\ IF s[k].setting = "policies" THEN s[k].part \in Roles /\ s[k].records = {}
       ELSE s[k].part \notin Roles /\ work.rec[s[k].part] \in {None, made[s[k].part]}

(* It is recorded when it has what belongs to it, but for the roles.       *)
RecordsMade(s, k) ==
  \A part \in s[k].records :
    /\ work.rec[part] = None /\ part \notin Kept
    /\ part = s[k].part \/ part \in Each(Eip)
    /\ HasMade(s, k, part) \/ (s[k].op = "make" /\ s[k].part = part)
    /\ \A j \in 1..(k - 1) : part \notin s[j].records
    /\ part \notin Roles => \A setting \in Settings(part) : Equips(s, k, part, setting)

Recorded1st(s, k, part) == work.rec[part] # None \/ \E j \in 1..(k - 1) : part \in s[j].records

InTurn(s, k) ==
  /\ \A z \in Zones : Eip[z] \in s[k].records => NAT[z] \in s[k].records
  /\ "nat2" \in s[k].records => Recorded1st(s, k, "nat1")
  /\ s[k].records \cap Each(PrivateRT) # {} => Recorded1st(s, k, "publicRT")

(* A call that fails ends the phase, but for the one for the add-ons.      *)
Insists(s, k) ==
  /\ s[k].inUse = "fails"
  /\ IF s[k].part = "addon"
     THEN Len(s) = 1 /\ s[k].op = "make" /\ s[k].records = {"addon"} /\ s[k].on = "passes"
     ELSE s[k].on = "fails"

Orderly(s) ==
  \A k \in 1..Len(s) :
    MakesOnce(s, k) /\ SetsMade(s, k) /\ RecordsMade(s, k) /\ InTurn(s, k) /\ Insists(s, k)

(* What has been made is recorded, or will be; and so is what the phase is *)
(* for.                                                                    *)
Accounted ==
  \A part \in Parts \ NoPart(made) :
    made[part] \in Foreign \/ work.rec[part] = made[part] \/ part \in Coming(todo)

Following ==
  pc = "run" /\ work.phase \in Creating =>
    Promised \cap Makes[work.phase] \cap NoPart(work.rec) \subseteq Coming(todo)

Scripted ==
  /\ IF todo \in FindingScripts THEN made = NoRecord ELSE Orderly(todo)
  /\ Undisturbed \/ pc = "run" => Accounted
  /\ Following

Doing == Whole(work, Pending, Coming(todo)) /\ Held(made) /\ Scripted

-----------------------------------------------------------------------------
(* If nothing goes wrong, Reconcile has read what is so, and what there is *)
(* of the setup's is in its place, or in the hands of Reconcile.           *)
InHand ==
  \A i \in Ours : cloud[i].part # "balancer" =>
    LET part == cloud[i].part IN i \in {object.rec[part], work.rec[part], made[part]}

Carried == pc # "idle" => \A part \in Parts : object.rec[part] \in {None, work.rec[part]}

UpToDate == Carried /\ InHand

Sure ==
  /\ \A i \in Ids : cloud[i].state \notin {"deleting", "gone"}
  /\ Whole(object, {}, {}) /\ Whole(cache, {}, {}) /\ Doing
  /\ faults = 0 /\ pc # "idle" => workFresh
  /\ Undisturbed => UpToDate

RInv ==
  /\ IF pc = "idle" THEN work = Gone ELSE work.exists
  /\ ~object.exists => ~object.ready
  /\ ~Asked => Sure
-----------------------------------------------------------------------------
(* As long as nothing goes wrong with a setup in a VPC of its own, nobody  *)
(* loses sight of what lives, from the creation to the deletion's end.     *)
Minded == faults = 0 /\ OwnVpc /\ config.policy = "Delete" /\ object.exists

InVpc == Tables \cup Subnets \cup {"igw"}

(* What lies in the subnets, and keeps them and the VPC's gateway in use.  *)
Hanging == Each(NAT) \cup {"cluster", "balancer"}

Titled(rec) == \A part \in Parts \ NoPart(rec) : cloud[rec[part]].part = part

(* What is recorded is what it is recorded as, and in the VPC; an address  *)
(* serves the gateway beside it; and as long as anything hangs in the VPC, *)
(* there is a subnet to tell.                                              *)
Situated(rec) ==
  /\ Titled(rec)
  /\ \A part \in InVpc \ NoPart(rec) :
       rec["vpc"] # None /\ cloud[rec[part]].network = rec["vpc"]
  /\ \A z \in Zones : rec[Eip[z]] # None =>
       /\ rec[NAT[z]] # None
       /\ \A i \in Ids : cloud[i].address = rec[Eip[z]] => i = rec[NAT[z]]
  /\ rec["vpc"] # None /\ Within(rec["vpc"], Hanging) # {} =>
       \E part \in Subnets : rec[part] \in Live

(* The script of the deletion: what is cleared has been removed before.    *)
Removes(step, part) ==
  \/ step.op = "delete" /\ step.part = part
  \/ step.op = "sweep" /\ step.part = "tables" /\ part \in Tables

Dismissed(parts, before) ==
  \A part \in parts \ NoPart(work.rec) : \E step \in before : part \in step.records

(* Why AWS does not refuse a deletion that is not insisted on.             *)
Binding(part) == IF part = "igw" THEN "attachment" ELSE "policies"

Loose(part, before) ==
  \/ part = "addon"
  \/ \E z \in Zones :
       /\ part = Eip[z]
       /\ \/ work.rec[NAT[z]] \notin Described
          \/ \E step \in before : step.op = "await" /\ step.part = NAT[z]
  \/ /\ part \in Roles \cup {"igw"}
     /\ \/ Binding(part) \notin cloud[work.rec[part]].settings
        \/ \E step \in before :
              step.op = "detach" /\ step.part = part /\ step.setting = Binding(part)

InPlace(step, before) ==
  /\ \A part \in step.records :
       work.rec[part] \in Live => \E other \in before \cup {step} : Removes(other, part)
  /\ step.op = "delete" /\ step.inUse = "passes" /\ work.rec[step.part] \in Live =>
       Loose(step.part, before)
  /\ step.op = "detach" /\ step.part = "igw" => Dismissed(Subnets, before)
  /\ "vpc" \in step.records => Dismissed(InVpc, before)
  /\ \A z \in Zones : NAT[z] \in step.records => Dismissed({Eip[z]}, before \cup {step})

Clearing(s) ==
  /\ Parts \ NoPart(work.rec) \subseteq Coming(s)
  /\ \A k \in 1..Len(s) : InPlace(s[k], {s[j] : j \in 1..(k - 1)})

(* A reconcile that deletes, and one that makes.                           *)
InStep == \A part \in Parts : object.rec[part] \in Live => work.rec[part] = object.rec[part]

Departing ==
  /\ workFresh /\ work.phase = "Deleting"
  /\ pc \in {"phase", "run", "release"} => object.phase = "Deleting"
  /\ InStep /\ Situated(work.rec)
  /\ pc = "run" => Clearing(todo)
  /\ pc = "release" => work.rec = NoRecord

FoundedSteps ==
  {step \in Steps :
     /\ step.part \notin Roles \cup {"vpc"} => object.rec["vpc"] # None
     /\ step.part \in Each(NAT) \cup {"cluster"} => object.rec["public1"] # None
     /\ step.op = "set" => step.part \notin Each(NAT)}

Arriving ==
  /\ pc # "release" /\ object.phase # "Deleting"
  /\ pc \in {"finalizer", "phase", "run"} => work.phase = object.phase
  /\ todo \in Seq(FoundedSteps)
  /\ \A z \in Zones : made[Eip[z]] # None =>
       /\ cloud[made[Eip[z]]].state # "none"
       /\ \A y \in Zones : object.rec[Eip[y]] # made[Eip[z]]
  /\ workFresh =>
       /\ InStep /\ Situated(work.rec)
       /\ \A part \in InVpc \ NoPart(made) :
            work.rec["vpc"] # None /\ cloud[made[part]].network = work.rec["vpc"]
       /\ \A z \in Zones : made[Eip[z]] # None /\ made[NAT[z]] = None =>
            \A i \in Ids : cloud[i].address # made[Eip[z]]

Standing ==
  /\ \A i \in Ids : cloud[i].state \notin {"deleting", "gone"}
  /\ Rank(object.phase) > Rank("CreatingVPC") => object.rec["vpc"] # None
  /\ Rank(object.phase) > Rank("CreatingSubnets") => object.rec["public1"] # None
  /\ Of(Hanging) # {} => object.rec["public1"] # None

Mindful ==
  /\ object.finalizer \/ object.rec = NoRecord
  /\ object.phase # "Deleting" => Standing
  /\ \A i \in Ids : cloud[i].address # None => cloud[cloud[i].address].state # "none"
  /\ Titled(object.rec) /\ (pc = "idle" \/ ~work.deleting => Situated(object.rec))
  /\ pc # "idle" => IF work.deleting THEN Departing ELSE Arriving

FInv == Minded => Mindful
=============================================================================
