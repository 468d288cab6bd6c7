------------------------------ MODULE Lifecycle ------------------------------
(***************************************************************************)
(* What the operator promises of any object it reconciles, whatever AWS    *)
(* resources the object stands for: the object's record and the resources  *)
(* may disagree for a while, but a resource that lives and is recorded is  *)
(* neither let go of nor destroyed before the user asks for it, and the    *)
(* object goes only when nothing it records is left.                       *)
(*                                                                         *)
(* The controllers implement this: see Promise in ComputeStack and in      *)
(* ResourceController.                                                     *)
(***************************************************************************)
VARIABLES
  object,     \* "standing", "marked" for deletion, or "gone"
  kept,       \* whether the operator may let go of what lives
  recorded,   \* the resources the object's status names
  live        \* the operator's resources that exist in AWS

vars == <<object, kept, recorded, live>>

Init ==
  /\ object = "standing"
  /\ kept \in BOOLEAN
  /\ recorded = {}

(* A resource is created, long before or even without its being recorded.  *)
Appear == live \subseteq live' /\ UNCHANGED <<object, kept, recorded>>

(* Once the user has deleted the object resources come and go: they are    *)
(* destroyed, and a reconcile that has not noticed yet still creates some. *)
Destroy == object # "standing" /\ ~kept /\ UNCHANGED <<object, kept, recorded>>

(* Somebody else destroys a resource.                                      *)
Perish == live' \subseteq live /\ UNCHANGED <<object, kept, recorded>>

LetGo == (recorded \ recorded') \cap live = {} \/ kept

(* The status is written.                                                  *)
Record == object # "gone" /\ LetGo /\ UNCHANGED <<object, kept, live>>

Mark == object = "standing" /\ object' = "marked" /\ UNCHANGED <<kept, recorded, live>>

(* The object goes, unmarked only if it never recorded anything.           *)
Go ==
  /\ object = "marked" \/ recorded = {}
  /\ object # "gone" /\ object' = "gone"
  /\ recorded' = {}
  /\ LetGo
  /\ UNCHANGED <<kept, live>>

Next == Appear \/ Destroy \/ Record \/ Mark \/ Go

(* In an account that nobody else touches.                                 *)
Spec == Init /\ [][Next]_vars

(* In an account where resources may vanish under the operator.            *)
SharedSpec == Init /\ [][Next \/ Perish]_vars
=============================================================================
