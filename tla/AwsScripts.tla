----------------------------- MODULE AwsScripts -----------------------------
(***************************************************************************)
(* How the calls that an adapter makes to AWS are written down.  A         *)
(* function of an adapter is a script: the sequence of calls it makes that *)
(* change the resource, or whose failure changes what happens next.  What  *)
(* a step does is defined in ResourceController; a failure ends the script *)
(* unless the code goes on regardless.                                     *)
(***************************************************************************)
EXTENDS Sequences

Step(op, parts, on) == [op |-> op, parts |-> parts, on |-> on]

(* Create the resource, with the parts that the same call configures.      *)
MakeWith(parts) == Step("make", parts, "fails")
Make            == MakeWith({})

(* Configure a part of it: an error is returned, or (Try) not looked at.   *)
Must(part) == Step("set", {part}, "fails")
Try(part)  == Step("set", {part}, "ignored")

(* Configure a part that a comparison with what exists shows to differ.    *)
Mend(part) == Step("mend", {part}, "fails")

(* Take away what a comparison shows to be too much: no part of what the   *)
(* spec wants.                                                             *)
Tidy == Step("mend", {}, "fails")

(* Take a part away: whether or not it is there, or what a list shows.     *)
Drop(part)  == Step("drop", {part}, "fails")
Clear(part) == Step("clear", {part}, "fails")

(* Describe the resource and carry its state on.                           *)
Look    == Step("look", {}, "fails")
TryLook == Step("look", {}, "ignored")

(* A call with no effect on the resource.                                  *)
Call == Step("call", {}, "fails")

(* Allocate another resource that the first one needs.                     *)
Allocate == Step("allocate", {}, "fails")

(* Delete the resource.                                                    *)
Remove == Step("remove", {}, "fails")

(* The function is not implemented: it returns an error.                   *)
Refuse == Step("refuse", {}, "fails")

Ops == {"make", "set", "mend", "drop", "clear", "look", "call", "allocate",
        "remove", "refuse"}

(* The same calls by a caller that ignores their errors.                   *)
Ignoring(script) == [i \in DOMAIN script |-> [script[i] EXCEPT !.on = "ignored"]]

-----------------------------------------------------------------------------
(* How the code finds out whether the resource exists: by the id that the  *)
(* status records or by the name in the spec, what it makes of a call that *)
(* fails, and what of an answer that there is no such resource.            *)

Lookup(by, onError, onMissing) ==
  [by |-> by, onError |-> onError, onMissing |-> onMissing]

ById(onError, onMissing)   == Lookup("id", onError, onMissing)
ByName(onError, onMissing) == Lookup("name", onError, onMissing)

(* By the id also when there is none: AWS calls that question not valid,   *)
(* which is not the answer that there is no such resource.                 *)
ByAnyId(onMissing) == Lookup("anyId", "fails", onMissing)

(* By the id if there is one, and by the name if that has not found it,    *)
(* for whatever reason; onError is about the second question.              *)
ByIdOrName(onError, onMissing) == Lookup("either", onError, onMissing)

(* There is an id: AWS is not asked.                                       *)
ByRecord == Lookup("record", "fails", "fails")

(* If there is one; otherwise it is.                                       *)
UnlessRecorded(byName) == [byName EXCEPT !.by = "recordOrName"]

Lookups ==
  {lookup \in [by : {"id", "anyId", "name", "either", "record", "recordOrName"},
               onError : {"absent", "fails"}, onMissing : {"absent", "fails"}] :
     lookup.by = "anyId" => lookup.onError = "fails"}

(* Those that a deletion uses ask AWS one question at most.                *)
DeletionLookups == {lookup \in Lookups : lookup.by \notin {"anyId", "either"}}

-----------------------------------------------------------------------------
(* A use case makes the resource be as the spec wants it: it looks for it, *)
(* and runs one script if it finds it and another if it does not.          *)
Sync(find, found, absent) == [find |-> find, found |-> found, absent |-> absent]

(* It deletes the resource at once, by its recorded id or by its name, or  *)
(* only if a lookup finds it, or only if an id is recorded.                *)
Straight(script)       == [guarded |-> FALSE, find |-> ByRecord, script |-> script]
StraightByName(script) ==
  [guarded |-> FALSE, find |-> ByName("fails", "fails"), script |-> script]
IfFound(find, script)  == [guarded |-> TRUE, find |-> find, script |-> script]
IfRecorded(script)     == IfFound(ByRecord, script)
=============================================================================
