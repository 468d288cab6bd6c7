------------------------ MODULE MCResourceController ------------------------
EXTENDS ResourceController, AwsServices, TLC

AllKinds == DOMAIN Reconcilers

ValidObjects ==
  {o \in [kind : AllKinds, policy : Policies, valid : {TRUE}, faults : 1..2] :
     /\ o.policy \in PoliciesOf[o.kind]
     /\ o.faults = 2 <=> o.policy = "Delete"}

InvalidObjects ==
  [kind : {"vpc", "dynamodb", "apigateway"}, policy : {"Delete"}, valid : {FALSE}, faults : {2}]

AllObjects == ValidObjects \cup InvalidObjects

RetainedDatabases == {o \in ValidObjects : o.kind = "rds" /\ o.policy = "Retain"}
=============================================================================
