------------------------------ MODULE MCEngine ------------------------------
EXTENDS Engine

(* One manifest per way in which a document can be peculiar.               *)
SomeManifests ==
  {[vpc |-> "VPC", sg |-> "SecurityGroup"],
   [igw |-> "InternetGateway", bucket |-> "S3Bucket"],
   [bucket |-> "S3Bucket", vm |-> "EC2Instance"],
   [subnet |-> "Subnet", eks |-> "SetupEKS"],
   [stack |-> "ComputeStack"],
   [stack |-> "ComputeStackWithBastion"]}
=============================================================================
