----------------------------- MODULE AwsServices -----------------------------
(***************************************************************************)
(* What the services of AWS do with the calls of the adapters, as far as   *)
(* their code depends on it.  None of this is in the repository.           *)
(***************************************************************************)
EXTENDS Reconcilers

(* Creating a second resource under a name that is taken answers with the  *)
(* first one, or is refused; the others have ids only, and are created     *)
(* anew by every call.                                                     *)
AnswerTheSame == {"alb", "nlb", "ecs", "sns", "sqs"}
RefuseTwins   == {"securitygroup", "ec2keypair", "dynamodb", "ecr", "eks", "elasticache",
                  "iamrole", "lambda", "rds", "secretsmanager", "s3", "s3clean",
                  "recordset"}

(* It takes time until a new resource is available.                        *)
Slow == {"vpc", "subnet", "nat", "ec2instance", "certificate", "alb", "nlb", "cloudfront",
         "dynamodb", "eks", "elasticache", "lambda", "rds"}

(* A deleted resource can be described, as deleting or as inactive, for a  *)
(* while.                                                                  *)
Lingering == {"nat", "ec2instance", "kmskey", "secretsmanager", "ecs", "eks", "rds",
              "elasticache", "dynamodb"}

(* Deleting what is not there is no error.                                 *)
Forgiving == {"alb", "nlb", "sns", "ec2keypair"}

(* What only one resource at a time can have: a VPC has one gateway, and a *)
(* subnet is associated with one table.                                    *)
Exclusive(kind) == CASE kind = "igw"        -> {"attachment"}
                     [] kind = "routetable" -> {"associations"}
                     [] OTHER               -> {}

(* What has to be taken away before a resource can be deleted.             *)
Blocking(kind) == CASE kind = "iamrole" -> {"managed", "inline"}
                    [] OTHER            -> Exclusive(kind)

Services ==
  [kind \in DOMAIN Reconcilers |->
    [twins     |-> IF kind \in AnswerTheSame THEN "same"
                   ELSE IF kind \in RefuseTwins THEN "refused" ELSE "another",
     slow      |-> kind \in Slow,
     lingers   |-> kind \in Lingering,
     forgives  |-> kind \in Forgiving,
     exclusive |-> Exclusive(kind),
     blocking  |-> Blocking(kind)]]
=============================================================================
