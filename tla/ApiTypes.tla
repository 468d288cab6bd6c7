------------------------------ MODULE ApiTypes ------------------------------
(***************************************************************************)
(* The custom resources of api/v1alpha1, as far as the life of an object   *)
(* tells them apart: the deletion policies that the spec accepts, and      *)
(* whether it may refer to a Kubernetes Secret.  Everything else in a spec *)
(* is data that the adapters hand on to AWS.                               *)
(***************************************************************************)

Policies == {"Delete", "Retain", "Orphan", "Stop", "Snapshot", ""}

SpecOf(policies, secret) == [policies |-> policies, secret |-> secret]

(* "Enum=Delete;Retain"                                                    *)
DeleteOrRetain == {"Delete", "Retain"}
Plain          == SpecOf(DeleteOrRetain, FALSE)

VPCSpec              == Plain
SubnetSpec           == Plain
InternetGatewaySpec  == Plain
NATGatewaySpec       == Plain
SecurityGroupSpec    == Plain
RouteTableSpec       == Plain
ElasticIPSpec        == Plain
CertificateSpec      == Plain
ALBSpec              == Plain
NLBSpec              == Plain
DynamoDBTableSpec    == Plain
ECSClusterSpec       == Plain
EKSClusterSpec       == Plain
EC2KeyPairSpec       == Plain
SNSTopicSpec         == Plain
SQSQueueSpec         == Plain
HostedZoneSpec       == Plain
RecordSetSpec        == Plain

(* An instance may be stopped, and a cache saved, instead of lost.         *)
EC2InstanceSpec        == SpecOf({"Delete", "Retain", "Stop"}, FALSE)
ElastiCacheClusterSpec == SpecOf({"Delete", "Retain", "Snapshot"}, TRUE)

APIGatewaySpec == SpecOf({"Delete", "Retain", "Orphan"}, FALSE)
CloudFrontSpec == SpecOf({"Delete", "Retain", "Orphan"}, FALSE)
IAMRoleSpec    == SpecOf({"Delete", "Retain", "Orphan"}, FALSE)
S3BucketSpec   == SpecOf({"Delete", "Retain", "Orphan"}, FALSE)

(* Retain is the default of this one.                                      *)
KMSKeySpec     == SpecOf(DeleteOrRetain, FALSE)

SecretsManagerSecretSpec == SpecOf(DeleteOrRetain, TRUE)

(* No enumeration and no default: the field may be left empty.             *)
ECRRepositorySpec  == SpecOf(DeleteOrRetain \cup {""}, FALSE)
LambdaFunctionSpec == SpecOf(DeleteOrRetain \cup {""}, FALSE)
RDSInstanceSpec    == SpecOf(DeleteOrRetain \cup {""}, TRUE)
=============================================================================
