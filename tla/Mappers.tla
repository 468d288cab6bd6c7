------------------------------- MODULE Mappers -------------------------------
(***************************************************************************)
(* The mappers of pkg/mapper: what of a custom resource reaches the domain *)
(* object, and what of the domain object reaches the status.  The domain   *)
(* object is all that the use case sees, so an id that the mapper leaves   *)
(* out is unknown to it although the status records it.                    *)
(***************************************************************************)
EXTENDS ApiTypes, Domain

(* carries: CRToDomain hands the id or the ARN in the status on.           *)
Mapper(spec, type, carries) ==
  [policies     |-> spec.policies,
   secret       |-> spec.secret,
   ShouldDelete |-> [policy \in spec.policies |-> policy \in type.deletes],
   ready        |-> type.ready,
   carries      |-> carries]

VPCMapper             == Mapper(VPCSpec, VPC, TRUE)
SubnetMapper          == Mapper(SubnetSpec, Subnet, TRUE)
InternetGatewayMapper == Mapper(InternetGatewaySpec, InternetGateway, TRUE)
NATGatewayMapper      == Mapper(NATGatewaySpec, NATGateway, TRUE)
SecurityGroupMapper   == Mapper(SecurityGroupSpec, SecurityGroup, TRUE)
RouteTableMapper      == Mapper(RouteTableSpec, RouteTable, TRUE)
ElasticIPMapper       == Mapper(ElasticIPSpec, Address, TRUE)
EC2Mapper             == Mapper(EC2InstanceSpec, Instance, TRUE)
CertificateMapper     == Mapper(CertificateSpec, Certificate, TRUE)
ALBMapper             == Mapper(ALBSpec, ApplicationBalancer, TRUE)
NLBMapper             == Mapper(NLBSpec, NetworkBalancer, TRUE)
APIGatewayMapper      == Mapper(APIGatewaySpec, API, TRUE)
CloudFrontMapper      == Mapper(CloudFrontSpec, Distribution, TRUE)
ECRMapper             == Mapper(ECRRepositorySpec, Repository, TRUE)
ECSClusterMapper      == Mapper(ECSClusterSpec, ECSCluster, TRUE)
EKSMapper             == Mapper(EKSClusterSpec, EKSCluster, TRUE)
ElastiCacheMapper     == Mapper(ElastiCacheClusterSpec, CacheCluster, TRUE)
IAMMapper             == Mapper(IAMRoleSpec, Role, TRUE)
KMSMapper             == Mapper(KMSKeySpec, Key, TRUE)
LambdaMapper          == Mapper(LambdaFunctionSpec, Function, TRUE)
RDSMapper             == Mapper(RDSInstanceSpec, DBInstance, TRUE)
SecretsManagerMapper  == Mapper(SecretsManagerSecretSpec, Secret, TRUE)
SNSMapper             == Mapper(SNSTopicSpec, Topic, TRUE)
SQSMapper             == Mapper(SQSQueueSpec, Queue, TRUE)

(* In the controller itself.                                               *)
KeyPairMapper == Mapper(EC2KeyPairSpec, KeyPair, TRUE)

(* The status is not read.                                                 *)
DynamoDBMapper == Mapper(DynamoDBTableSpec, Table, FALSE)
S3Mapper       == Mapper(S3BucketSpec, Bucket, FALSE)
=============================================================================
