----------------------------- MODULE Reconcilers -----------------------------
(***************************************************************************)
(* The resource controllers: in what the Reconcile of each kind differs    *)
(* from the others.  ResourceController is what they have in common.       *)
(***************************************************************************)
EXTENDS UseCases, Mappers

(* mapper: what the domain object and the status know of each other.       *)
(* sync, delete: the use case, and the program that it makes of a policy.  *)
(* gate: a provider that is not usable is "reported" in the status, or is  *)
(*   an "error" of Reconcile only.                                         *)
(* onError: so is a failing sync.                                          *)
(* secret: where the Kubernetes Secret of the spec must be readable: for   *)
(*   "nothing", for the "sync", or also for the deletion ("both").         *)
(* noSecret: what becomes of a sync without it.                            *)
Reconciler(mapper, sync, delete) ==
  [carries  |-> mapper.carries,
   ready    |-> mapper.ready,
   sync     |-> sync,
   delete   |-> delete,
   gate     |-> "error",
   onError  |-> "reported",
   secret   |-> IF mapper.secret THEN "sync" ELSE "nothing",
   noSecret |-> "reported"]

Under(mapper, Delete(_)) ==
  [policy \in mapper.policies |-> Delete(mapper.ShouldDelete[policy])]

-----------------------------------------------------------------------------
(* The reconcilers that follow the common pattern.                         *)

VPCReconciler == Reconciler(VPCMapper, SyncVPC, Under(VPCMapper, DeleteVPC))

SubnetReconciler ==
  Reconciler(SubnetMapper, SyncSubnet, Under(SubnetMapper, DeleteSubnet))

InternetGatewayReconciler ==
  Reconciler(InternetGatewayMapper, SyncInternetGateway,
             Under(InternetGatewayMapper, DeleteInternetGateway))

NATGatewayReconciler ==
  Reconciler(NATGatewayMapper, SyncNATGateway, Under(NATGatewayMapper, DeleteNATGateway))

SecurityGroupReconciler ==
  Reconciler(SecurityGroupMapper, SyncSecurityGroup,
             Under(SecurityGroupMapper, DeleteSecurityGroup))

RouteTableReconciler ==
  Reconciler(RouteTableMapper, SyncRouteTable, Under(RouteTableMapper, DeleteRouteTable))

ElasticIPReconciler ==
  Reconciler(ElasticIPMapper, SyncAddress, Under(ElasticIPMapper, ReleaseAddress))

CertificateReconciler ==
  Reconciler(CertificateMapper, SyncCertificate, Under(CertificateMapper, DeleteCertificate))

ALBReconciler == Reconciler(ALBMapper, SyncALB, Under(ALBMapper, DeleteALB))
NLBReconciler == Reconciler(NLBMapper, SyncNLB, Under(NLBMapper, DeleteNLB))

ECSClusterReconciler ==
  Reconciler(ECSClusterMapper, SyncECSCluster, Under(ECSClusterMapper, DeleteECSCluster))

EKSClusterReconciler ==
  Reconciler(EKSMapper, SyncEKSCluster, Under(EKSMapper, DeleteEKSCluster))

IAMRoleReconciler == Reconciler(IAMMapper, SyncRole, Under(IAMMapper, DeleteRole))
KMSKeyReconciler  == Reconciler(KMSMapper, SyncKey, Under(KMSMapper, DeleteKey))

(* The console output is fetched after the sync; its errors are ignored.   *)
EC2InstanceReconciler ==
  LET fetchConsoleOutput == Ignoring(EC2Console.GetConsoleOutput)
      sync == [SyncInstance EXCEPT !.found  = @ \o fetchConsoleOutput,
                                   !.absent = @ \o fetchConsoleOutput]
  IN Reconciler(EC2Mapper, sync,
                [policy \in EC2Mapper.policies |->
                  DeleteInstance(policy \in InstanceStop, EC2Mapper.ShouldDelete[policy])])

(* The policy is not asked.                                                *)
ECRRepositoryReconciler ==
  Reconciler(ECRMapper, SyncRepository, [policy \in ECRMapper.policies |-> DeleteRepository])

-----------------------------------------------------------------------------
(* Those that need a Secret of the user's.                                 *)

ElastiCacheClusterReconciler ==
  Reconciler(ElastiCacheMapper, SyncCacheCluster,
             [policy \in ElastiCacheMapper.policies |->
               DeleteCacheCluster(ElastiCacheMapper.ShouldDelete[policy],
                                  policy \in CacheClusterSnapshot)])

(* A missing password is not reported; the policy is not asked.            *)
RDSInstanceReconciler ==
  [Reconciler(RDSMapper, SyncDBInstance, [policy \in RDSMapper.policies |-> DeleteDBInstance])
   EXCEPT !.noSecret = "error"]

(* The value is read before the deletion too, even if nothing is deleted.  *)
SecretsManagerSecretReconciler ==
  [Reconciler(SecretsManagerMapper, SyncSecret, Under(SecretsManagerMapper, DeleteSecret))
   EXCEPT !.secret = "both"]

-----------------------------------------------------------------------------
(* Those that do not report every failure.                                 *)

APIGatewayReconciler ==
  [Reconciler(APIGatewayMapper, SyncAPI,
              [policy \in APIGatewayMapper.policies |-> DeleteAPI(policy)])
   EXCEPT !.onError = "error"]

CloudFrontReconciler ==
  [Reconciler(CloudFrontMapper, SyncDistribution,
              [policy \in CloudFrontMapper.policies |-> DeleteDistribution(policy)])
   EXCEPT !.onError = "error"]

(* The private key is written to a Secret of the cluster, if it was just   *)
(* generated: there is no second chance.                                   *)
EC2KeyPairReconciler ==
  LET createPrivateKeySecret == <<Must("privateKeySecret")>>
  IN [Reconciler(KeyPairMapper, [SyncKeyPair EXCEPT !.absent = @ \o createPrivateKeySecret],
                 Under(KeyPairMapper, DeleteKeyPair))
      EXCEPT !.onError = "error"]

-----------------------------------------------------------------------------
(* Those that ask the policy themselves: an empty one is "Delete".         *)

LambdaFunctionReconciler ==
  Reconciler(LambdaMapper, SyncFunction,
             [policy \in LambdaMapper.policies |->
               If(policy \in {"Delete", ""}, DeleteFunction)])

SNSTopicReconciler ==
  Reconciler(SNSMapper, SyncTopic,
             [policy \in SNSMapper.policies |-> If(policy \in {"Delete", ""}, DeleteTopic)])

SQSQueueReconciler ==
  Reconciler(SQSMapper, SyncQueue,
             [policy \in SQSMapper.policies |-> If(policy \in {"Delete", ""}, DeleteQueue)])

-----------------------------------------------------------------------------
(* Those that report a provider that is not usable, even during deletion.  *)

DynamoDBTableReconciler ==
  [Reconciler(DynamoDBMapper, SyncTable,
              [policy \in DynamoDBMapper.policies |-> DeleteTable(policy)])
   EXCEPT !.gate = "reported"]

S3BucketReconcilerClean ==
  [Reconciler(S3Mapper, SyncBucket, [policy \in S3Mapper.policies |-> DeleteBucket(policy)])
   EXCEPT !.gate = "reported"]

(* The older one of the two controllers of buckets: everything by itself,  *)
(* and the bucket is deleted without a look whether it is there.           *)
configureBucket ==
  <<Must("versioning"), Must("encryption"), Must("publicAccess"), Must("tags")>>

S3BucketReconciler ==
  [Reconciler(S3Mapper, Sync(ByName("absent", "absent"), configureBucket,
                             <<Make>> \o configureBucket),
              [policy \in S3Mapper.policies |->
                If(policy \notin {"Retain", "Orphan"}, StraightByName(<<Remove>>))])
   EXCEPT !.gate = "reported"]

-----------------------------------------------------------------------------
(* Those of Route 53 use no mapper and no use case.                        *)

(* The zone that the status names, or else, also if the question about it  *)
(* fails, the first one of its name.                                       *)
syncHostedZone ==
  Sync(ByIdOrName("fails", "absent"), <<TryLook>>, <<Make, Try("tags"), TryLook>>)

Route53HostedZoneReconciler ==
  Reconciler(Mapper(HostedZoneSpec, Type({}, "always"), TRUE), syncHostedZone,
             [policy \in HostedZoneSpec.policies |->
               If(policy # "Retain", IfRecorded(<<Remove>>))])

getRecordSet == ByName("fails", "absent")

Route53RecordSetReconciler ==
  Reconciler(Mapper(RecordSetSpec, Type({}, "always"), FALSE),
             Sync(getRecordSet, <<Mend("record")>>, <<MakeWith({"record"})>>),
             [policy \in RecordSetSpec.policies |->
               If(policy # "Retain", IfFound(getRecordSet, <<Remove>>))])

-----------------------------------------------------------------------------
(* What the manager registers.                                             *)
Reconcilers ==
  [vpc            |-> VPCReconciler,
   subnet         |-> SubnetReconciler,
   igw            |-> InternetGatewayReconciler,
   nat            |-> NATGatewayReconciler,
   securitygroup  |-> SecurityGroupReconciler,
   routetable     |-> RouteTableReconciler,
   elasticip      |-> ElasticIPReconciler,
   ec2instance    |-> EC2InstanceReconciler,
   ec2keypair     |-> EC2KeyPairReconciler,
   certificate    |-> CertificateReconciler,
   alb            |-> ALBReconciler,
   nlb            |-> NLBReconciler,
   apigateway     |-> APIGatewayReconciler,
   cloudfront     |-> CloudFrontReconciler,
   dynamodb       |-> DynamoDBTableReconciler,
   ecr            |-> ECRRepositoryReconciler,
   ecs            |-> ECSClusterReconciler,
   eks            |-> EKSClusterReconciler,
   elasticache    |-> ElastiCacheClusterReconciler,
   iamrole        |-> IAMRoleReconciler,
   kmskey         |-> KMSKeyReconciler,
   lambda         |-> LambdaFunctionReconciler,
   rds            |-> RDSInstanceReconciler,
   secretsmanager |-> SecretsManagerSecretReconciler,
   sns            |-> SNSTopicReconciler,
   sqs            |-> SQSQueueReconciler,
   s3             |-> S3BucketReconciler,
   s3clean        |-> S3BucketReconcilerClean,
   hostedzone     |-> Route53HostedZoneReconciler,
   recordset      |-> Route53RecordSetReconciler]

(* What the specs of the kinds allow the user to say about deletion.       *)
PoliciesOf == [kind \in DOMAIN Reconcilers |-> DOMAIN Reconcilers[kind].delete]
=============================================================================
