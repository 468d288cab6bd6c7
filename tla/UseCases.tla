------------------------------- MODULE UseCases -------------------------------
(***************************************************************************)
(* The use cases of internal/usecases: how each makes its resource be as   *)
(* the spec wants it, and how it deletes it under a deletion policy.       *)
(***************************************************************************)
EXTENDS Adapters

(* The policy asks for nothing to be done.                                 *)
Skip == Straight(<<>>)

(* ShouldDelete of most domain types.                                      *)
If(wanted, program) == IF wanted THEN program ELSE Skip

-----------------------------------------------------------------------------
(* Networking and EC2: the resource is the one whose id the status records.*)

SyncVPC == Sync(VPCRepository.Exists,
                VPCRepository.Get \o Ignoring(VPCRepository.TagResource),
                VPCRepository.Create)

DeleteVPC(shouldDelete) == If(shouldDelete, Straight(VPCRepository.Delete))

SyncSubnet == Sync(SubnetRepository.Exists,
                   SubnetRepository.Get \o Ignoring(SubnetRepository.TagResource),
                   SubnetRepository.Create)

DeleteSubnet(shouldDelete) == If(shouldDelete, Straight(SubnetRepository.Delete))

SyncInternetGateway == Sync(InternetGatewayRepository.Exists,
                            InternetGatewayRepository.Get,
                            InternetGatewayRepository.Create)

DeleteInternetGateway(shouldDelete) ==
  If(shouldDelete, Straight(InternetGatewayRepository.Delete))

SyncNATGateway == Sync(NATGatewayRepository.Exists,
                       NATGatewayRepository.Get \o Ignoring(NATGatewayRepository.TagResource),
                       NATGatewayRepository.Create)

DeleteNATGateway(shouldDelete) == If(shouldDelete, Straight(NATGatewayRepository.Delete))

SyncSecurityGroup == Sync(SecurityGroupRepository.Exists,
                          SecurityGroupRepository.Get,
                          SecurityGroupRepository.Create)

DeleteSecurityGroup(shouldDelete) ==
  If(shouldDelete, Straight(SecurityGroupRepository.Delete))

SyncRouteTable == Sync(RouteTableRepository.Exists,
                       RouteTableQueries.Get,
                       RouteTableRepository.Create)

DeleteRouteTable(shouldDelete) ==
  If(shouldDelete, IfFound(RouteTableRepository.Exists, RouteTableQueries.Delete))

SyncAddress == Sync(ElasticIPRepository.Exists,
                    ElasticIPRepository.Get \o ElasticIPRepository.TagResource,
                    ElasticIPRepository.Allocate)

ReleaseAddress(shouldDelete) ==
  If(shouldDelete, IfRecorded(ElasticIPRepository.Release))

SyncInstance == Sync(EC2Repository.Exists,
                     EC2Instances.Get \o EC2Instances.TagResource,
                     EC2Repository.Create)

(* The state is not in the domain object, so a stopped instance is stopped *)
(* again.                                                                  *)
DeleteInstance(shouldStop, shouldDelete) ==
  IF shouldStop THEN Straight(EC2Instances.StopInstance)
  ELSE If(shouldDelete, Straight(EC2Instances.TerminateInstance))

-----------------------------------------------------------------------------
(* Certificates, load balancers, gateways and distributions.               *)

(* What Describe does not find is not requested again.                     *)
SyncCertificate == Sync(ByRecord, ACMRepository.Describe, ACMRepository.Request)

DeleteCertificate(shouldDelete) == If(shouldDelete, IfRecorded(ACMRepository.Delete))

SyncALB == Sync(ALBRepository.Exists,
                ALBRepository.Get \o ALBAttributes.SetAttributes \o ALBAttributes.TagResource,
                ALBRepository.Create)

DeleteALB(shouldDelete) == If(shouldDelete, IfRecorded(ALBRepository.Delete))

SyncNLB == Sync(NLBRepository.Exists,
                NLBRepository.Get \o NLBAttributes.SetAttributes \o NLBAttributes.TagResource,
                NLBRepository.Create)

DeleteNLB(shouldDelete) == If(shouldDelete, IfRecorded(NLBRepository.Delete))

SyncAPI == Sync(APIGatewayRepository.Exists, APIGatewayChanges.Update,
                APIGatewayRepository.Create)

DeleteAPI(policy) ==
  If(policy \notin {"Retain", "Orphan"}, IfRecorded(APIGatewayChanges.Delete))

SyncDistribution == Sync(CloudFrontRepository.Exists, CloudFrontRepository.Update,
                         CloudFrontRepository.Create)

DeleteDistribution(policy) ==
  If(policy \notin {"Retain", "Orphan"}, IfRecorded(CloudFrontRepository.Delete))

-----------------------------------------------------------------------------
(* Tables, image repositories, clusters, roles and key pairs.              *)

TableState ==
  DynamoDBTables.Get \o Ignoring(DynamoDBTables.UpdatePointInTimeRecovery)
  \o Ignoring(DynamoDBTables.TagResource)

SyncTable == Sync(DynamoDBRepository.Exists, TableState,
                  DynamoDBRepository.Create \o TableState)

DeleteTable(policy) ==
  If(policy # "Retain", IfFound(DynamoDBRepository.Exists, DynamoDBTables.Delete))

SyncRepository ==
  Sync(ECRRepository.Exists,
       ECRRepository.Get \o ECRImages.UpdateImageScanning
         \o ECRImages.UpdateImageTagMutability \o ECRImages.PutLifecyclePolicy
         \o ECRImages.TagResource \o Ignoring(ECRImages.GetImageCount),
       ECRRepository.Create \o ECRImages.TagResource \o Ignoring(ECRImages.GetImageCount))

(* The deletion policy is not looked at.                                   *)
DeleteRepository == IfFound(ECRRepository.Exists, ECRRepository.Delete)

SyncECSCluster ==
  Sync(ECSRepository.Exists,
       ECSClusters.Get \o ECSClusters.UpdateSettings
         \o ECSClusters.UpdateCapacityProviders \o ECSClusters.TagResource,
       ECSRepository.Create)

DeleteECSCluster(shouldDelete) == If(shouldDelete, IfRecorded(ECSClusters.Delete))

SyncEKSCluster == Sync(EKSRepository.Exists,
                       EKSClusters.Get \o EKSClusters.UpdateVersion,
                       EKSRepository.Create \o EKSClusters.TagResource)

DeleteEKSCluster(shouldDelete) ==
  If(shouldDelete, IfFound(EKSRepository.Exists, EKSClusters.Delete))

SyncCacheCluster == Sync(ElastiCacheRepository.Exists, ElastiCacheClusters.Get,
                         ElastiCacheRepository.Create)

DeleteCacheCluster(shouldDelete, shouldSnapshot) ==
  If(shouldDelete \/ shouldSnapshot, StraightByName(ElastiCacheClusters.Delete))

(* The attached policies are listed; what the list lacks is attached, and  *)
(* what the spec lacks is detached.                                        *)
syncManagedPolicies ==
  IAMPolicies.ListAttached \o IAMPolicies.AttachMissing \o IAMPolicies.DetachUnwanted

SyncRole ==
  Sync(IAMRepository.Exists,
       IAMRepository.Update \o syncManagedPolicies \o IAMPolicies.PutInlinePolicy
         \o IAMRepository.Get,
       IAMRepository.Create \o IAMPolicies.AttachManagedPolicy
         \o IAMPolicies.PutInlinePolicy \o IAMPolicies.TagResource \o IAMRepository.Get)

DeleteRole(shouldDelete) ==
  If(shouldDelete,
     IfFound(IAMRepository.Exists,
             IAMPolicies.ListAttached \o IAMPolicies.DetachListed
               \o IAMPolicies.DeleteInlinePolicy \o IAMPolicies.Delete))

(* Only the answer to CreateKeyPair holds the private key.                 *)
SyncKeyPair == Sync(KeyPairRepository.Exists,
                    KeyPairRepository.Get \o Ignoring(KeyPairRepository.TagResource),
                    KeyPairRepository.Create)

DeleteKeyPair(shouldDelete) == If(shouldDelete, IfRecorded(KeyPairRepository.Delete))

-----------------------------------------------------------------------------
(* Keys, functions, databases, secrets, topics, queues and buckets.        *)

SyncKey ==
  Sync(KMSRepository.Exists,
       KMSRepository.Get \o KMSRepository.Update \o KMSKeys.EnableOrDisable
         \o KMSKeys.Rotate \o KMSKeys.TagResource,
       KMSRepository.Create \o KMSKeys.TagResource)

DeleteKey(shouldDelete) == If(shouldDelete, Straight(KMSKeys.ScheduleKeyDeletion))

SyncFunction ==
  Sync(LambdaRepository.Exists,
       LambdaRepository.Get \o LambdaFunctions.UpdateCode
         \o LambdaFunctions.UpdateConfiguration \o LambdaFunctions.TagFunction
         \o LambdaFunctions.UntagFunction \o LambdaRepository.Get,
       LambdaRepository.Create \o LambdaFunctions.TagCreated)

DeleteFunction == IfFound(LambdaRepository.Exists, LambdaFunctions.Delete)

SyncDBInstance ==
  Sync(RDSRepository.Exists,
       RDSRepository.Get \o RDSRepository.Update \o RDSTags.TagResource,
       RDSRepository.Create \o RDSTags.TagResource)

(* The deletion policy decides on a final snapshot only.                   *)
DeleteDBInstance == IfFound(RDSRepository.Exists, RDSRepository.Delete)

SyncSecret ==
  Sync(SecretsManagerRepository.Exists,
       SecretsManagerRepository.UpdateSecretValue
         \o SecretsManagerRepository.UpdateRotation \o SecretsManagerRepository.Get,
       SecretsManagerRepository.Create \o SecretsManagerDeletion.TagResource
         \o SecretsManagerRepository.UpdateRotation \o SecretsManagerRepository.Get)

DeleteSecret(shouldDelete) ==
  If(shouldDelete, IfFound(SecretsManagerRepository.Exists, SecretsManagerDeletion.Delete))

SyncSubscriptions ==
  SNSSubscriptions.ListSubscriptions \o SNSSubscriptions.Subscribe
  \o SNSSubscriptions.Unsubscribe

SyncTopic ==
  Sync(SNSRepository.Exists,
       SNSRepository.Get \o SNSTopics.Update \o SNSTopics.TagTopic \o SyncSubscriptions,
       SNSRepository.Create \o SNSRepository.Get \o SyncSubscriptions)

(* Only a topic whose ARN is not recorded is looked for.  If it cannot be  *)
(* found, for whatever reason, it is deleted already.                      *)
DeleteTopic == IfFound(UnlessRecorded(SNSTopics.GetByName), SNSTopics.Delete)

SyncQueue ==
  Sync(SQSRepository.Exists,
       SQSQueues.Get \o SQSQueues.Update \o SQSQueues.TagQueue,
       SQSRepository.Create \o SQSQueues.Get)

(* And a queue whose URL is; one that is recorded must be there.           *)
DeleteQueue == IfFound(UnlessRecorded(SQSQueues.GetByName), SQSQueues.Delete)

(* CreateBucket looks again whether the bucket exists, as SyncBucket did.  *)
SyncBucket == Sync(S3Repository.Exists, S3Settings.Configure,
                   S3Repository.Create \o S3Settings.Configure)

DeleteBucket(policy) ==
  If(policy \notin {"Retain", "Orphan"}, IfFound(S3Repository.Exists, S3Repository.Delete))
=============================================================================
