------------------------------- MODULE Adapters -------------------------------
(***************************************************************************)
(* The adapters of internal/adapters/aws: one record per repository, one   *)
(* field per function of it that the use cases call.                       *)
(***************************************************************************)
EXTENDS AwsScripts

-----------------------------------------------------------------------------
(* Networking.  Exists of every one of these answers false to any error.   *)

VPCRepository ==
  [Exists      |-> ById("absent", "absent"),
   Create      |-> <<Make, Must("dnsSupport"), Must("dnsHostnames"), Must("tags")>>,
   Get         |-> <<Look>>,
   Delete      |-> <<Remove>>,
   TagResource |-> <<Must("tags")>>]

SubnetRepository ==
  [Exists      |-> ById("absent", "absent"),
   Create      |-> <<Make, Must("publicIpOnLaunch"), Must("tags")>>,
   Get         |-> <<Look>>,
   Delete      |-> <<Remove>>,
   TagResource |-> <<Must("tags")>>]

(* EC2 refuses to detach a gateway that is not attached.                   *)
InternetGatewayRepository ==
  [Exists |-> ById("absent", "absent"),
   Create |-> <<Make, Must("attachment"), Try("tags")>>,
   Get    |-> <<Look>>,
   Delete |-> <<Drop("attachment"), Remove>>]

(* The address allocated for a public gateway is released by nobody.       *)
NATGatewayRepository ==
  [Exists      |-> ById("absent", "absent"),
   Create      |-> <<Allocate, Make, Try("tags")>>,
   Get         |-> <<Look>>,
   Delete      |-> <<Remove>>,
   TagResource |-> <<Must("tags")>>]

SecurityGroupRules ==
  [AuthorizeIngress |-> <<Must("ingress")>>,
   AuthorizeEgress  |-> <<Must("egress")>>,
   TagResource      |-> <<Must("tags")>>]

(* The default egress rule is revoked first; that this fails is ignored.   *)
SecurityGroupRepository ==
  [Exists |-> ById("absent", "absent"),
   Create |-> <<Make>> \o SecurityGroupRules.AuthorizeIngress
              \o SecurityGroupRules.AuthorizeEgress \o SecurityGroupRules.TagResource,
   Get    |-> <<Look>>,
   Delete |-> <<Remove>>]

(* isNotFoundError compares the whole text of the error with the code that *)
(* the text contains, so a table that is gone is an error like any other.  *)
RouteTableQueries ==
  [Get         |-> <<Look>>,
   Delete      |-> <<Look, Clear("associations"), Remove>>,
   TagResource |-> <<Must("tags")>>]

RouteTableRepository ==
  [Exists |-> ById("fails", "fails"),
   Create |-> <<Make, Must("routes"), Must("associations")>> \o RouteTableQueries.TagResource]

ElasticIPRepository ==
  [Allocate    |-> <<MakeWith({"tags"})>>,
   Exists      |-> ById("absent", "absent"),
   Get         |-> <<Look>>,
   Release     |-> <<Remove>>,
   TagResource |-> <<Must("tags")>>]

EC2Repository ==
  [Exists |-> ById("absent", "absent"),
   Create |-> <<MakeWith({"tags"})>>]

EC2Instances ==
  [Get               |-> <<Look>>,
   StopInstance      |-> <<Call>>,
   TerminateInstance |-> <<Remove>>,
   TagResource       |-> <<Must("tags")>>]

EC2Console == [GetConsoleOutput |-> <<Call>>]

-----------------------------------------------------------------------------
(* Certificates, load balancers, gateways and distributions.               *)

(* There is no Exists: Describe's error is an error, whatever it says.     *)
ACMRepository ==
  [Request  |-> <<MakeWith({"tags"})>>,
   Describe |-> <<Look>>,
   Delete   |-> <<Remove>>]

ALBAttributes ==
  [SetAttributes |-> <<Must("attributes")>>,
   GetAttributes |-> <<Call>>,
   TagResource   |-> <<Must("tags")>>]

(* Found by its name, deleted by its ARN.                                  *)
ALBRepository ==
  [Exists |-> ByName("absent", "absent"),
   Create |-> <<MakeWith({"tags"})>> \o ALBAttributes.SetAttributes,
   Get    |-> <<Look>> \o ALBAttributes.GetAttributes,
   Delete |-> <<Remove>>]

NLBAttributes ==
  [SetAttributes |-> <<Must("attributes")>>,
   GetAttributes |-> <<Call>>,
   TagResource   |-> <<Must("tags")>>]

NLBRepository ==
  [Exists |-> ByName("absent", "absent"),
   Create |-> <<MakeWith({"tags"})>> \o NLBAttributes.SetAttributes,
   Get    |-> <<Look>>,
   Delete |-> <<Remove>>]

(* What the API cannot do by itself comes with it in CreateApi.            *)
APIGatewayRepository ==
  [Exists |-> ById("absent", "absent"),
   Create |-> <<MakeWith({"settings", "tags"})>>,
   Get    |-> <<Look>>]

APIGatewayChanges ==
  [Update      |-> <<Must("settings")>>,
   Delete      |-> <<Remove>>,
   TagResource |-> <<Must("tags")>>]

(* "requires complex configuration - implement as needed"                  *)
CloudFrontRepository ==
  [Exists |-> ById("absent", "absent"),
   Create |-> <<Refuse>>,
   Get    |-> <<Look>>,
   Update |-> <<Refuse>>,
   Delete |-> <<Remove>>]

-----------------------------------------------------------------------------
(* Tables, image repositories, clusters, roles and key pairs.              *)

(* DescribeTable's every error is "no such table"; Update does nothing.    *)
DynamoDBRepository ==
  [Exists |-> ByName("absent", "absent"),
   Create |-> <<MakeWith({"stream", "tags"})>>]

DynamoDBTables ==
  [Get                       |-> <<Look>>,
   Update                    |-> <<>>,
   Delete                    |-> <<Remove>>,
   UpdateTimeToLive          |-> <<Must("ttl")>>,
   UpdateStreaming           |-> <<Must("stream")>>,
   UpdatePointInTimeRecovery |-> <<Must("recovery")>>,
   TagResource               |-> <<Must("tags")>>]

ECRImages ==
  [UpdateImageScanning      |-> <<Mend("scanning")>>,
   UpdateImageTagMutability |-> <<Mend("mutability")>>,
   PutLifecyclePolicy       |-> <<Must("lifecycle")>>,
   TagResource              |-> <<Must("tags")>>,
   GetImageCount            |-> <<Call>>]

(* Images are no obstacle to the deletion: it is forced.                   *)
ECRRepository ==
  [Exists |-> ByName("fails", "absent"),
   Create |-> <<MakeWith({"scanning", "mutability", "tags"})>> \o ECRImages.PutLifecyclePolicy,
   Get    |-> <<Look>>,
   Delete |-> <<Remove>>]

(* A cluster that AWS still describes exists: the status that would tell   *)
(* that it is inactive is compared by its address, which always differs.   *)
ECSRepository ==
  [Exists |-> ByName("fails", "absent"),
   Create |-> <<MakeWith({"settings", "providers", "tags"})>>]

ECSClusters ==
  [Get                     |-> <<Look>>,
   Delete                  |-> <<Remove>>,
   UpdateSettings          |-> <<Must("settings")>>,
   UpdateCapacityProviders |-> <<Must("providers")>>,
   TagResource             |-> <<Must("tags")>>]

(* isNotFoundError compares the whole text of the error with the codes, so *)
(* a cluster that does not exist is an error like any other.               *)
EKSRepository ==
  [Exists |-> ByName("fails", "fails"),
   Create |-> <<MakeWith({"version", "tags"})>>]

EKSClusters ==
  [Get           |-> <<Look>>,
   Delete        |-> <<Remove>>,
   UpdateVersion |-> <<Mend("version")>>,
   TagResource   |-> <<Must("tags")>>]

(* A replication group or a single cluster, as the spec says.              *)
ElastiCacheRepository ==
  [Exists |-> ByName("absent", "absent"),
   Create |-> <<MakeWith({"tags"})>>]

ElastiCacheClusters ==
  [Get    |-> <<Look>>,
   Delete |-> <<Remove>>]

IAMRepository ==
  [Exists |-> ByName("fails", "absent"),
   Create |-> <<MakeWith({"description", "trust", "tags"})>>,
   Get    |-> <<Look>>,
   Update |-> <<Must("description"), Must("trust")>>]

IAMPolicies ==
  [Delete              |-> <<Remove>>,
   AttachManagedPolicy |-> <<Must("managed")>>,
   ListAttached        |-> <<Call>>,
   AttachMissing       |-> <<Mend("managed")>>,
   DetachUnwanted      |-> <<Tidy>>,
   DetachListed        |-> <<Clear("managed")>>,
   PutInlinePolicy     |-> <<Must("inline")>>,
   DeleteInlinePolicy  |-> <<Drop("inline")>>,
   TagResource         |-> <<Must("tags")>>]

KeyPairRepository ==
  [Exists      |-> ByName("absent", "absent"),
   Get         |-> <<Look>>,
   Create      |-> <<MakeWith({"tags"})>>,
   Delete      |-> <<Remove>>,
   TagResource |-> <<Must("tags")>>]

(* Exists asks about the empty id of a new key too.                        *)
KMSRepository ==
  [Exists |-> ByAnyId("absent"),
   Create |-> <<MakeWith({"description", "tags"}), Must("rotation"), Must("state")>>,
   Get    |-> <<Look>>,
   Update |-> <<Mend("description")>>]

KMSKeys ==
  [EnableOrDisable     |-> <<Mend("state")>>,
   Rotate              |-> <<Mend("rotation")>>,
   ScheduleKeyDeletion |-> <<Remove>>,
   TagResource         |-> <<Must("tags")>>]

-----------------------------------------------------------------------------
(* Functions, databases, secrets, topics, queues and buckets.              *)

LambdaRepository ==
  [Exists |-> ByName("fails", "absent"),
   Create |-> <<MakeWith({"code", "config", "tags"})>>,
   Get    |-> <<Look>>]

LambdaFunctions ==
  [UpdateConfiguration |-> <<Mend("config")>>,
   UpdateCode          |-> <<Must("code")>>,
   Delete              |-> <<Remove>>,
   TagCreated          |-> <<Must("tags")>>,
   TagFunction         |-> <<Mend("tags")>>,
   UntagFunction       |-> <<Tidy>>]

RDSRepository ==
  [Exists |-> ByName("fails", "absent"),
   Create |-> <<MakeWith({"config", "tags"})>>,
   Get    |-> <<Look>>,
   Update |-> <<Mend("config")>>,
   Delete |-> <<Remove>>]

RDSTags == [TagResource |-> <<Must("tags")>>]

SecretsManagerRepository ==
  [Exists            |-> ByName("fails", "absent"),
   Create            |-> <<MakeWith({"value", "tags"})>>,
   Get               |-> <<Look>>,
   UpdateSecretValue |-> <<Must("value")>>,
   UpdateRotation    |-> <<Must("rotation")>>]

SecretsManagerDeletion ==
  [Delete      |-> <<Remove>>,
   TagResource |-> <<Must("tags")>>]

(* A topic is found by listing topics, by the end of its ARN.              *)
SNSRepository ==
  [Exists |-> ByName("fails", "absent"),
   Create |-> <<MakeWith({"attributes", "tags"})>>,
   Get    |-> <<Look>>]

(* Every error of GetByName means that there is no such topic.             *)
SNSTopics ==
  [GetByName |-> ByName("absent", "absent"),
   Update    |-> <<Mend("attributes")>>,
   Delete    |-> <<Remove>>,
   TagTopic  |-> <<Mend("tags")>>]

SNSSubscriptions ==
  [ListSubscriptions |-> <<Call>>,
   Subscribe         |-> <<Mend("subscriptions")>>,
   Unsubscribe       |-> <<Tidy>>]

(* A queue that GetQueueUrl does not return, whatever the reason, is new.  *)
SQSRepository ==
  [Exists |-> ByName("absent", "absent"),
   Create |-> <<MakeWith({"attributes", "tags"})>>]

SQSQueues ==
  [Get       |-> <<Look>>,
   GetByName |-> ByName("absent", "absent"),
   Update    |-> <<Mend("attributes")>>,
   Delete    |-> <<Remove>>,
   TagQueue  |-> <<Mend("tags")>>]

(* What cannot be said in CreateBucket is configured after it.             *)
S3Access ==
  [Configure |-> <<Must("cors"), Must("publicAccess"), Must("tags")>>]

S3Settings ==
  [Configure |-> <<Must("versioning"), Must("encryption"), Must("lifecycle")>>
                 \o S3Access.Configure]

S3Repository ==
  [Exists |-> ByName("absent", "absent"),
   Create |-> <<Make>>,
   Delete |-> <<Remove>>]
=============================================================================
