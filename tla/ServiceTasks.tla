---------------------------- MODULE ServiceTasks ----------------------------
(***************************************************************************)
(* The handlers of the tasks that call services: HTTP, HTML scraping,       *)
(* Klaviyo, Braze, Salesforce, Kafka, NATS, language models, and git and    *)
(* OCI repositories.                                                        *)
(***************************************************************************)
EXTENDS TaskSteps

\* The errors of a client made through the registry, around the client's own.
ServiceStart(errors) == Start({"ConfigRender", "ClientRegistryMismatch"} \cup errors, {})

(***************************************************************************)
(* HTTP and HTML.                                                          *)
(***************************************************************************)

HttpRequestErrors ==
  {"SendMessage", "EventBuilder", "ReadHttpCredentials", "SerdeJson", "OAuth2TokenFetch",
   "ConfigRender", "ClientInit", "Reqwest", "ReqwestInvalidHeaderName",
   "ReqwestInvalidHeaderValue", "PayloadConfig", "MissingEventData", "RetryExhausted",
   "HttpError", "HttpRejected"}

HttpPrepare ==
  <<Cancelled, Try({"EventBuilder", "ConfigRender"}),
    Try({"ReqwestInvalidHeaderName", "ReqwestInvalidHeaderValue"}),
    Try({"MissingEventData", "SerdeJson", "PayloadConfig"}), Try({"OAuth2TokenFetch"})>>

\* HttpRejected is an answer with a status of 400 to 499 but 429.
HttpRequestHandle ==
  {HttpPrepare \o <<Call({"Reqwest", "HttpError", "HttpRejected"}), Try({"EventBuilder"}), HandOn>>}

HttpRequestPermanent == {"HttpRejected"}

HttpRequestStart == Start({"ConfigRender", "ClientInit", "ReadHttpCredentials", "SerdeJson"}, {})

ScrapeErrors ==
  {"SendMessage", "EventBuilder", "ConfigRender", "InvalidSelector", "HtmlNotString",
   "HtmlFieldMissing", "InvalidEventData", "RetryExhausted"}

ExtractHtml == Try({"InvalidEventData", "HtmlFieldMissing", "HtmlNotString"})

ScrapeHandle == {<<Cancelled, ExtractHtml, Try({"InvalidSelector"}), Try({"EventBuilder"}), HandOn>>}

ScrapeStart == Start({"ConfigRender", "InvalidSelector"}, {})

(***************************************************************************)
(* Klaviyo and Braze.  Api is a failure the client calls retryable,         *)
(* ApiRejected any other.                                                   *)
(***************************************************************************)

ApiErrors == {"Api", "ApiRejected"}

\* attributes and request.
KlaviyoRequest == Try({"MissingField", "EventDataNotObject", "InvalidPayload", "Event"})

\* emit keeps the last answer back, finish hands it on.
KlaviyoEmit == Try({"Response", "Event"})
KlaviyoFinish == <<KlaviyoEmit, HandOn>>

KlaviyoHandle(operation) == Before(<<Cancelled, Try({"ConfigRender"})>>, operation)

KlaviyoGet == {<<Try({"MissingField"}), Try(ApiErrors)>> \o KlaviyoFinish}
KlaviyoPages == LookAhead(Try(ApiErrors \cup {"NoResponse", "Response", "Event"}))
KlaviyoWrite == {<<KlaviyoRequest, Call(ApiErrors)>> \o KlaviyoFinish}
KlaviyoDelete == {<<Try({"MissingField"}), Call(ApiErrors)>> \o KlaviyoFinish}

\* Get, List, Messages and Variations; Create, Update, Clone and UpdateVariation.
KlaviyoCampaigns == KlaviyoGet \cup KlaviyoPages \cup KlaviyoWrite \cup KlaviyoDelete
KlaviyoSend == {<<Try({"MissingField"}), Call(ApiErrors)>> \o KlaviyoFinish}
KlaviyoEvents == KlaviyoWrite
KlaviyoLists == KlaviyoGet \cup KlaviyoPages
KlaviyoProfiles == KlaviyoGet \cup KlaviyoPages \cup KlaviyoWrite

\* Upsert looks the template up by its name first.
KlaviyoTemplates ==
  KlaviyoGet \cup KlaviyoPages \cup KlaviyoWrite \cup KlaviyoDelete
    \cup {<<KlaviyoRequest, Try({"InvalidFilterValue"} \cup ApiErrors), KlaviyoRequest,
            Call(ApiErrors)>> \o KlaviyoFinish}

KlaviyoErrors ==
  {"Api", "Credentials", "ClientBuild", "ConfigRender", "MissingField", "InvalidPayload",
   "EventDataNotObject", "InvalidFilterValue", "Response", "NoResponse", "Event",
   "SendMessage", "ClientRegistryMismatch", "ApiRejected"}

\* is_retryable: a failed call is repeated when retries_safely says so.
KlaviyoPermanent(safe) == KlaviyoErrors \ (IF safe THEN {"Api", "SendMessage"} ELSE {"SendMessage"})

\* validate ends the task at once, init is retried.
KlaviyoStart == Start(ServiceStart({"Credentials", "ClientBuild"}).retried, {"MissingField"})

BrazeRequest == Try({"MissingField", "EventDataNotObject", "InvalidPayload", "Event"})
BrazeFinish == <<Try({"Response", "Event"}), HandOn>>

BrazeHandle(operation) == Before(<<Cancelled, Try({"ConfigRender"})>>, operation)

BrazeMessaging == {<<BrazeRequest, Call(ApiErrors)>> \o BrazeFinish}
BrazeCreateSendIds == {<<BrazeRequest, Call(ApiErrors)>> \o BrazeFinish}
BrazeExport == {<<BrazeRequest, Try(ApiErrors)>> \o BrazeFinish}

BrazeErrors ==
  {"Api", "Credentials", "ClientBuild", "ConfigRender", "MissingField", "InvalidPayload",
   "EventDataNotObject", "Response", "NoResponse", "Event", "SendMessage",
   "ClientRegistryMismatch", "ApiRejected"}

BrazePermanent(safe) == BrazeErrors \ (IF safe THEN {"Api", "SendMessage"} ELSE {"SendMessage"})

BrazeStart == Start(ServiceStart({"Credentials", "ClientBuild"}).retried, {"MissingField"})

(***************************************************************************)
(* Salesforce.  failure() sorts the errors: Auth, Transient and every       *)
(* other one permanent.  A call that is not authenticated did nothing.      *)
(***************************************************************************)

Transient == {"Transient"}
SalesforceCall == <<Try({"Auth"}), Call({"Transient", "Rejected"})>>
SalesforceRead == <<Try({"Auth", "Transient", "Rejected"})>>

\* Once the call is done a cancelled task leaves the result where it is.
SalesforceFinish == <<Try({"Response", "Event"}), Cancelled, HandOn>>

\* Call::page retries a page by itself; what is left is permanent.
Page == Try({"RetryExhausted"})

\* Every page is sent once the next one is read.
SalesforcePages(first) ==
  {first \o <<Cancelled, Page>> \o SalesforceFinish,
   first \o <<Cancelled, Page, Cancelled, Page, Emit>> \o SalesforceFinish}

Soql == Try({"ResourceLoad", "Bind", "Event"})

SalesforceHandle(operation) == Before(<<Cancelled, Try({"ConfigRender"})>>, operation)

QueryJobCreate == {<<Try({"MissingField"}), Soql>> \o SalesforceCall \o SalesforceFinish}
QueryJobOther ==
  {<<Try({"MissingField"})>> \o call \o SalesforceFinish : call \in {SalesforceCall, SalesforceRead}}

\* results_schema and the reader of a page; no rows make one empty batch.
GetResults ==
  SalesforcePages(<<Try({"MissingField"})>> \o SalesforceRead \o <<Try({"Arrow", "Auth", "Transient"})>>)

SalesforceQuery == SalesforcePages(<<Soql>>)
SalesforceSearch == {SalesforceRead \o SalesforceFinish}

Records ==
  Try({"MissingField", "EventDataNotArray", "RecordNotObject", "MissingAttributes", "InvalidRecords",
       "Event"})
CompositeCreate == {<<Records>> \o SalesforceCall \o SalesforceFinish}
CompositeOther ==
  CompositeCreate \cup {<<Try({"MissingField"})>> \o call \o SalesforceFinish :
                          call \in {SalesforceCall, SalesforceRead}}

Fields == Try({"MissingField", "EventDataNotObject", "Event"})
SObjectCreate == {<<Fields>> \o SalesforceCall \o SalesforceFinish}

\* The record is looked up; when that fails, for whatever reason, it is created.
SObjectUpsert ==
  {<<Fields>> \o SalesforceCall \o SalesforceFinish,
   <<Fields, Try({"MissingRecordId"})>> \o SalesforceCall \o SalesforceFinish}

SObjectOther ==
  {<<Try({"MissingField", "InvalidDateTime"})>> \o call \o SalesforceFinish :
     call \in {SalesforceCall, SalesforceRead}}

SalesforceMerge == {<<Try({"InvalidMergeCount"})>> \o SalesforceCall \o SalesforceFinish}
SalesforceTooling == {<<Try({"MissingField"})>> \o SalesforceCall \o SalesforceFinish}

SalesforceErrors ==
  Transient \cup {"Credentials", "Auth", "ClientRegistryMismatch", "RestClient", "BulkClient",
                  "SoapClient", "SObject", "Describe", "Composite", "Search", "Query",
                  "BulkQuery", "Stream", "Arrow", "Merge", "Tooling", "PubSub", "Service",
                  "Avro", "StreamEnded", "Bind", "ResourceLoad", "ConfigRender",
                  "MissingField", "InvalidDateTime", "InvalidMergeCount", "MissingRecordId",
                  "EventDataNotObject", "EventDataNotArray", "RecordNotObject", "Salesforce",
                  "MissingAttributes", "InvalidRecords", "Response", "NoResponse", "Event",
                  "SendMessage", "RetryExhausted", "Rejected"}

SalesforcePermanent(safe) == SalesforceErrors \ (IF safe THEN {"Auth"} \cup Transient ELSE {"Auth"})

SalesforceStart ==
  ServiceStart({"Credentials", "Auth", "RestClient", "BulkClient", "SoapClient", "Tooling"})

\* The publisher has its own loop, in which nothing looks at event.error, and
\* handle does not look at the token.
PublisherHandle ==
  {<<Try({"ConfigRender", "MissingField", "EventDataNotObject", "Avro"}), Try({"Auth"}),
     Call({"Transient", "Rejected"}), Try({"Response", "Event"}), HandOn>>}

PublisherPermanent == SalesforcePermanent(TRUE) \cup {"Avro"}

PublisherStart == ServiceStart({"Credentials", "Auth", "Service", "PubSub", "Avro"})

(***************************************************************************)
(* Brokers.                                                                *)
(***************************************************************************)

\* ClientConnect is the ClientAuth of brokers that cannot be reached.
KafkaProduceErrors ==
  {"SendMessage", "EventBuilder", "ClientAuth", "Produce", "ProduceTimeout", "MissingOffset",
   "TopicNotFound", "NoPartitions", "TopicCreation", "TopicCreationRejected", "MetadataFetch",
   "PartitionClient", "SerdeJson", "ConfigRender", "Arrow", "MissingClient", "RetryExhausted",
   "ClientRegistryMismatch", "Config", "ReplicationFactorOutOfRange", "TopicNotVisible",
   "ClientConnect"}

\* The topic's partitions, cached for five minutes, and the record.
KafkaPrepare ==
  <<Cancelled, Try({"EventBuilder", "ConfigRender", "Arrow", "SerdeJson"}),
    Try({"MetadataFetch", "TopicNotFound", "PartitionClient", "NoPartitions"})>>

KafkaProduceHandle ==
  {KafkaPrepare \o <<Call({"ProduceTimeout", "Produce", "MissingOffset"}),
                     Try({"SerdeJson", "EventBuilder"}), HandOn>>}

KafkaProducePermanent ==
  {"ConfigRender", "SerdeJson", "Arrow", "TopicNotFound", "NoPartitions", "TopicCreationRejected",
   "MissingClient", "ClientAuth", "ClientRegistryMismatch", "Config", "ReplicationFactorOutOfRange"}

\* setup_topic and wait_for_topic.
SetupTopic ==
  {"MetadataFetch", "TopicNotFound", "ReplicationFactorOutOfRange", "TopicCreation",
   "TopicCreationRejected", "TopicNotVisible"}

\* A permanent error of the start is not retried.
KafkaProduceStart ==
  LET errors == SetupTopic \cup {"Config", "ConfigRender", "ClientAuth", "ClientConnect", "MissingClient",
                                 "ClientRegistryMismatch"}
  IN Start(errors \ KafkaProducePermanent, errors \cap KafkaProducePermanent)

NatsPublishErrors ==
  {"SendMessage", "EventBuilder", "ClientAuth", "Publish", "Stream", "MessageConversion",
   "SerdeJson", "ConfigRender", "NoStream", "MissingClient", "RetryExhausted",
   "ClientRegistryMismatch"}

NatsPublishHandle ==
  {<<Try({"ConfigRender", "MessageConversion"}), Call({"Publish"}),
     Try({"SerdeJson", "EventBuilder"}), HandOn>>}

NatsPublishStart == ServiceStart({"ClientAuth", "MissingClient", "NoStream", "Stream"})

(***************************************************************************)
(* Language models.                                                        *)
(***************************************************************************)

CompletionErrors ==
  {"SendMessage", "EventBuilder", "SerdeJson", "ConfigRender", "RetryExhausted",
   "MissingCredentialsPath", "ReadCredentials", "ParseCredentials", "RigClient",
   "CompletionFailed", "AgentClient", "ResourceLoad", "McpCredentials", "McpOAuth2",
   "McpConnection", "McpUserCredentials", "McpUserRequired", "McpUserUnauthorized",
   "McpAuthHeader", "McpHeaderName", "McpHeaderValue", "Event", "PassthroughDeserialize",
   "PassthroughBuild", "UpstreamRejected"}

\* The toolset of the task or of the event's user, then the client: both are
\* cached and made again when the authorization header changed.
ConnectMcpTools ==
  {"McpUserRequired", "McpCredentials", "McpOAuth2", "McpHeaderName", "McpHeaderValue",
   "McpAuthHeader", "McpUserUnauthorized", "McpConnection"}

ResolveClient ==
  Try({"ConfigRender", "MissingCredentialsPath", "ReadCredentials", "ParseCredentials",
       "ResourceLoad", "AgentClient"} \cup ConnectMcpTools)

RenderPrompts == Try({"EventBuilder", "ResourceLoad"})

\* UpstreamRejected is an answer with a status of 400 to 499.
ModelErrors == {"CompletionFailed", "UpstreamRejected"}
PassthroughRequest == Try({"EventBuilder", "PassthroughDeserialize", "PassthroughBuild"})

\* An agent may use tools while it answers.
CompletionHandle ==
  {<<Cancelled, ResolveClient, RenderPrompts>> \o call \o <<Try({"SerdeJson", "EventBuilder"}), HandOn>> :
     call \in {<<Call(ModelErrors)>>, <<PassthroughRequest, Try(ModelErrors)>>}}

\* Chunks are sent as they come, the last one with the whole text.
PassthroughStream ==
  {<<PassthroughRequest, Try(ModelErrors)>> \o chunks \o <<Try({"SerdeJson", "EventBuilder"}), HandOn>> :
     chunks \in {<<>>, <<Cancelled, Emit, Try(ModelErrors)>>}}

CompletionStreamHandle ==
  Before(<<Cancelled, ResolveClient, RenderPrompts>>,
         PassthroughStream
           \cup {<<Call(ModelErrors)>> \o chunks \o <<Try({"SerdeJson", "EventBuilder"}), HandOn>> :
                   chunks \in {<<>>, <<Cancelled, Emit, Call(ModelErrors)>>}})

CompletionPermanent == {"UpstreamRejected", "McpUserRequired", "McpUserUnauthorized"}

CompletionStart == Start(ConnectMcpTools, {"McpUserCredentials"})

(***************************************************************************)
(* Repositories.                                                           *)
(***************************************************************************)

\* What Push::push answers, for good and for now.
GitPushRejected ==
  {"StatusRejected", "InvalidPath", "Conflict", "NothingToPush", "BranchMissing", "Url",
   "CommandTooLong", "TooManyObjects", "InvalidPktLine", "TruncatedPktLine",
   "InvalidAdvertisement", "InvalidAdvertisedId", "UnpackFailed", "RefRejected", "ServerError", "Sign"}
GitPushFailed ==
  {"Status", "Clone", "Blocking", "TempDir", "InitRepository", "ReadRepository", "WriteRepository",
   "Http", "MissingUpdateReport", "BranchMoved", "EncodePack", "EncodeRequest"}

GitPushErrors ==
  GitPushRejected \cup GitPushFailed \cup {"Credentials", "ReadSigningKey",
                                           "InvalidSigningKey", "EncryptedSigningKey",
                                           "UnsupportedSigningKey", "Input", "NotJson",
                                           "Output", "HttpClient", "RenderConfig",
                                           "EventBuilder", "SendMessage", "RetryExhausted"}

GitPushHandle ==
  {<<Cancelled, Try({"RenderConfig", "NotJson", "Input"}), Call(GitPushRejected \cup GitPushFailed),
     Try({"Output", "EventBuilder"}), HandOn>>}

GitPushPermanent == GitPushRejected \cup {"Input", "NotJson", "RenderConfig"}

LoadSigningKey ==
  {"ReadSigningKey", "InvalidSigningKey", "EncryptedSigningKey", "UnsupportedSigningKey"}

GitPushStart == Start({"Credentials", "HttpClient"} \cup LoadSigningKey, {})

GitSyncErrors ==
  {"PrepareClonePath", "OpenRepo", "HeadCommit", "Remote", "Url", "Credentials",
   "InvalidClonePath", "Blocking", "FileRead", "WalkDir", "SendMessage", "SerdeJson",
   "RenderConfig", "EventBuilder", "RetryExhausted"}

CloneOrPull == Try({"PrepareClonePath", "Remote", "Blocking", "OpenRepo", "HeadCommit"})
GitFile == Try({"FileRead", "SerdeJson", "EventBuilder"})

\* An unchanged head, and a repository without files, release every leaf.
GitSyncHandle ==
  Before(<<Cancelled, CloneOrPull>>, {<<SignalLeaves>>} \cup OneOrTwo(GitFile))

GitSyncStart == Start({"RenderConfig", "Credentials", "Url", "InvalidClonePath"}, {})

\* What Push::push answers, for good and for now.
OciPushRejected ==
  {"NoTags", "InvalidReference", "InvalidPath", "DuplicatePath", "Layer", "Manifest", "ParseCredentials"}
OciPushFailed == {"ReadCredentials", "LayerTask", "Push"}

OciPushErrors ==
  OciPushRejected \cup OciPushFailed \cup {"NoTags", "NotObject", "MissingFiles", "Input",
                                           "NotJson", "RenderConfig", "EventBuilder",
                                           "SendMessage", "RetryExhausted"}

OciPushHandle ==
  {<<Cancelled, Try({"RenderConfig", "NotObject", "NotJson", "MissingFiles", "Input"}),
     Call(OciPushRejected \cup OciPushFailed), Try({"EventBuilder"}), HandOn>>}

OciPushPermanent ==
  OciPushRejected \cup {"NoTags", "NotObject", "MissingFiles", "Input", "NotJson", "RenderConfig"}

\* init is tried once.
OciPushStart == Start({}, {"NoTags"})

OciSyncErrors ==
  {"InvalidReference", "Pull", "InvalidLayerEncoding", "TarRead", "FileTooLarge",
   "ArtifactTooLarge", "SendMessage", "SerdeJson", "RenderConfig", "EventBuilder",
   "RetryExhausted", "ReadCredentials", "ParseCredentials"}

\* extract_layer_files, under the limits of a file and of the artifact.
ExtractLayer == Try({"Pull", "TarRead", "FileTooLarge", "ArtifactTooLarge"})

OciSyncHandle ==
  {<<Cancelled, Try({"Pull"}), SignalLeaves>>}
    \cup Before(<<Cancelled, Try({"Pull"}), Try({"Pull"}), ExtractLayer>>,
                {<<SignalLeaves>>} \cup OneOrTwo(Try({"SerdeJson", "EventBuilder"})))

OciSyncPermanent ==
  {"ParseCredentials", "InvalidReference", "InvalidLayerEncoding", "FileTooLarge", "ArtifactTooLarge"}

OciSyncStart == Start({"RenderConfig", "InvalidReference", "ReadCredentials", "ParseCredentials"}, {})

Klaviyo(operation, safe) ==
  Task(KlaviyoErrors, KlaviyoHandle(operation), KlaviyoPermanent(safe), safe, KlaviyoStart)
Braze(operation, safe) ==
  Task(BrazeErrors, BrazeHandle(operation), BrazePermanent(safe), safe, BrazeStart)
Salesforce(operation, safe) ==
  Task(SalesforceErrors, SalesforceHandle(operation), SalesforcePermanent(safe), safe, SalesforceStart)

ServiceTasks ==
  [http_request |-> Task(HttpRequestErrors, HttpRequestHandle, HttpRequestPermanent, TRUE, HttpRequestStart),
   html_scrape |-> Task(ScrapeErrors, ScrapeHandle, {}, TRUE, ScrapeStart),
   klaviyo_campaigns |-> Klaviyo(KlaviyoCampaigns, TRUE),
   klaviyo_send |-> Klaviyo(KlaviyoSend, FALSE),
   klaviyo_events |-> Klaviyo(KlaviyoEvents, TRUE),
   klaviyo_lists |-> Klaviyo(KlaviyoLists, TRUE),
   klaviyo_profiles |-> Klaviyo(KlaviyoProfiles, TRUE),
   klaviyo_templates |-> Klaviyo(KlaviyoTemplates, TRUE),
   braze_messaging |-> Braze(BrazeMessaging, FALSE),
   braze_create_send_ids |-> Braze(BrazeCreateSendIds, TRUE),
   braze_export |-> Braze(BrazeExport, TRUE),
   salesforce_query_job_create |-> Salesforce(QueryJobCreate, FALSE),
   salesforce_query_job |-> Salesforce(QueryJobOther \cup GetResults, TRUE),
   salesforce_query |-> Salesforce(SalesforceQuery, TRUE),
   salesforce_search |-> Salesforce(SalesforceSearch, TRUE),
   salesforce_composite_create |-> Salesforce(CompositeCreate, FALSE),
   salesforce_composite |-> Salesforce(CompositeOther, TRUE),
   salesforce_sobject_create |-> Salesforce(SObjectCreate \cup SObjectUpsert, FALSE),
   salesforce_sobject |-> Salesforce(SObjectOther, TRUE),
   salesforce_merge |-> Salesforce(SalesforceMerge, FALSE),
   salesforce_tooling |-> Salesforce(SalesforceTooling, FALSE),
   salesforce_publisher |-> Task(SalesforceErrors, PublisherHandle, PublisherPermanent, TRUE, PublisherStart),
   kafka_produce |-> Task(KafkaProduceErrors, KafkaProduceHandle, KafkaProducePermanent, TRUE, KafkaProduceStart),
   nats_publisher |-> Task(NatsPublishErrors, NatsPublishHandle, {}, TRUE, NatsPublishStart),
   completion |-> Task(CompletionErrors, CompletionHandle, CompletionPermanent, TRUE, CompletionStart),
   completion_stream |-> Task(CompletionErrors, CompletionStreamHandle, CompletionPermanent, TRUE, CompletionStart),
   git_push |-> Task(GitPushErrors, GitPushHandle, GitPushPermanent, TRUE, GitPushStart),
   git_sync |-> Task(GitSyncErrors, GitSyncHandle, {}, TRUE, GitSyncStart),
   oci_push |-> Task(OciPushErrors, OciPushHandle, OciPushPermanent, TRUE, OciPushStart),
   oci_sync |-> Task(OciSyncErrors, OciSyncHandle, OciSyncPermanent, TRUE, OciSyncStart)]
=============================================================================
