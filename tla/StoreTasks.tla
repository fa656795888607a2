----------------------------- MODULE StoreTasks -----------------------------
(***************************************************************************)
(* The handlers of the tasks that read and write stores: object stores,     *)
(* BigQuery, SQL Server, MongoDB and the NATS key-value store.              *)
(***************************************************************************)
EXTENDS TaskSteps

\* The errors of a client made through the registry, around the client's own.
ClientStart(errors) == Start({"ConfigRender", "ClientRegistryMismatch"} \cup errors, {})

(***************************************************************************)
(* Object stores.                                                          *)
(***************************************************************************)

\* call: the store's context, the operation, and after an authentication error
\* a reconnect and the operation once more.
StoreCall == {"NoObjectStoreContext", "ObjectStore", "ObjectStoreClient"}

ObjectReadErrors ==
  {"SendMessage", "EventBuilder", "IO", "Arrow", "Avro", "SerdeJson", "ObjectStore",
   "ObjectStoreClient", "ConfigRender", "NoObjectStoreContext", "NoFileExtension", "ParseUrl",
   "MissingPath", "RetryExhausted", "ClientRegistryMismatch"}

\* emit and the readers: an item is sent when the next one is there.
ReadItem == Try({"Arrow", "EventBuilder", "ObjectStore"})

\* ranges and infer_csv_schema, or the whole object and from_reader.
OpenObject == Try(StoreCall \cup {"Arrow", "IO", "EventBuilder"})

\* flush_pending: the last item takes the completion; without items every leaf
\* is released.
FlushPending == {<<SignalLeaves>>} \cup OneOrTwo(ReadItem)

ReadPrepare == <<Cancelled, Try({"ConfigRender", "MissingPath", "ParseUrl", "NoFileExtension"})>>

\* A file with an extension nobody reads is skipped, its completion dropped.
ObjectReadHandle ==
  {ReadPrepare} \cup Before(ReadPrepare \o <<OpenObject>>, FlushPending)

\* delete_after_read: the file goes after the completion was handed on.
ObjectReadDeleteHandle ==
  {ReadPrepare}
    \cup {path \o <<Call(StoreCall)>> : path \in Before(ReadPrepare \o <<OpenObject>>, FlushPending)}

ObjectReadStart == ClientStart({"MissingPath", "ObjectStoreClient"})

ObjectWriteErrors ==
  {"SendMessage", "EventBuilder", "IO", "Arrow", "Avro", "SerdeJson", "ObjectStore",
   "ObjectStoreClient", "ConfigRender", "ParseUrl", "NoObjectStoreContext", "MissingPath",
   "RetryExhausted", "ClientRegistryMismatch"}

WritePrepare == <<Cancelled, Try({"ConfigRender", "MissingPath", "ParseUrl"})>>

\* An empty batch is not written.
ObjectWriteHandle ==
  {WritePrepare \o <<SignalOnce>>,
   WritePrepare \o <<Try({"Arrow", "EventBuilder"}), Call(StoreCall),
                     Try({"SerdeJson", "EventBuilder"}), HandOn>>}

ObjectWriteStart == ClientStart({"MissingPath", "ObjectStoreClient"})

ObjectMoveErrors ==
  {"SendMessage", "EventBuilder", "ObjectStore", "ObjectStoreClient", "ConfigRender",
   "NoObjectStoreContext", "ParseUrl", "InvalidSourceFiles", "MissingSource",
   "MissingDestination", "ClientRegistryMismatch"}

MovePrepare ==
  <<Cancelled, Try({"ConfigRender", "MissingDestination", "ParseUrl"}),
    Try(StoreCall \cup {"InvalidSourceFiles", "MissingSource", "ParseUrl"})>>

\* A file is copied, then deleted at its source.
MoveFile == <<Call(StoreCall), Call(StoreCall)>>

ObjectMoveHandle ==
  {MovePrepare \o files \o <<Try({"MissingSource", "EventBuilder"}), HandOn>> :
     files \in {<<>>, MoveFile, MoveFile \o MoveFile}}

ObjectMoveStart == ClientStart({"MissingDestination", "MissingSource", "ObjectStoreClient"})

ObjectListErrors ==
  {"SendMessage", "EventBuilder", "ObjectStore", "ObjectStoreClient", "ConfigRender",
   "NoObjectStoreContext", "ParseUrl", "MissingPath", "ClientRegistryMismatch"}

ObjectListHandle ==
  {<<Cancelled, Try({"ConfigRender", "MissingPath", "ParseUrl"}), Try(StoreCall),
     Try({"EventBuilder"}), HandOn>>}

ObjectListStart == ClientStart({"MissingPath", "ObjectStoreClient"})

(***************************************************************************)
(* BigQuery.                                                               *)
(***************************************************************************)

BigQueryClient == {"ClientAuth", "ClientCreation", "HttpClientBuild", "ClientConnection"}

\* QueryRejected is an answer with a status of 400 to 499 but 429.
BigQueryQueryErrors ==
  {"SendMessage", "EventBuilder", "SerdeJson", "ConfigRender", "ClientAuth", "ClientCreation",
   "ClientConnection", "HttpClientBuild", "QueryExecution", "StorageQueryExecution",
   "StorageRead", "MissingSchema", "Arrow", "RetryExhausted", "DateParse", "TimeParse",
   "InvalidDateTime", "ResourceLoad", "ClientRegistryMismatch", "QueryRejected"}

\* QueryStream::start: the query, its parameters, and how it is run.
QueryParameter == Try({"ResourceLoad", "SerdeJson"})
StartRest == <<Call({"QueryExecution", "QueryRejected"}), Try({"QueryExecution", "QueryRejected"})>>
StartStorage == <<Call({"StorageQueryExecution", "QueryRejected"})>>

\* next_batch reads one page ahead.
NextBatch == Try({"QueryExecution", "QueryRejected", "Arrow", "StorageRead"})

BigQueryQueryHandle ==
  UNION {Before(<<Cancelled, Try({"EventBuilder", "ConfigRender"}), QueryParameter>> \o start,
                LookAhead(NextBatch)) : start \in {StartRest, StartStorage}}

\* is_permanent: what BigQuery answers with a status of 400 to 499 but 429.
BigQueryQueryPermanent == {"QueryRejected"}

BigQueryQueryStart == ClientStart(BigQueryClient)

BigQueryJobErrors ==
  {"SendMessage", "EventBuilder", "ConfigRender", "ClientAuth", "ClientCreation",
   "ClientConnection", "HttpClientBuild", "JobOperation", "JobSerialization", "PollTimeout",
   "JobFailed", "RetryExhausted", "MissingSourceUris", "InvalidSourceUrisFormat",
   "MissingDestinationTable", "MissingSourceFormat", "MissingJobIdForGet",
   "MissingJobIdForCancel", "MissingJobIdForDelete", "ClientRegistryMismatch"}

CreateJob ==
  <<Try({"MissingSourceUris", "InvalidSourceUrisFormat", "MissingDestinationTable",
         "MissingSourceFormat"}), Call({"JobOperation"})>>

\* get_job polls until the job is done or the time is over.
GetJob == <<Try({"MissingJobIdForGet"}), Try({"JobOperation", "PollTimeout", "JobFailed"})>>
CancelJob == <<Try({"MissingJobIdForCancel"}), Call({"JobOperation"})>>
DeleteJob == <<Try({"MissingJobIdForDelete"}), Call({"JobOperation"})>>

BigQueryJobHandle ==
  {<<Cancelled, Try({"ConfigRender"})>> \o job
     \o <<Try({"JobSerialization", "EventBuilder"}), HandOn>> :
     job \in {CreateJob, GetJob, CancelJob, DeleteJob}}

BigQueryJobStart == ClientStart(BigQueryClient)

BigQueryWriteErrors ==
  {"SendMessage", "EventBuilder", "EventData", "SerdeJson", "ConfigRender", "ClientAuth",
   "ClientCreation", "ClientConnection", "HttpClientBuild", "StorageWrite", "ProtoEncode",
   "Arrow", "TableMetadata", "MissingSchema", "ProtobufEncode", "FieldTypeMismatch",
   "FieldBase64Decode", "FieldExpectedObject", "RowWriteError", "ClientRegistryMismatch"}

\* json_to_proto_bytes.
EncodeRow == {"FieldTypeMismatch", "FieldBase64Decode", "FieldExpectedObject", "ProtobufEncode"}

\* The answers are read until the stream ends: an append error without row
\* errors counts as a row that was written.
BigQueryWriteHandle ==
  {<<Cancelled, Try({"ConfigRender", "Arrow", "ProtoEncode", "EventBuilder"} \cup EncodeRow),
     Call({"StorageWrite", "RowWriteError"}), Try({"EventBuilder"}), HandOn>>}

BigQueryWriteStart ==
  ClientStart(BigQueryClient \cup {"TableMetadata", "MissingSchema", "StorageWrite"})

BigQueryReadErrors ==
  {"SendMessage", "EventBuilder", "ConfigRender", "ClientAuth", "ClientCreation",
   "ClientConnection", "HttpClientBuild", "StorageRead", "RetryExhausted", "InvalidTimestamp",
   "ClientRegistryMismatch"}

OpenReadIterator == Try({"InvalidTimestamp", "StorageRead"})

BigQueryReadHandle ==
  Before(<<Cancelled, Try({"ConfigRender"}), OpenReadIterator>>, LookAhead(Try({"StorageRead"})))

BigQueryReadStart == ClientStart(BigQueryClient)

(***************************************************************************)
(* Databases.                                                              *)
(***************************************************************************)

MssqlErrors ==
  {"ConfigRender", "EventBuilder", "SendMessage", "Client", "QueryExecution",
   "ArrowConversion", "RetryExhausted", "ResourceLoad", "CredentialsLoad",
   "ClientRegistryMismatch"}

\* A query may change the database; no rows make one empty batch.
MssqlHandle ==
  Before(<<Cancelled, Try({"EventBuilder", "ConfigRender", "ResourceLoad", "Client"}),
           Call({"QueryExecution"}), Try({"ArrowConversion"})>>,
         OneOrTwo(Try({"EventBuilder"})))

MssqlStart == ClientStart({"CredentialsLoad", "Client"})

MongoErrors ==
  {"Auth", "SendMessage", "EventBuilder", "RetryExhausted", "MessageConversion",
   "UnsupportedEventData", "InvalidDocument", "MissingUpsertFilter", "EmptyUpsertPayload",
   "MixedUpsertPayload", "MissingUpsertedDocument", "UnsupportedIdShape", "InvalidObjectId",
   "SerdeJson", "MongoDB", "Bson", "ClientRegistryMismatch", "ConfigRender"}

NextDocument == Try({"MongoDB"})

\* Without a match the answer is one event that says so.
MongoRead ==
  {<<Try({"Bson"}), NextDocument, NextDocument, Try({"EventBuilder"}), HandOn>>}
    \cup Before(<<Try({"Bson"}), NextDocument>>,
                OneOrTwo(Try({"MongoDB", "MessageConversion"})))

MongoWrite ==
  {<<Try({"UnsupportedEventData", "InvalidObjectId", "UnsupportedIdShape", "Bson", "InvalidDocument"}),
     Call({"MongoDB"}), Try({"SerdeJson", "EventBuilder"}), HandOn>>}

\* build_filter_doc and build_update_doc.
MongoUpsertDocument ==
  {"Bson", "EmptyUpsertPayload", "MixedUpsertPayload", "UnsupportedIdShape"}

MongoUpsert ==
  {<<Try({"UnsupportedEventData", "MissingUpsertFilter", "InvalidDocument"} \cup MongoUpsertDocument),
     Call({"MongoDB"}), Try({"MissingUpsertedDocument", "MessageConversion"}), HandOn>>}

MongoPermanent ==
  {"UnsupportedEventData", "InvalidDocument", "MissingUpsertFilter", "EmptyUpsertPayload",
   "MixedUpsertPayload", "UnsupportedIdShape", "InvalidObjectId", "Bson", "ConfigRender"}

MongoStart == ClientStart({"Auth"})

KvStoreErrors ==
  {"Client", "KvEntry", "KvPut", "KvBucketCreate", "KvKeys", "KvKeyStream", "KvDelete",
   "MissingJetStream", "MissingKey", "MissingContent", "NotJson", "InvalidEntries",
   "MissingKeyPrefix", "EmptyPrune", "UnsafePrunePrefix", "InvalidEntryKey", "SerdeJson",
   "SendMessage", "EventBuilder", "ConfigRender", "RetryExhausted", "ClientRegistryMismatch"}

\* prepare_entries: nothing is written when an entry or the prefix is wrong.
PrepareEntries ==
  Try({"MissingKeyPrefix", "UnsafePrunePrefix", "InvalidEntries", "EmptyPrune", "InvalidEntryKey"})

KvPut == <<Try({"MissingContent"}), Call({"KvPut"})>>

\* The entries that changed are put, then the stale ones deleted.
KvPutEntries ==
  <<PrepareEntries, Try({"KvKeys", "KvKeyStream", "KvEntry"}), Call({"KvPut"}), Call({"KvDelete"})>>

KvGet == <<Try({"MissingKey", "KvEntry"})>>
KvList == <<Try({"KvKeys", "KvKeyStream", "KvEntry"})>>
KvDelete == <<Try({"MissingKey"}), Call({"KvDelete"})>>

KvStoreHandle ==
  {<<Cancelled, Try({"ConfigRender", "NotJson"})>> \o operation
     \o <<Try({"SerdeJson", "EventBuilder"}), HandOn>> :
     operation \in {KvPut, KvPutEntries, KvGet, KvList, KvDelete}}

KvStorePermanent ==
  {"MissingKey", "MissingContent", "NotJson", "InvalidEntries", "MissingKeyPrefix", "EmptyPrune",
   "UnsafePrunePrefix", "InvalidEntryKey", "ConfigRender", "EventBuilder", "SerdeJson"}

KvStoreStart == ClientStart({"Client", "MissingJetStream", "KvBucketCreate"})

StoreTasks ==
  [object_read |-> Task(ObjectReadErrors, ObjectReadHandle, {}, TRUE, ObjectReadStart),
   object_read_delete |-> Task(ObjectReadErrors, ObjectReadDeleteHandle, {}, TRUE, ObjectReadStart),
   object_write |-> Task(ObjectWriteErrors, ObjectWriteHandle, {}, TRUE, ObjectWriteStart),
   object_move |-> Task(ObjectMoveErrors, ObjectMoveHandle, {}, TRUE, ObjectMoveStart),
   object_list |-> Task(ObjectListErrors, ObjectListHandle, {}, TRUE, ObjectListStart),
   bigquery_query |-> Task(BigQueryQueryErrors, BigQueryQueryHandle, BigQueryQueryPermanent, TRUE, BigQueryQueryStart),
   bigquery_job |-> Task(BigQueryJobErrors, BigQueryJobHandle, {}, TRUE, BigQueryJobStart),
   bigquery_write |-> Task(BigQueryWriteErrors, BigQueryWriteHandle, {}, TRUE, BigQueryWriteStart),
   bigquery_read |-> Task(BigQueryReadErrors, BigQueryReadHandle, {}, TRUE, BigQueryReadStart),
   mssql |-> Task(MssqlErrors, MssqlHandle, {}, TRUE, MssqlStart),
   mongodb_read |-> Task(MongoErrors, MongoRead, MongoPermanent, TRUE, MongoStart),
   mongodb_write |-> Task(MongoErrors, MongoWrite, MongoPermanent, TRUE, MongoStart),
   mongodb_upsert |-> Task(MongoErrors, MongoUpsert, MongoPermanent, TRUE, MongoStart),
   kv_store |-> Task(KvStoreErrors, KvStoreHandle, KvStorePermanent, TRUE, KvStoreStart)]
=============================================================================
