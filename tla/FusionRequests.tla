---------------------------- MODULE FusionRequests ----------------------------
(***************************************************************************)
(* What the Fusion nodes request of the REST service, computed from the    *)
(* node's configuration and the message: the resource that is addressed,   *)
(* the filters of a lookup, the transaction detail that is posted, the     *)
(* parts of a batch.  A request is a record, Rejected stands for the error *)
(* that is reported instead.                                               *)
(*                                                                         *)
(* A value of a message or a configuration is "none" (absent or empty),    *)
(* "blank" (spaces), "dot" (a dot path segment), or a proper name.         *)
(***************************************************************************)
EXTENDS Naturals, Sequences, SequencesExt

CONSTANTS
  Given,   \* the values that a message may carry
  Set      \* the values that a configuration may carry

VARIABLES
  job,     \* the configuration and the message, or Idle
  request  \* what is sent for them

Values == {"none", "blank", "dot", "A", "B"}
ValuesAreKnown == Given \subseteq Values /\ Set \subseteq Values

Idle == [node |-> "idle"]
Rejected == [method |-> "none"]

\* JavaScript's a || b.
Or(a, b) == IF a = "none" THEN b ELSE a

Trimmed(v) == IF v = "blank" THEN "none" ELSE v
HasValue(v) == v \notin {"none", "blank"}

\* The value of the message if it has one, or else the configured one.
Prefer(given, set) == IF HasValue(given) THEN given ELSE IF HasValue(set) THEN set ELSE "none"

------------------------------------------------------------------------------
(* Resources with their actions.  The names in Ids are placeholders.        *)

Ids == {"workOrderId", "operationId", "childRecordId", "resourceId"}

R(actions, path, item) == [actions |-> actions, path |-> path, item |-> item]
Crud == {"create", "list", "get", "update", "delete"}

OperationPath(orders) == <<orders, "workOrderId", "child", "WorkOrderOperation">>

ManufacturingChildren ==
  LET ops == OperationPath("workOrders")
  IN  [operation |-> R(Crud, ops, "childRecordId"),
       component |-> R(Crud, ops \o <<"operationId", "child", "WorkOrderOperationMaterial">>, "childRecordId"),
       resource |-> R(Crud, ops \o <<"operationId", "child", "WorkOrderOperationResource">>, "childRecordId"),
       serial |-> R(Crud \ {"update"}, <<"workOrders", "workOrderId", "child", "WorkOrderSerialNumber">>, "childRecordId"),
       progress |-> R({"create"}, <<"operationTransactions">>, "none")]

MaintenanceChildren ==
  LET ops == OperationPath("maintenanceWorkOrders")
  IN  [operation |-> R(Crud, ops, "childRecordId"),
       material |-> R(Crud, ops \o <<"operationId", "child", "WorkOrderOperationMaterial">>, "childRecordId"),
       resource |-> R(Crud, ops \o <<"operationId", "child", "WorkOrderOperationResource">>, "childRecordId"),
       costTransaction |-> R({"create"}, <<"maintenanceOperationTransactions">>, "none")]

\* delete-transaction: the path of the custom mode is the configured one.
EndpointMap ==
  [asset |-> R({"delete"}, <<"installedBaseAssets">>, "resourceId"),
   meter |-> R({"delete"}, <<"meterReadings">>, "resourceId"),
   misc |-> R({"delete"}, <<"inventoryStagedTransactions">>, "resourceId"),
   subinventory |-> R({"delete"}, <<"inventoryStagedTransactions">>, "resourceId"),
   custom |-> R({"delete"}, <<"customPath">>, "resourceId")]

ManufacturingOrders == [order |-> R({"create", "update"}, <<"workOrders">>, "workOrderId")]
MaintenanceOrders == [order |-> R({"create", "update"}, <<"maintenanceWorkOrders">>, "workOrderId")]

Tables ==
  [manufacturingChild |-> ManufacturingChildren, maintenanceChild |-> MaintenanceChildren,
   delete |-> EndpointMap, manufacturing |-> ManufacturingOrders, maintenance |-> MaintenanceOrders]

\* delete-transaction has one action only.
ResolveAction(j) ==
  IF j.node = "delete" THEN "delete" ELSE Or(j.msg.action, Or(j.config.action, "create"))

\* Fault: the message's value is not trimmed before it is looked at.
ResolveIdRaw(id, j) == Or(j.msg[id], j.config[id])

\* An identifier, "none" if there is none.
ResolveId(id, j) == Trimmed(Or(j.msg[id], j.config[id]))

ActionUsesItemId(action) == action \in {"get", "update", "delete"}

\* The path of a resource, with the identifier of the item behind it.
ResourcePath(resource, action) ==
  IF ActionUsesItemId(action) THEN Append(resource.path, resource.item) ELSE resource.path

Filled(segment, j) == IF segment \in Ids THEN ResolveId(segment, j) ELSE segment

\* appendPathSegments(): the dot segments are refused.
AppendPathSegments(path) == IF "dot" \in Range(path) THEN <<>> ELSE path

Verb == [create |-> "POST", update |-> "PATCH", list |-> "GET", get |-> "GET", delete |-> "DELETE"]

\* The request of a node that works on a resource.
ResourceRequest(j) ==
  LET resource == Tables[j.node][j.resource]
      action == ResolveAction(j)
      path == [i \in DOMAIN ResourcePath(resource, action) |-> Filled(ResourcePath(resource, action)[i], j)]
  IN  IF action \in resource.actions /\ "none" \notin Range(path) /\ AppendPathSegments(path) # <<>>
      THEN [method |-> Verb[action], path |-> path]
      ELSE Rejected

------------------------------------------------------------------------------
(* scm-lookup.  A type is its path, the parameter that carries the value    *)
(* looked up, and the fields of its query, required or not.                 *)

L(path, param, required, optional) ==
  [path |-> path, param |-> param, required |-> required, optional |-> optional]

LookupTypes ==
  LET org == {"OrganizationCode"}
      operation == OperationPath("workOrders")
      below(child) == operation \o <<"operationId", "child", child>>
      orders == L(<<"workOrders">>, "WorkOrderNumber", org, {})
      definitions == L(<<"workDefinitions">>, "WorkDefinitionName", org \cup {"ItemNumber"}, {})
  IN  [installedBaseAsset |-> L(<<"installedBaseAssets">>, "SerialNumber", {"ItemNumber"}, {}),
       meterReading |-> L(<<"meterReadings">>, "finder", {"MeterCode"}, {}),
       organizationId |-> L(<<"inventoryOrganizations">>, "OrganizationName", {}, {}),
       item |-> L(<<"itemsV2">>, "ItemNumber", org, {}),
       subinventory |-> L(<<"subinventories">>, "SecondaryInventoryName", org, {}),
       onHandQuantity |-> L(<<"inventoryOnhandBalances">>, "ItemNumber", org, {"SubinventoryCode"}),
       workDefinition |-> definitions, recipe |-> definitions,
       manufacturingWorkOrder |-> orders, batch |-> orders,
       workOrderOperation |-> L(operation, "OperationSequenceNumber", {}, {}),
       workOrderMaterial |-> L(below("WorkOrderOperationMaterial"), "InventoryItemNumber", {}, {}),
       workOrderResource |-> L(below("WorkOrderOperationResource"), "ResourceCode", {}, {}),
       workOrderOutput |-> L(below("WorkOrderOperationOutput"), "InventoryItemNumber", {}, {}),
       reservationStatus |-> L(below("WorkOrderOperationMaterial"), "InventoryItemNumber", {}, {}),
       maintenanceWorkOrder |-> L(<<"maintenanceWorkOrders">>, "WorkOrderNumber", org, {})]

Fields == {"OrganizationCode", "ItemNumber", "MeterCode", "SubinventoryCode", "Extra"}

\* parseQueryFilters(): filters without a value are dropped.
ParseQueryFilters(filters) == [f \in {g \in DOMAIN filters : HasValue(filters[g])} |-> filters[f]]

QueryField(f, j) == Prefer(j.msg[f], j.config[f])

\* The fields of the type come from the message or the configuration, never
\* from the filters of the user, who may add others.
BuildLookupRequest(lookup, filters, j) ==
  LET fields == lookup.required \cup lookup.optional
      own == {f \in fields : HasValue(QueryField(f, j))}
  IN  [f \in own \cup (DOMAIN filters \ fields) |-> IF f \in own THEN QueryField(f, j) ELSE filters[f]]

\* An identifier of a path; a blank one of the message gives way here.
ResolvePathValue(segment, j) ==
  IF segment \in Ids THEN Prefer(j.msg[segment], j.config[segment]) ELSE segment

\* The finder of meter readings carries the value and the meter's code, a
\* query the rest.
LookupRequest(j) ==
  LET lookup == LookupTypes[j.resource]
      value == Prefer(j.msg.queryValue, j.config.queryValue)
      query == BuildLookupRequest(lookup, ParseQueryFilters(j.filters), j)
      path == [i \in DOMAIN lookup.path |-> ResolvePathValue(lookup.path[i], j)]
  IN  IF /\ HasValue(value)
         /\ \A f \in lookup.required : HasValue(QueryField(f, j))
         /\ "none" \notin Range(path) /\ AppendPathSegments(path) # <<>>
      THEN [method |-> "GET", path |-> path, param |-> lookup.param, value |-> value, query |-> query]
      ELSE Rejected

------------------------------------------------------------------------------
(* manufacturing-production-transaction.                                    *)

D(endpoint, field, defaults) == [endpoint |-> endpoint, field |-> field, defaults |-> defaults]

Modes ==
  LET operation(from, to) ==
        D("operationTransactions", "OperationTransactionDetail",
          [FromDispatchState |-> from, ToDispatchState |-> to])
      material(type) ==
        D("materialTransactions", "MaterialTransactionDetail", [TransactionTypeCode |-> type])
      output(type) ==
        D("materialTransactions", "MaterialTransactionDetail",
          [TransactionTypeCode |-> type, OutputTypeCode |-> "PRODUCT"])
  IN  [operationcomplete |-> operation("READY", "COMPLETE"),
       operationreject |-> operation("READY", "REJECT"),
       operationscrap |-> operation("READY", "SCRAP"),
       operationreversetoready |-> operation("COMPLETE", "READY"),
       materialissue |-> material("MATERIAL_ISSUE"),
       materialreturn |-> material("MATERIAL_RETURN"),
       outputcomplete |-> output("PRODUCT_COMPLETION"),
       outputreturn |-> output("PRODUCT_RETURN")]

\* applyModeDefaults(): the fields of the mode replace those of the detail.
ApplyModeDefaults(detail, mode) ==
  [f \in DOMAIN detail \cup DOMAIN mode.defaults |->
     IF f \in DOMAIN mode.defaults THEN mode.defaults[f] ELSE detail[f]]

\* A detail that is wrapped already is refused, an unknown mode too.
DetailRequest(j) ==
  IF \/ j.resource \notin DOMAIN Modes
     \/ {"OperationTransactionDetail", "MaterialTransactionDetail"} \cap DOMAIN j.detail # {}
  THEN Rejected
  ELSE LET mode == Modes[j.resource]
       IN  [method |-> "POST", path |-> <<mode.endpoint>>, field |-> mode.field,
            detail |-> ApplyModeDefaults(j.detail, mode)]

------------------------------------------------------------------------------
(* fusion-request.                                                          *)

WithBody == {"POST", "PUT", "PATCH"}

\* resolveRequestPayload(): a mapped payload may be empty for the other
\* methods, a payload of the message has to be an object.
PayloadAccepted(j) ==
  \/ j.source = "mappings" /\ (j.payload # "empty" \/ j.method \notin WithBody)
  \/ j.source = "msgPayload" /\ j.payload # "text"

BatchOperations == {"get", "create", "update", "replace", "delete", "invoke"}
BatchPayloadOperations == {"create", "update", "replace"}

\* validateBatchPart(): its payload is "none", "object" or "text".
PartAccepted(part) ==
  /\ HasValue(part.id)
  /\ part.path = "relative"
  /\ part.operation \in BatchOperations
  /\ part.operation \in BatchPayloadOperations => part.payload = "object"
  /\ part.operation = "invoke" => part.payload # "text"

\* validateBatchRequest(): every part is accepted, with an identifier of its own.
BatchAccepted(j) ==
  /\ j.method = "POST" /\ j.url = "root"
  /\ j.parts # <<>>
  /\ \A i \in DOMAIN j.parts : PartAccepted(j.parts[i])
  /\ \A i, k \in DOMAIN j.parts : i # k => j.parts[i].id # j.parts[k].id

\* validateFusionRequest(): what goes into the body, and into the parameters.
FusionRequest(j) ==
  IF /\ j.url # "none" /\ j.method \in WithBody \cup {"GET", "DELETE"}
     /\ PayloadAccepted(j)
     /\ j.media = "adfAction" => j.method = "POST"
     /\ j.media = "adfBatch" => BatchAccepted(j)
  THEN [method |-> j.method,
        body |-> IF j.method \in WithBody THEN j.payload ELSE "none",
        params |-> IF j.method = "GET" THEN j.payload ELSE "none"]
  ELSE Rejected

------------------------------------------------------------------------------
(* The messages that arrive.                                                *)

Init == job = Idle /\ request = Rejected

\* Messages or configurations with values for the names of S only.
Over(S, values) ==
  {[n \in Ids \cup Fields \cup {"action", "queryValue"} |-> IF n \in S THEN f[n] ELSE "none"] :
     f \in [S -> values]}

OnResource ==
  \E node \in DOMAIN Tables : \E name \in DOMAIN Tables[node] :
    LET ids == Ids \cap (Range(Tables[node][name].path) \cup {Tables[node][name].item})
    IN  \E m \in Over(ids, Given), c \in Over(ids, Set) :
        \E a \in Crud \cup {"none", "other"}, b \in {"none", "update"} :
          /\ job' = [node |-> node, resource |-> name,
                     msg |-> [m EXCEPT !.action = a], config |-> [c EXCEPT !.action = b]]
          /\ request' = ResourceRequest(job')

OnLookup ==
  \E type \in DOMAIN LookupTypes :
    LET lookup == LookupTypes[type]
        names == lookup.required \cup lookup.optional \cup {"queryValue"}
                   \cup (Ids \cap Range(lookup.path))
    IN  \E m \in Over(names, Given), c \in Over(names, Set) :
        \E f \in [lookup.required \cup {"Extra"} -> {"none", "blank", "B"}] :
          /\ job' = [node |-> "lookup", resource |-> type, msg |-> m, config |-> c, filters |-> f]
          /\ request' = LookupRequest(job')

OnDetail ==
  \E mode \in DOMAIN Modes \cup {"other"} :
  \E fields \in SUBSET {"Quantity", "FromDispatchState", "OutputTypeCode", "OperationTransactionDetail"} :
    /\ job' = [node |-> "detail", resource |-> mode, detail |-> [f \in fields |-> "given"]]
    /\ request' = DetailRequest(job')

Parts == [id : {"blank", "A", "B"}, path : {"relative", "other"},
          operation : {"create", "invoke", "delete", "other"}, payload : {"none", "object", "text"}]

OnFusionRequest ==
  \E method \in {"GET", "POST", "PATCH", "other"}, url \in {"none", "root", "resource"},
     media \in {"resourceItem", "adfAction", "adfBatch"} :
  \E source \in {"mappings", "msgPayload"} :
  \E payload \in {"empty", "object"} \cup (IF source = "mappings" THEN {} ELSE {"text"}) :
  \E parts \in IF media = "adfBatch" /\ payload = "object" /\ url = "root" THEN BoundedSeq(Parts, 2) ELSE {<<>>} :
    /\ job' = [node |-> "fusion", method |-> method, url |-> url, media |-> media,
               source |-> source, payload |-> payload, parts |-> parts]
    /\ request' = FusionRequest(job')

Next == job = Idle /\ (OnResource \/ OnLookup \/ OnDetail \/ OnFusionRequest)

------------------------------------------------------------------------------
(* What is sent means what the message says.                                *)

Sent(nodes) == job.node \in nodes /\ request # Rejected

\* Every identifier of a path names something, and a record that is read,
\* changed or deleted is the one that the message names, or else the node.
RecordsAreNamed ==
  Sent(DOMAIN Tables) =>
    LET resource == Tables[job.node][job.resource]
        addressed == IF request.method \in {"PATCH", "DELETE"} THEN TRUE
                     ELSE Len(request.path) > Len(resource.path)
        named == IF job.msg[resource.item] = "none" THEN job.config[resource.item]
                 ELSE job.msg[resource.item]
    IN  /\ Range(request.path) \cap (Ids \cup {"none", "blank", "dot"}) = {}
        /\ SubSeq(request.path, 1, 1) = SubSeq(resource.path, 1, 1)
        /\ addressed => /\ Len(request.path) = Len(resource.path) + 1
                        /\ Last(request.path) = named
        /\ request.method = "POST" => ~addressed

\* A lookup is narrowed by its value and by every field that its type requires,
\* and no filter of the user widens or moves it.
LookupsAreFiltered ==
  Sent({"lookup"}) =>
    LET lookup == LookupTypes[job.resource]
    IN  /\ HasValue(request.value)
        /\ \A f \in lookup.required :
             f \in DOMAIN request.query /\ request.query[f] = Prefer(job.msg[f], job.config[f])
        /\ \A f \in DOMAIN request.query : HasValue(request.query[f])
        /\ HasValue(job.filters["Extra"]) => "Extra" \in DOMAIN request.query

\* A detail is posted as the transaction that its mode says, whatever the
\* message claims, and nothing else of it is changed.
DetailsFollowTheMode ==
  Sent({"detail"}) =>
    LET mode == Modes[job.resource]
    IN  /\ \A f \in DOMAIN mode.defaults : request.detail[f] = mode.defaults[f]
        /\ \A f \in DOMAIN job.detail \ DOMAIN mode.defaults : request.detail[f] = job.detail[f]

\* What changes data has a body, and the parts of a batch can be told apart
\* in its answer.
BodiesAreSound ==
  Sent({"fusion"}) =>
    /\ job.method \in WithBody => request.body \in {"object", "empty"}
    /\ job.media = "adfBatch" =>
         Cardinality({job.parts[i].id : i \in DOMAIN job.parts}) = Len(job.parts)

\* A request of the Fusion nodes addresses the record, narrows the lookup and
\* carries the body that the message and the configuration ask for, or is
\* refused.
RequestsAreSound == RecordsAreNamed /\ LookupsAreFiltered /\ DetailsFollowTheMode /\ BodiesAreSound
=============================================================================
