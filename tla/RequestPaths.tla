----------------------------- MODULE RequestPaths -----------------------------
(***************************************************************************)
(* The handlers of the nodes that answer an input with a request.          *)
(*                                                                         *)
(* A handler is the set of its paths: the awaits that it passes, each with *)
(* the checks that follow it before the next one.  How requests and        *)
(* answers are built is left out; that an input, or a value read later, is *)
(* refused is a choice of RequestNodes or a path that ends so.             *)
(***************************************************************************)

\* What a handler awaits: something shared, which it may have to create, or
\* an answer of the service or the file system.
Shared == {"token", "provider", "client", "own client", "producer"}
External == {"call", "read", "write"}

\* The checks: the node must be open, else the input fails; must be open, else
\* the input is dropped; the input is refused after all.
Checks == {"open", "quiet", "refuse"}

On(a) == [await |-> a, then |-> {}]
Then(a, check) == [await |-> a, then |-> {check}]

\* A handler: the check it starts with, whether its catch drops the error once
\* the node is closed, whose close shuts the clients, and the paths.
Handler(start, silent, owner, paths) ==
  [start |-> start, silent |-> silent, owner |-> owner, paths |-> paths]

------------------------------------------------------------------------------
(* Fusion: a token of the shared scm-server, then one request.  Only two    *)
(* lookups look whether their node was closed meanwhile.                    *)

Fusion(paths) == Handler({}, FALSE, "none", paths)
FusionOpen(paths) == Handler({"open"}, FALSE, "none", paths)

Request == <<On("token"), On("call")>>

CreateAsset == Fusion({Request})
CreateMeterReading == Fusion({Request})
SubinventoryQuantityTransfer == Fusion({Request})
MiscTransaction == Fusion({Request})
GetInstalledBaseAsset == Fusion({Request})
GetOrganizationId == Fusion({Request})
MaintenanceWorkOrder == Fusion({Request})
ManufacturingWorkOrder == Fusion({Request})
WorkOrderChild == Fusion({Request})
ManufacturingProductionTransaction == Fusion({Request})
SmoEvent == Fusion({Request})
FusionRequest == Fusion({Request})

\* The mode and the address are looked at after the token has come.
DeleteTransaction == Fusion({Request, <<Then("token", "refuse")>>})

GetMeterReading == FusionOpen({<<Then("token", "open"), Then("call", "open")>>})

\* Fault: what happened during the request for the token is not looked at.
ScmLookupLate == FusionOpen({<<On("token"), Then("call", "open")>>})

ScmLookup == FusionOpen({<<Then("token", "open"), Then("call", "open")>>})

------------------------------------------------------------------------------
(* OCI: a client of the node's own manager, shared by its inputs.           *)

Managed(paths) == Handler({}, FALSE, "node", paths)

Served == <<On("client"), Then("call", "open")>>

OciNotification == Managed({Served})
OciLogging == Managed({Served})
OciLogAnalytics == Managed({Served})
IotGetContent == Managed({Served})

\* The response endpoint is looked at after the client has come.
IotSendCommand == Managed({Served, <<Then("client", "refuse")>>})

\* The relationship is looked up, and found once, before it is updated.
IotUpdateRelationship ==
  Managed({<<On("client"), Then("call", "open"), Then("call", "open")>>,
           <<On("client"), Then("call", "refuse")>>})

\* Uploads of a payload and of a file, downloads to the message and to a file;
\* no body and an unknown operation are found out after the client has come.
OciObjectStorage ==
  LET Client == Then("client", "open")
  IN  Managed({<<Client, Then("call", "open")>>,
               <<Client, Then("read", "open"), Then("call", "open")>>,
               <<Client, On("call"), Then("read", "open")>>,
               <<Client, On("call"), Then("read", "open"), Then("write", "open")>>,
               <<Then("client", "refuse")>>})

\* An endpoint of the message's own gets a client of its own.
OciFunctionsInvoke ==
  Managed({<<On(c), On("call"), Then("read", "open")>> : c \in {"client", "own client"}})

------------------------------------------------------------------------------
(* OCI: nodes that only remember that they are closed.  Their client        *)
(* belongs to a configuration node.                                         *)

Operation(paths) == Handler({"quiet"}, TRUE, "config", paths)

Quietly(a) == <<Then(a, "quiet"), Then("call", "quiet")>>

OciApiRequest == Operation({Quietly("provider")})
OciStreamingOut == Operation({Quietly("client")})
OciQueueOut == Operation({Quietly("client")})
OciQueueAck == Operation({Quietly("client")})
OciKafkaProducer == Operation({Quietly("producer")})

------------------------------------------------------------------------------
Handlers ==
  [create_asset |-> CreateAsset, create_meter_reading |-> CreateMeterReading,
   subinventory_quantity_transfer |-> SubinventoryQuantityTransfer,
   misc_transaction |-> MiscTransaction, delete_transaction |-> DeleteTransaction,
   get_ib_asset |-> GetInstalledBaseAsset, get_organization_id |-> GetOrganizationId,
   get_meter_reading |-> GetMeterReading, scm_lookup |-> ScmLookup,
   maintenance_work_order |-> MaintenanceWorkOrder,
   manufacturing_work_order |-> ManufacturingWorkOrder,
   work_order_child |-> WorkOrderChild,
   manufacturing_production_transaction |-> ManufacturingProductionTransaction,
   smo_event |-> SmoEvent, fusion_request |-> FusionRequest,
   oci_notification |-> OciNotification, oci_logging |-> OciLogging,
   oci_log_analytics |-> OciLogAnalytics, iot_get_content |-> IotGetContent,
   iot_send_command |-> IotSendCommand,
   iot_update_relationship |-> IotUpdateRelationship,
   oci_object_storage |-> OciObjectStorage,
   oci_functions_invoke |-> OciFunctionsInvoke,
   oci_api_request |-> OciApiRequest, oci_streaming_out |-> OciStreamingOut,
   oci_queue_out |-> OciQueueOut, oci_queue_ack |-> OciQueueAck,
   oci_kafka_producer |-> OciKafkaProducer]

\* Nodes that look whether they are closed.
Careful == {k \in DOMAIN Handlers :
              Handlers[k].owner # "none" \/ Handlers[k].start # {}}
==============================================================================
