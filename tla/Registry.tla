------------------------------ MODULE Registry ------------------------------
(***************************************************************************)
(* The registry of connectors: which configuration each connector and each *)
(* source takes, and which connectors a source has.  Three tables that are *)
(* edited together or not.                                                 *)
(***************************************************************************)

CONSTANT Environment    \* fields that the environment sets (.env included)

\* _REGISTRY: connector name -> configuration
Connectors ==
    [razorpay_orders    |-> "RazorpaySourceConfig",
     razorpay_customers |-> "RazorpaySourceConfig",
     kapture_tickets    |-> "KaptureSourceConfig"]

\* _SOURCE_REGISTRY: source name -> configuration of its representative
Sources == [razorpay |-> "RazorpaySourceConfig", kapture |-> "KaptureSourceConfig"]

\* Mutation of SourceConnectors: a source that was not added to all tables.
SourceConnectorsPartial == [razorpay |-> {"razorpay_orders", "razorpay_customers"}]

\* _SOURCE_CONNECTORS
SourceConnectors ==
    [razorpay |-> {"razorpay_orders", "razorpay_customers"},
     kapture  |-> {"kapture_tickets"}]

\* The fields without a default.
Required ==
    [RazorpaySourceConfig |-> {"api_key", "api_secret"},
     KaptureSourceConfig  |-> {"subdomain", "token"}]

\* A configuration can be made of these fields. What they leave out is taken from
\* the environment.
Configures(config, fields) == Required[config] \subseteq fields \cup Environment

\* build_from_credentials
Build(source, fields) ==
    IF source \notin DOMAIN Sources THEN "KeyError"
    ELSE IF Configures(Sources[source], fields) THEN "connector"
    ELSE "ValidationError"

\* get_schemas_for_source
GetSchemas(source, fields) ==
    IF source \notin DOMAIN SourceConnectors THEN "KeyError"
    ELSE IF \A name \in SourceConnectors[source] : Configures(Connectors[name], fields)
         THEN "tables"
    ELSE "ValidationError"
=============================================================================
