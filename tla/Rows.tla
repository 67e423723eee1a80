--------------------------------- MODULE Rows ---------------------------------
(***************************************************************************)
(* From a record of a source API to a row of ClickHouse: transform(),      *)
(* get_schema() and validate() of the three connectors, and the table that *)
(* the destination makes of a schema.  A field of a source record is told  *)
(* apart by its shape, a value of a row by its Python type.  The fields of *)
(* the nested objects of a ticket count as fields of the record.           *)
(***************************************************************************)

ConnectorName == {"razorpay_orders", "razorpay_customers", "kapture_tickets"}

\* "usual" is the text, number or date that a connector expects of the field,
\* "empty" the empty text, "garbled" a text where a number or a date is expected,
\* "number" a number or True where a text or a date is, "zero" 0 or False,
\* "object" a dict or list with something in it, "hollow" one that is empty.
Shape == {"usual", "absent", "null", "empty", "garbled", "number", "zero",
          "object", "hollow"}

\* What "or" passes over, besides null.
Falsy == {"empty", "zero", "hollow"}

-----------------------------------------------------------------------------
\* transform(): the columns of a row, by what is done with the field.

OrderRules ==
    [key |-> {"id", "currency", "status"}, get |-> {"receipt"}, orNone |-> {},
     zero |-> {"amount", "amount_paid", "amount_due"}, integer |-> {},
     date |-> {}, epoch |-> {"created_at"}, now |-> {"_extracted_at"}]

CustomerRules ==
    [key |-> {"id", "contact"}, get |-> {"name", "email", "gstin", "notes"},
     orNone |-> {}, zero |-> {}, integer |-> {}, date |-> {},
     epoch |-> {"created_at"}, now |-> {"_extracted_at"}]

TicketRules ==
    [key |-> {}, zero |-> {}, epoch |-> {}, now |-> {"_extracted_at"},
     get |-> {"ticket_id", "task_id", "task_title", "status", "sub_status",
              "priority", "source_type", "create_source_type",
              "create_reason", "ftr", "ticket_url"},
     orNone |-> {"tat", "sla", "landing_folder", "disposed_folder",
                 "folder_level_1", "folder_level_2", "folder_level_3",
                 "current_queue", "landing_queue", "dispose_by",
                 "first_response_by", "last_response_by", "first_assign_emp",
                 "first_response_time", "avg_agent_response_time",
                 "avg_handling_time", "time_to_resolve", "email", "phone",
                 "customer_name", "customer_code", "contact_name",
                 "contact_email", "contact_phone"},
     integer |-> {"reopen_count", "dispose_count",
                  "customer_interaction_count", "agent_interaction_count",
                  "total_interaction_count", "conversation_count"},
     date |-> {"created_at", "last_conversation_at"}]

Rules(c) == CASE c = "razorpay_orders" -> OrderRules
              [] c = "razorpay_customers" -> CustomerRules
              [] c = "kapture_tickets" -> TicketRules

Rule == {"key", "get", "orNone", "zero", "integer", "date", "epoch", "now"}

Keys(c) == UNION {Rules(c)[rule] : rule \in Rule}

\* record.get(): nothing, a text, or what a column of text does not take.
Plain(shape) == CASE shape \in {"absent", "null"} -> "none"
                  [] shape \in {"usual", "empty", "garbled"} -> "text"
                  [] shape \in {"number", "zero"} -> "number"
                  [] shape \in {"object", "hollow"} -> "object"

\* _none_to_zero, _parse_dt, _to_int, datetime.fromtimestamp and record[...]
\* raise, or give nothing, where the field is not what they expect.
Convert(rule, shape) ==
    CASE rule = "key" -> IF shape = "absent" THEN "raises" ELSE Plain(shape)
      [] rule = "get" -> Plain(shape)
      [] rule = "orNone" -> IF shape \in Falsy THEN "none" ELSE Plain(shape)
      [] rule = "zero" ->
           IF shape \in {"usual", "absent", "null", "number", "zero"}
           THEN "float" ELSE "raises"
      [] rule = "integer" ->
           IF shape \in {"usual", "number", "zero"} THEN "integer" ELSE "none"
      [] rule = "date" -> CASE shape = "usual" -> "datetime"
                            [] shape \in {"number", "object"} -> "raises"
                            [] OTHER -> "none"
      [] rule = "epoch" ->
           IF shape \in {"usual", "number", "zero"} THEN "datetime" ELSE "raises"
      [] rule = "now" -> "datetime"

RuleOf(c, col) == CHOOSE rule \in Rule : col \in Rules(c)[rule]

Transform(c, source) ==
    [col \in Keys(c) |-> Convert(RuleOf(c, col), source[col])]

Raises(c, source) ==
    \E col \in Keys(c) : Convert(RuleOf(c, col), source[col]) = "raises"

-----------------------------------------------------------------------------
\* get_schema(): the columns of a table by their type, and the required ones.

OrderSchema ==
    [string |-> {"id", "currency", "receipt", "status"}, integer |-> {},
     float |-> {"amount", "amount_paid", "amount_due"},
     datetime |-> {"created_at", "_extracted_at"},
     required |-> {"id", "amount", "currency", "status", "created_at",
                   "_extracted_at"}]

CustomerSchema ==
    [string |-> {"id", "name", "contact", "email", "gstin", "notes"},
     integer |-> {}, float |-> {}, datetime |-> {"created_at", "_extracted_at"},
     required |-> {"id", "created_at", "_extracted_at"}]

TicketSchema ==
    [string |-> {"ticket_id", "task_id", "task_title", "status", "sub_status",
                 "priority", "tat", "sla", "source_type", "create_source_type",
                 "create_reason", "landing_folder", "disposed_folder",
                 "folder_level_1", "folder_level_2", "folder_level_3",
                 "current_queue", "landing_queue", "dispose_by",
                 "first_response_by", "last_response_by", "first_assign_emp",
                 "ftr", "first_response_time", "avg_agent_response_time",
                 "avg_handling_time", "time_to_resolve", "ticket_url", "email",
                 "phone", "customer_name", "customer_code", "contact_name",
                 "contact_email", "contact_phone"},
     integer |-> {"reopen_count", "dispose_count",
                  "customer_interaction_count", "agent_interaction_count",
                  "total_interaction_count", "conversation_count"},
     float |-> {}, required |-> {"ticket_id", "_extracted_at"},
     datetime |-> {"created_at", "last_conversation_at", "_extracted_at"}]

Schema(c) == CASE c = "razorpay_orders" -> OrderSchema
               [] c = "razorpay_customers" -> CustomerSchema
               [] c = "kapture_tickets" -> TicketSchema

Type == {"string", "integer", "float", "datetime"}

Columns(c) == UNION {Schema(c)[type] : type \in Type}

\* required_column_names() are not None.
Validate(c, row) ==
    \A col \in Schema(c).required : col \in DOMAIN row /\ row[col] # "none"

-----------------------------------------------------------------------------
\* The table: CREATE TABLE ... ORDER BY (id), columns Nullable unless required.

Loadable(c) == "id" \in Columns(c)

MapType == [string |-> "String", integer |-> "Int64", float |-> "Float64",
            datetime |-> "DateTime"]

\* What clickhouse_driver writes into a column of a type.
Writes(chType) == CASE chType = "String" -> {"text"}
                    [] chType = "Int64" -> {"integer"}
                    [] chType = "Float64" -> {"float", "integer"}
                    [] chType = "DateTime" -> {"datetime"}

\* Mutation of Nullable: the columns that are required are Nullable.
NullableSwapped(c, col) == col \in Schema(c).required

Nullable(c, col) == col \notin Schema(c).required

\* _execute_batch_insert takes every column of the schema out of the row.
Storable(c, row) ==
    \A type \in Type : \A col \in Schema(c)[type] :
        /\ col \in DOMAIN row
        /\ \/ row[col] \in Writes(MapType[type])
           \/ row[col] = "none" /\ Nullable(c, col)

-----------------------------------------------------------------------------
\* Which records fit

\* The columns of text have a text or nothing in the source; only where
\* transform() has "or None" may they have 0, False or an empty dict or list.
Textual(c, source) ==
    \A col \in Schema(c).string :
        source[col] \in IF col \in Rules(c).orNone
                        THEN Shape \ {"number", "object"}
                        ELSE Shape \ {"number", "zero", "object", "hollow"}
=============================================================================
