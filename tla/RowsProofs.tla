----------------------------- MODULE RowsProofs -----------------------------
(***************************************************************************)
(* transform(), get_schema(), validate() and the table of ClickHouse fit   *)
(* one another: a row that is accepted can be stored exactly when the      *)
(* columns of text come from a text or from nothing.                       *)
(***************************************************************************)
EXTENDS Rows, TLAPS

\* The rule of transform() for a column is one that gives values of its type.
RulesFit(c) ==
    /\ Schema(c).string \subseteq
         Rules(c).key \cup Rules(c).get \cup Rules(c).orNone
    /\ Schema(c).integer \subseteq Rules(c).integer
    /\ Schema(c).float \subseteq Rules(c).zero
    /\ Schema(c).datetime \subseteq
         Rules(c).date \cup Rules(c).epoch \cup Rules(c).now

\* No column has two rules.
RulesApart(c) ==
    \A rule, other \in Rule : \A col \in Rules(c)[rule] :
        col \in Rules(c)[other] => other = rule

\* The columns of a schema, one by one.
LEMMA SchemasFit == \A c \in ConnectorName : RulesFit(c)
<1>1. RulesFit("razorpay_orders")
  BY DEF RulesFit, Schema, Rules, OrderSchema, OrderRules
<1>2. RulesFit("razorpay_customers")
  BY DEF RulesFit, Schema, Rules, CustomerSchema, CustomerRules
<1>3. RulesFit("kapture_tickets")
  BY DEF RulesFit, Schema, Rules, TicketSchema, TicketRules
<1> QED
  BY <1>1, <1>2, <1>3 DEF ConnectorName

\* The rules of a connector, two by two.
LEMMA RulesDisjoint == \A c \in ConnectorName : RulesApart(c)
<1>1. RulesApart("razorpay_orders")
  BY DEF RulesApart, Rules, OrderRules, Rule
<1>2. RulesApart("razorpay_customers")
  BY DEF RulesApart, Rules, CustomerRules, Rule
<1>3. RulesApart("kapture_tickets")
  BY SMTT(60) DEF RulesApart, Rules, TicketRules, Rule
<1> QED
  BY <1>1, <1>2, <1>3 DEF ConnectorName

\* The value of a column that has a rule.
LEMMA TransformBy ==
    ASSUME NEW c \in ConnectorName, NEW source, NEW rule \in Rule,
           NEW col \in Rules(c)[rule]
    PROVE  /\ col \in DOMAIN Transform(c, source)
           /\ Transform(c, source)[col] = Convert(rule, source[col])
<1>1. RuleOf(c, col) = rule
  BY RulesDisjoint DEF RulesApart, RuleOf
<1>2. col \in Keys(c)
  BY DEF Keys
<1> QED
  BY <1>1, <1>2 DEF Transform

\* What validate() lets through, ClickHouse takes if and only if its columns of
\* text come from a text or from nothing. Missing values are in nullable columns,
\* and numbers and dates have the type of their column or are missing; but nothing
\* keeps a number, a dict or a list out of a column of text, not even an empty
\* list where Razorpay has no notes (customers_connector.py, "notes").
THEOREM AcceptedFits ==
    ASSUME NEW c \in ConnectorName, NEW source \in [Keys(c) -> Shape],
           ~Raises(c, source), Validate(c, Transform(c, source))
    PROVE  Storable(c, Transform(c, source)) <=> Textual(c, source)
<1> DEFINE row == Transform(c, source)
<1>1. ASSUME NEW rule \in Rule, NEW col \in Rules(c)[rule]
      PROVE  /\ col \in DOMAIN row
             /\ row[col] = Convert(rule, source[col])
             /\ row[col] # "raises"
             /\ source[col] \in Shape
  <2>1. col \in Keys(c)
    BY DEF Keys
  <2>2. RuleOf(c, col) = rule
    BY RulesDisjoint DEF RulesApart, RuleOf
  <2> QED
    BY <2>1, <2>2, TransformBy DEF Raises
<1>2. ASSUME NEW col \in DOMAIN row, row[col] = "none" PROVE Nullable(c, col)
  BY <1>2 DEF Validate, Nullable
<1> HIDE DEF row
<1> DEFINE Wanted(col) ==
      source[col] \in IF col \in Rules(c).orNone
                      THEN Shape \ {"number", "object"}
                      ELSE Shape \ {"number", "zero", "object", "hollow"}
<1>3. ASSUME NEW col \in Schema(c).string
      PROVE  /\ col \in DOMAIN row
             /\ row[col] \in {"text", "none"} <=> Wanted(col)
  <2>1. CASE col \in Rules(c).orNone
    BY <1>1, <2>1 DEF Convert, Plain, Shape, Falsy, Rule
  <2>2. CASE col \notin Rules(c).orNone
    <3>1. PICK rule \in {"key", "get"} : col \in Rules(c)[rule]
      BY <2>2, SchemasFit DEF RulesFit
    <3>2. rule \in Rule
      BY DEF Rule
    <3> QED
      BY <1>1, <2>2, <3>1, <3>2 DEF Convert, Plain, Shape
  <2> QED
    BY <2>1, <2>2
<1>4. ASSUME NEW col \in Schema(c).integer
      PROVE  col \in DOMAIN row /\ row[col] \in {"integer", "none"}
  <2>1. col \in Rules(c)["integer"] /\ "integer" \in Rule
    BY SchemasFit DEF RulesFit, Rule
  <2> QED
    BY <1>1, <2>1 DEF Convert
<1>5. ASSUME NEW col \in Schema(c).float
      PROVE  col \in DOMAIN row /\ row[col] = "float"
  <2>1. col \in Rules(c)["zero"] /\ "zero" \in Rule
    BY SchemasFit DEF RulesFit, Rule
  <2> QED
    BY <1>1, <2>1 DEF Convert
<1>6. ASSUME NEW col \in Schema(c).datetime
      PROVE  col \in DOMAIN row /\ row[col] \in {"datetime", "none"}
  <2>1. PICK rule \in {"date", "epoch", "now"} : col \in Rules(c)[rule]
    BY SchemasFit DEF RulesFit
  <2>2. rule \in Rule
    BY DEF Rule
  <2> QED
    BY <1>1, <2>1, <2>2 DEF Convert, Shape
<1> DEFINE Fits(type, col) ==
      /\ col \in DOMAIN row
      /\ \/ row[col] \in Writes(MapType[type])
         \/ row[col] = "none" /\ Nullable(c, col)
<1>7. ASSUME NEW type \in Type \ {"string"}, NEW col \in Schema(c)[type]
      PROVE  Fits(type, col)
  <2>1. CASE type = "integer"
    BY <1>2, <1>4, <2>1 DEF Writes, MapType
  <2>2. CASE type = "float"
    BY <1>5, <2>2 DEF Writes, MapType
  <2>3. CASE type = "datetime"
    BY <1>2, <1>6, <2>3 DEF Writes, MapType
  <2> QED
    BY <2>1, <2>2, <2>3 DEF Type
<1>8. ASSUME NEW col \in Schema(c).string
      PROVE  Fits("string", col) <=> Wanted(col)
  BY <1>2, <1>3 DEF Writes, MapType
<1> HIDE DEF Wanted, Fits
<1>9. (\A type \in Type : \A col \in Schema(c)[type] : Fits(type, col))
        <=> \A col \in Schema(c).string : Wanted(col)
  BY <1>7, <1>8 DEF Type
<1> QED
  BY <1>9 DEF Storable, Textual, row, Fits, Wanted
=============================================================================
