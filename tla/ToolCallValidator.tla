------------------------- MODULE ToolCallValidator -------------------------
(***************************************************************************)
(* What the language model asks a tool to do is checked against the tool's *)
(* schema and cleaned before the tool is called                            *)
(* (ToolCallValidator.validate).  Everything here is a pure operator.      *)
(*                                                                         *)
(* A value of JSON is a record with its type.  A string has a length, and  *)
(* what str.strip() leaves of it; a number has its amount, and NaN, which  *)
(* is neither below nor above any bound, has none; of an array only the    *)
(* kinds of its items matter.                                              *)
(***************************************************************************)
EXTENDS Integers, FiniteSets

CONSTANTS
    Strict,        \* TOOL_VALIDATION_STRICT
    MaxArguments   \* TOOL_VALIDATION_MAX_ARGUMENTS

ASSUME ValidatorAssumption == Strict \in BOOLEAN /\ MaxArguments \in Nat

Padded(text, length, inner, innerLength) ==
    [type |-> "string", text |-> text, length |-> length,
     strip |-> [text |-> inner, length |-> innerLength]]
Text(text, length) == Padded(text, length, text, length)
Number(type, amount) == [type |-> type, amounts |-> {amount}]
NaN == [type |-> "float", amounts |-> {}]
Boolean == [type |-> "boolean"]
Null == [type |-> "null"]
Array(items) == [type |-> "array", items |-> items]

Actions == {"add", "remove", "update"}

\* str.strip() makes no string longer and leaves the names of the actions as they are.
Strippable(value) ==
    value.type = "string" =>
        /\ value.length \in Nat /\ value.strip.length \in 0..value.length
        /\ value.text \in Actions => value.strip.text = value.text

-----------------------------------------------------------------------------
\* A parameter: the values allowed for a string, if they are enumerated, the range of a
\* number, and the lengths of a string.
Parameter(type, required, allowed, range, lengths) ==
    [type |-> type, required |-> required,
     allowed |-> allowed, range |-> range, lengths |-> lengths]

TextParameter(required, lengths) == Parameter("string", required, {}, Int, lengths)
NumberParameter(type, range) == Parameter(type, TRUE, {}, range, Nat)

\* Bounds that have a name because the provers expand numerals.
Million == 1000000
FiveThousand == 5000

UpdateCart ==
    [restaurant_id |-> TextParameter(TRUE, 1..255),
     session_id    |-> TextParameter(TRUE, 1..255),
     action        |-> Parameter("string", TRUE, Actions, Int, Nat),
     dish_id       |-> NumberParameter("integer", 1..Million),
     quantity      |-> NumberParameter("integer", 1..1000),
     notes         |-> TextParameter(FALSE, 0..FiveThousand),
     addons        |-> Parameter("array", FALSE, {}, Int, Nat)]

ValidateOfferCode ==
    [restaurant_id |-> TextParameter(TRUE, 1..255),
     session_id    |-> TextParameter(TRUE, 1..255),
     code          |-> TextParameter(TRUE, 1..100),
     subtotal      |-> NumberParameter("number", 0..Million)]

Schemas == [update_cart |-> UpdateCart, validate_offer_code |-> ValidateOfferCode]

-----------------------------------------------------------------------------
\* _check_type; in Python True is an int, so that booleans are told apart.
HasType(value, type) ==
    value.type \in IF type = "number" THEN {"integer", "float"} ELSE {type}

Allowed(text, param) == param.allowed = {} \/ text \in param.allowed

\* Type, enumeration, range and length of a declared argument, before it is stripped.
ValueOK(value, param) ==
    /\ HasType(value, param.type)
    /\ value.type = "string" => Allowed(value.text, param) /\ value.length \in param.lengths
    /\ value.type \in {"integer", "float"} => value.amounts \subseteq param.range

\* validate finds no error.
Accepts(tool, args) ==
    /\ tool \in DOMAIN Schemas
    /\ Cardinality(DOMAIN args) <= MaxArguments
    /\ \A name \in DOMAIN Schemas[tool] :
          IF name \in DOMAIN args THEN ValueOK(args[name], Schemas[tool][name])
                                  ELSE ~Schemas[tool][name].required
    /\ tool = "update_cart" /\ "addons" \in DOMAIN args => "withoutId" \notin args.addons.items

Strip(value) ==
    IF value.type = "string" THEN Text(value.strip.text, value.strip.length) ELSE value

\* Mutant of Sanitized: unknown arguments are passed on in strict mode, too.
SanitizedKeepsUnknown(tool, args) ==
    [name \in DOMAIN args |->
        IF name \in DOMAIN Schemas[tool] THEN Strip(args[name]) ELSE args[name]]

\* sanitized_arguments of an accepted call: what is not declared is dropped in strict
\* mode, strings are stripped.  (Numbers and long strings are also cut to their
\* bounds, but then the call is not accepted.)
Sanitized(tool, args) ==
    LET declared == DOMAIN args \cap DOMAIN Schemas[tool] IN
    [name \in IF Strict THEN declared ELSE DOMAIN args |->
        IF name \in declared THEN Strip(args[name]) ELSE args[name]]

-----------------------------------------------------------------------------
\* What a tool may rely on: exactly the declared arguments, of the declared types and
\* values, strings without padding and no longer than declared.  They may be shorter
\* than declared in one case: the length is checked before the string is stripped, so
\* that a blank string becomes an empty one.
Conforms(tool, args) ==
    /\ tool \in DOMAIN Schemas
    /\ DOMAIN args \subseteq DOMAIN Schemas[tool]
    /\ \A name \in DOMAIN Schemas[tool] :
          Schemas[tool][name].required => name \in DOMAIN args
    /\ \A name \in DOMAIN args :
          LET value == args[name]
              param == Schemas[tool][name] IN
          /\ HasType(value, param.type)
          /\ value.type = "string" =>
                /\ Allowed(value.text, param)
                /\ value.strip.length = value.length
                /\ value.length \in param.lengths \cup {0}
          /\ value.type \in {"integer", "float"} => value.amounts \subseteq param.range
=============================================================================
