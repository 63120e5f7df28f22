-------------------------- MODULE CartTurn_proofs --------------------------
(***************************************************************************)
(* Theorems about tool calls and cart turns.  For any tool call: what the  *)
(* validator accepts conforms to the tool's schema once it has been        *)
(* cleaned.  For any number of connections, attempts, turns and function   *)
(* calls of the model: tools are called with valid arguments only, a turn  *)
(* changes the cart at most once, and what was confirmed in a turn was     *)
(* done for it; the record of a turn that was answered is there and is not *)
(* undone by an earlier turn, unless turns of the session ran at the same  *)
(* time, and neither is the cart snapshot.                                 *)
(***************************************************************************)
EXTENDS CartTurn, FiniteSetTheorems, TLAPS

-----------------------------------------------------------------------------
(* The validator.                                                          *)

\* The lengths a schema declares reach down to 1 at least, so that stripping a string
\* leaves it within them, or empty; and what it enumerates are the actions.
LEMMA SchemasAllowStripping ==
    ASSUME NEW tool \in DOMAIN Schemas, NEW name \in DOMAIN Schemas[tool]
    PROVE  /\ \A n \in Schemas[tool][name].lengths : \A k \in 1..n :
                 k \in Schemas[tool][name].lengths
           /\ Schemas[tool][name].allowed \in {{}, Actions}
<1> DEFINE Good(p) ==
        /\ \A n \in p.lengths : \A k \in 1..n : k \in p.lengths
        /\ p.allowed \in {{}, Actions}
<1>1. CASE tool = "update_cart"
  <2>1. Schemas[tool] = UpdateCart
    BY <1>1 DEF Schemas
  <2>2. name \in {"restaurant_id", "session_id", "action", "dish_id", "quantity", "notes", "addons"}
    BY <2>1 DEF UpdateCart
  <2>3. Good(UpdateCart.restaurant_id)
    BY DEF UpdateCart, TextParameter, NumberParameter, Parameter
  <2>4. Good(UpdateCart.session_id)
    BY DEF UpdateCart, TextParameter, NumberParameter, Parameter
  <2>5. Good(UpdateCart.action)
    BY DEF UpdateCart, TextParameter, NumberParameter, Parameter
  <2>6. Good(UpdateCart.dish_id)
    BY DEF UpdateCart, TextParameter, NumberParameter, Parameter
  <2>7. Good(UpdateCart.quantity)
    BY DEF UpdateCart, TextParameter, NumberParameter, Parameter
  <2>8. Good(UpdateCart.notes)
    <3>1. FiveThousand \in Nat
      BY DEF FiveThousand
    <3> QED BY <3>1 DEF UpdateCart, TextParameter, Parameter
  <2>9. Good(UpdateCart.addons)
    BY DEF UpdateCart, TextParameter, NumberParameter, Parameter
  <2> HIDE DEF Good
  <2>q. Good(UpdateCart[name])
    BY <2>2, <2>3, <2>4, <2>5, <2>6, <2>7, <2>8, <2>9
  <2> QED BY <2>1, <2>q DEF Good
<1>2. CASE tool = "validate_offer_code"
  <2>1. Schemas[tool] = ValidateOfferCode
    BY <1>2 DEF Schemas
  <2>2. name \in {"restaurant_id", "session_id", "code", "subtotal"}
    BY <2>1 DEF ValidateOfferCode
  <2>3. Good(ValidateOfferCode.restaurant_id)
    BY DEF ValidateOfferCode, TextParameter, NumberParameter, Parameter
  <2>4. Good(ValidateOfferCode.session_id)
    BY DEF ValidateOfferCode, TextParameter, NumberParameter, Parameter
  <2>5. Good(ValidateOfferCode.code)
    BY DEF ValidateOfferCode, TextParameter, NumberParameter, Parameter
  <2>6. Good(ValidateOfferCode.subtotal)
    BY DEF ValidateOfferCode, TextParameter, NumberParameter, Parameter
  <2> HIDE DEF Good
  <2>q. Good(ValidateOfferCode[name])
    BY <2>2, <2>3, <2>4, <2>5, <2>6
  <2> QED BY <2>1, <2>q DEF Good
<1> QED BY <1>1, <1>2 DEF Schemas

\* Stripping keeps the type of a value.
LEMMA StripKeepsType ==
    ASSUME NEW value
    PROVE  /\ Strip(value).type = value.type
           /\ value.type # "string" => Strip(value) = value
           /\ value.type = "string" =>
                 /\ Strip(value).text = value.strip.text
                 /\ Strip(value).length = value.strip.length
                 /\ Strip(value).strip.length = value.strip.length
  BY DEF Strip, Text, Padded

\* In strict mode the tool gets the declared arguments and no others, each as declared.
THEOREM SanitizedConforms ==
    ASSUME Strict, NEW tool, NEW args, Accepts(tool, args),
           \A name \in DOMAIN args : Strippable(args[name])
    PROVE  Conforms(tool, Sanitized(tool, args))
<1> DEFINE schema == Schemas[tool]
           clean == Sanitized(tool, args)
<1>1. tool \in DOMAIN Schemas
  BY DEF Accepts
<1>2. /\ DOMAIN clean = DOMAIN args \cap DOMAIN schema
      /\ \A name \in DOMAIN clean : clean[name] = Strip(args[name])
  BY DEF Sanitized
<1>3. \A name \in DOMAIN schema : schema[name].required => name \in DOMAIN clean
  BY <1>2 DEF Accepts
<1>4. ASSUME NEW name \in DOMAIN clean
      PROVE  /\ HasType(clean[name], schema[name].type)
             /\ clean[name].type = "string" =>
                   /\ Allowed(clean[name].text, schema[name])
                   /\ clean[name].strip.length = clean[name].length
                   /\ clean[name].length \in schema[name].lengths \cup {0}
             /\ clean[name].type \in {"integer", "float"} =>
                   clean[name].amounts \subseteq schema[name].range
  <2> DEFINE value == args[name]
             param == schema[name]
  <2>1. clean[name] = Strip(value) /\ Strippable(value) /\ name \in DOMAIN schema
    BY <1>2
  <2>2. ValueOK(value, param)
    BY <1>2 DEF Accepts
  <2>3. HasType(clean[name], param.type)
    BY <2>1, <2>2, StripKeepsType DEF ValueOK, HasType
  <2>4. ASSUME clean[name].type = "string"
        PROVE  /\ Allowed(clean[name].text, param)
               /\ clean[name].strip.length = clean[name].length
               /\ clean[name].length \in param.lengths \cup {0}
    <3>1. /\ value.type = "string"
          /\ clean[name].text = value.strip.text
          /\ clean[name].length = value.strip.length
          /\ clean[name].strip.length = value.strip.length
      BY <2>1, <2>4, StripKeepsType
    <3>2. /\ value.length \in Nat /\ value.strip.length \in 0..value.length
          /\ value.text \in Actions => value.strip.text = value.text
      BY <2>1, <3>1 DEF Strippable
    <3>3. Allowed(value.text, param) /\ value.length \in param.lengths
      BY <2>2, <3>1 DEF ValueOK
    <3>4. /\ \A n \in param.lengths : \A k \in 1..n : k \in param.lengths
          /\ param.allowed \in {{}, Actions}
      BY <1>1, <2>1, SchemasAllowStripping
    <3>5. Allowed(value.strip.text, param)
      BY <3>2, <3>3, <3>4 DEF Allowed
    <3>6. value.strip.length \in param.lengths \cup {0}
      BY <3>2, <3>3, <3>4
    <3> QED BY <3>1, <3>5, <3>6
  <2>5. ASSUME clean[name].type \in {"integer", "float"}
        PROVE  clean[name].amounts \subseteq param.range
    BY <2>1, <2>2, <2>5, StripKeepsType DEF ValueOK
  <2> QED BY <2>3, <2>4, <2>5
<1> QED BY <1>1, <1>2, <1>3, <1>4 DEF Conforms

-----------------------------------------------------------------------------
(* Changes of the cart.                                                    *)

Keys == applied \cup inTransit

\* A turn id is held by one connection, and is not reused.
TurnIdsUnique ==
    /\ \A c \in Conns : turn[c] <= turns
    /\ \A c \in Conns : pc[c] # "idle" => turn[c] # 0
    /\ \A c \in Conns : turn[c] # 0 => order[c] # 0
    /\ \A c1, c2 \in Conns : turn[c1] = turn[c2] /\ turn[c1] # 0 => c1 = c2

\* The requests of a turn, sent or yet to be sent, have one key: while the turn
\* runs its order does not change, and afterwards its id is not given out again.
KeysOfTurns ==
    /\ \A k \in Keys : k[1] <= turns
    /\ \A k \in Keys, c \in Conns : turn[c] = k[1] => order[c] = k[2]
    /\ \A k1, k2 \in Keys : k1[1] = k2[1] => k1 = k2

Inv == TypeOK /\ TurnIdsUnique /\ KeysOfTurns /\ OnlyValidSent /\ ConfirmedIsApplied

\* The tools are those the validator knows, the model's calls are made of strings that
\* behave, and the validator is strict, as it is by default: otherwise an argument
\* called turn_id would take the place of the turn's own id.
Assumptions == TurnAssumption /\ CallsAssumption /\ Strict

-----------------------------------------------------------------------------
\* The backend's cart is finite, so the number of changes made to it is a number.
LEMMA CartIsFinite ==
    ASSUME TurnAssumption, NEW S \in SUBSET (Turns \X Orders)
    PROVE  Cardinality(S) \in Nat
<1>1. IsFiniteSet(1..MaxTurns)
  BY FS_Interval DEF TurnAssumption
<1>2. IsFiniteSet(Turns \X Orders)
  BY <1>1, FS_Product DEF Turns, Orders
<1>3. IsFiniteSet(S)
  BY <1>2, FS_Subset
<1> QED BY <1>3, FS_CardinalityType

\* Before the first message nothing was sent, applied or confirmed.
LEMMA InitInv == ASSUME Assumptions PROVE Init => Inv
<1> SUFFICES ASSUME Init PROVE Inv
  OBVIOUS
<1>1. TypeOK
  BY DEF Assumptions, TurnAssumption, Init, TypeOK, NoMetadata, Turns, Orders
<1>2. TurnIdsUnique /\ KeysOfTurns
  BY <1>1 DEF Init, TurnIdsUnique, KeysOfTurns, Keys
<1>3. OnlyValidSent /\ ConfirmedIsApplied
  BY DEF Init, OnlyValidSent, ConfirmedIsApplied
<1> QED BY <1>1, <1>2, <1>3 DEF Inv

\* What is sent conforms to the schema of its tool and leaves the turn its own id.
LEMMA CleanedConforms ==
    ASSUME Assumptions, NEW call \in Calls, Executable(call)
    PROVE  /\ Conforms(Cleaned(call).tool, Cleaned(call).args)
           /\ "turn_id" \notin DOMAIN Cleaned(call).args
<1> DEFINE given == WithIds(call.args)
<1>1. \A name \in DOMAIN given : Strippable(given[name])
  <2>1. Strippable(OwnId)
    BY DEF Strippable, OwnId, Text, Padded
  <2> QED BY <2>1 DEF Assumptions, CallsAssumption, WithIds
<1>2. Accepts(call.tool, given)
  BY DEF Executable
<1>3. Conforms(call.tool, Sanitized(call.tool, given))
  BY <1>1, <1>2, SanitizedConforms DEF Assumptions
<1>4. call.tool \in {"update_cart", "validate_offer_code"}
  BY <1>2 DEF Accepts, Schemas
<1>5. "turn_id" \notin DOMAIN Schemas[call.tool]
  <2>1. "turn_id" \notin DOMAIN UpdateCart
    BY DEF UpdateCart
  <2>2. "turn_id" \notin DOMAIN ValidateOfferCode
    BY DEF ValidateOfferCode
  <2> QED BY <1>4, <2>1, <2>2 DEF Schemas
<1> QED BY <1>3, <1>5 DEF Cleaned, Conforms

\* A new turn has an id above all others, so no key carries it yet.
LEMMA SayInv ==
    ASSUME Assumptions, Inv, NEW c \in Conns, Say(c)
    PROVE  Inv'
<1> USE DEF Inv
<1>1. /\ turns \in Nat /\ turns' = turns + 1 /\ turns' \in Turns
      /\ MaxTurns \in Nat
  BY DEF Say, TypeOK, Turns, Assumptions, TurnAssumption
<1>2. turn' = [turn EXCEPT ![c] = turns'] /\ turn \in [Conns -> 0..MaxTurns]
  BY DEF Say, TypeOK
<1>3. order' \in [Conns -> 0..MaxTurns] /\ \A d \in Conns \ {c} : order'[d] = order[d]
  BY <1>1 DEF Say, TypeOK, Turns
<1>4. UNCHANGED <<sent, attempts, cart, read, inTransit, applied, confirmed, lastUser,
                  lastAssistant, metadata, history, snapshot, answers>>
  BY DEF Say, backend, local, record
<1>5. TypeOK'
  <2>1. turn' \in [Conns -> 0..MaxTurns]
    BY <1>1, <1>2 DEF Turns
  <2>2. pc' = [pc EXCEPT ![c] = "model"]
    BY DEF Say, Go
  <2>3. turns' \in 0..MaxTurns
    BY <1>1 DEF Turns
  <2>4. overlapped' \subseteq 0..MaxTurns
    <3>1. overlapped' \subseteq
            overlapped \cup {turns'} \cup {turn[d] : d \in {e \in Conns \ {c} : pc[e] # "idle"}}
      BY DEF Say
    <3>2. \A d \in Conns : turn[d] \in 0..MaxTurns
      BY <1>2
    <3> QED BY <2>3, <3>1, <3>2 DEF TypeOK
  <2> QED BY <1>3, <1>4, <2>1, <2>2, <2>3, <2>4 DEF TypeOK
<1>6. TurnIdsUnique'
  <2>1. \A d \in Conns : turn[d] \in Nat /\ turn[d] < turns'
    BY <1>1, <1>2 DEF TurnIdsUnique
  <2>2. order'[c] # 0
    <3>1. CASE order' = [order EXCEPT ![c] = turns']
      BY <3>1, <1>1 DEF TypeOK, Turns
    <3>2. CASE Disappointed(c) /\ UNCHANGED order
      BY <3>2, <1>1 DEF Disappointed, TypeOK, Turns, TurnIdsUnique
    <3> QED BY <3>1, <3>2 DEF Say
  <2>3. \A d \in Conns : pc'[d] # "idle" => d = c \/ pc[d] # "idle"
    BY DEF Say, Go, TypeOK
  <2> QED
    BY <1>1, <1>2, <1>3, <2>1, <2>2, <2>3 DEF TurnIdsUnique, Turns
<1>7. KeysOfTurns'
  <2>1. Keys' = Keys /\ Keys \subseteq Turns \X Orders
    BY <1>4 DEF Keys, TypeOK
  <2>2. \A k \in Keys : k[1] \in Nat /\ k[1] < turns'
    BY <1>1, <2>1 DEF KeysOfTurns, Turns
  <2>3. \A k \in Keys, d \in Conns : turn'[d] = k[1] => order'[d] = k[2]
    BY <1>1, <1>2, <1>3, <2>2 DEF KeysOfTurns
  <2> QED
    BY <2>1, <2>2, <2>3, <1>1 DEF KeysOfTurns, Turns
<1>8. ConfirmedIsApplied'
  BY <1>4 DEF ConfirmedIsApplied
<1>9. OnlyValidSent'
  BY <1>2, <1>4 DEF Say, Go, TypeOK, OnlyValidSent, TurnSent
<1> QED BY <1>5, <1>6, <1>7, <1>8, <1>9

\* A request of a running turn carries the only key there is for the turn.
LEMMA KeyIsTheTurns ==
    ASSUME Assumptions, Inv, NEW c \in Conns, pc[c] = "tool"
    PROVE  /\ Key(c) \in Turns \X Orders
           /\ Key(c)[1] = turn[c] /\ Key(c)[2] = order[c]
           /\ turn[c] \in Turns
           /\ \A k \in Keys : k[1] = turn[c] => k = Key(c)
<1>1. turn[c] \in Turns /\ order[c] \in Orders
  BY DEF Inv, TypeOK, TurnIdsUnique, Turns, Orders, Assumptions, TurnAssumption
<1>2. Keys \subseteq Turns \X Orders
  BY DEF Inv, TypeOK, Keys
<1>3. Key(c) = <<turn[c], order[c]>>
  BY DEF Inv, OnlyValidSent, Key
<1>4. \A k \in Keys : k[1] = turn[c] => k = Key(c)
  BY <1>2, <1>3 DEF Inv, KeysOfTurns
<1> QED BY <1>1, <1>3, <1>4

\* Adding that key to the requests on their way or to the cart keeps all keys apart.
LEMMA AddKey ==
    ASSUME Assumptions, Inv, NEW c \in Conns, pc[c] = "tool",
           UNCHANGED <<turn, order, turns>>, Keys' \subseteq Keys \cup {Key(c)}
    PROVE  KeysOfTurns'
<1>1. /\ Key(c)[1] = turn[c] /\ Key(c)[2] = order[c]
      /\ \A k \in Keys : k[1] = turn[c] => k = Key(c)
  BY KeyIsTheTurns
<1>2. /\ \A k \in Keys' : k[1] <= turns
      /\ \A k1, k2 \in Keys' : k1[1] = k2[1] => k1 = k2
  BY <1>1 DEF Inv, KeysOfTurns, TurnIdsUnique
<1>3. \A d \in Conns : turn[d] = turn[c] => order[d] = order[c]
  BY DEF Inv, TurnIdsUnique
<1>4. \A k \in Keys', d \in Conns : turn[d] = k[1] => order[d] = k[2]
  BY <1>1, <1>3 DEF Inv, KeysOfTurns
<1> QED BY <1>2, <1>4 DEF KeysOfTurns

\* Steps that send no request only move the turn along, and may record or answer it.
LEMMA QuietInv ==
    ASSUME Assumptions, Inv, TypeOK', NEW c \in Conns, pc[c] # "idle",
           \A d \in Conns \ {c} : pc'[d] = pc[d] /\ sent'[d] = sent[d],
           pc'[c] = "tool" => pc[c] = "tool" /\ sent'[c] = sent[c],
           UNCHANGED <<turn, order, turns, inTransit, applied, confirmed>>
    PROVE  Inv'
<1>1. TurnIdsUnique'
  BY DEF Inv, TurnIdsUnique
<1>2. KeysOfTurns' /\ ConfirmedIsApplied'
  BY DEF Inv, KeysOfTurns, Keys, ConfirmedIsApplied
<1>3. OnlyValidSent'
  BY DEF Inv, OnlyValidSent, TurnSent
<1> QED BY <1>1, <1>2, <1>3 DEF Inv

\* The end of a turn, whatever of its record it leaves behind.
LEMMA AnswerInv ==
    ASSUME Assumptions, Inv, NEW c \in Conns, pc[c] # "idle",
           NEW texts \in SUBSET {"text", "error"}, Answer(c, texts),
           UNCHANGED <<turn, order, turns, inTransit, applied, confirmed, overlapped>>,
           history' \subseteq history \cup {turn[c]},
           lastUser' \in 0..MaxTurns, lastAssistant' \in 0..MaxTurns,
           metadata' \in [lastTurn : 0..MaxTurns, count : Nat], snapshot' \in Nat
    PROVE  Inv'
<1>1. turn[c] \in Turns
  BY DEF Inv, TypeOK, TurnIdsUnique, Turns, Assumptions, TurnAssumption
<1>2. /\ pc' = [pc EXCEPT ![c] = "idle"]
      /\ sent' = [sent EXCEPT ![c] = NoCall]
      /\ attempts' = [attempts EXCEPT ![c] = 0]
      /\ cart' = [cart EXCEPT ![c] = 0]
      /\ read' = [read EXCEPT ![c] = NoMetadata]
  BY DEF Answer, Go
<1>3. NoMetadata \in [lastTurn : 0..MaxTurns, count : Nat] /\ 0 \in 0..MaxAttempts
  BY DEF NoMetadata, Assumptions, TurnAssumption
<1>4. answers' \subseteq [turn : Turns, answer : {"text", "error"}]
  BY <1>1 DEF Answer, Inv, TypeOK
<1>5. history' \subseteq Turns
  BY <1>1 DEF Inv, TypeOK
<1>6. TypeOK'
  BY <1>2, <1>3, <1>4, <1>5 DEF Inv, TypeOK
<1> QED BY <1>2, <1>6, QuietInv DEF Inv, TypeOK

\* A step of the record, answered or not.
LEMMA RecordInv ==
    ASSUME Assumptions, Inv, NEW c \in Conns, Record(c), UNCHANGED overlapped
    PROVE  Inv'
<1> USE DEF Inv
<1>1. pc[c] \in Recording /\ pc[c] # "idle"
  BY DEF Record, SaveUserMessage, SaveAssistantMessage, AppendTurn, ReadCount, WriteCount,
         RecordFails, Recording
<1>2. /\ turn[c] \in 0..MaxTurns /\ turn[c] \in Turns
      /\ NoMetadata \in [lastTurn : 0..MaxTurns, count : Nat]
  BY <1>1 DEF TypeOK, TurnIdsUnique, Turns, NoMetadata, Assumptions, TurnAssumption
<1>3. /\ UNCHANGED <<turn, order, turns, inTransit, applied, confirmed, snapshot>>
      /\ history' \subseteq history \cup {turn[c]}
  BY DEF Record, SaveUserMessage, SaveAssistantMessage, AppendTurn, ReadCount, WriteCount,
         RecordFails, Then, backend, record
<1>4. lastUser' \in 0..MaxTurns /\ lastAssistant' \in 0..MaxTurns
  BY <1>2 DEF Record, SaveUserMessage, SaveAssistantMessage, AppendTurn, ReadCount,
              WriteCount, RecordFails, record, TypeOK
<1>5. metadata' \in [lastTurn : 0..MaxTurns, count : Nat]
  <2>1. CASE AppendTurn(c)
    BY <2>1, <1>2 DEF AppendTurn
  <2>2. CASE WriteCount(c)
    BY <2>2 DEF WriteCount, TypeOK
  <2>3. CASE UNCHANGED metadata
    BY <2>3 DEF TypeOK
  <2> QED
    BY <2>1, <2>2, <2>3 DEF Record, SaveUserMessage, SaveAssistantMessage, ReadCount,
                            RecordFails, record
<1>6. CASE Answer(c, {"error"})
  BY <1>1, <1>3, <1>4, <1>5, <1>6, AnswerInv DEF TypeOK
<1>7. ASSUME NEW step \in {"saveAssistant", "appendTurn", "readCount", "writeCount", "save"},
             NEW known \in [lastTurn : 0..MaxTurns, count : Nat],
             Go(c, step), read' = [read EXCEPT ![c] = known],
             UNCHANGED <<sent, attempts, cart, answers>>
      PROVE  Inv'
  <2>1. pc' = [pc EXCEPT ![c] = step]
    BY <1>7 DEF Go
  <2>2. history' \subseteq Turns
    BY <1>2, <1>3 DEF TypeOK
  <2>3. TypeOK'
    BY <1>3, <1>4, <1>5, <1>7, <2>1, <2>2 DEF TypeOK, Recording
  <2> QED BY <1>1, <1>3, <1>7, <2>1, <2>3, QuietInv DEF TypeOK
<1>8. \/ Answer(c, {"error"})
      \/ \E step \in {"saveAssistant", "appendTurn", "readCount", "writeCount", "save"},
            known \in [lastTurn : 0..MaxTurns, count : Nat] :
            /\ Go(c, step) /\ read' = [read EXCEPT ![c] = known]
            /\ UNCHANGED <<sent, attempts, cart, answers>>
  <2>1. metadata \in [lastTurn : 0..MaxTurns, count : Nat]
    BY DEF TypeOK
  <2> QED
    BY <1>2, <2>1 DEF Record, SaveUserMessage, SaveAssistantMessage, AppendTurn, ReadCount,
                      WriteCount, RecordFails, Then
<1> QED BY <1>6, <1>7, <1>8

\* Every step of a running turn keeps the invariant: only the POST adds a key, and
\* only its answer confirms the turn.
LEMMA StepInv ==
    ASSUME Assumptions, Inv, NEW c \in Conns, Step(c)
    PROVE  Inv'
<1> USE DEF Inv
<1>1. CASE ModelFails(c) \/ SaveFails(c) \/ AnswerText(c) \/ AnswerBoth(c)
  <2>1. /\ pc[c] # "idle"
        /\ UNCHANGED <<turn, order, turns, inTransit, applied, confirmed, lastUser,
                       lastAssistant, metadata, history, overlapped>>
        /\ \E texts \in SUBSET {"text", "error"} : Answer(c, texts)
    BY <1>1 DEF Step, ModelFails, SaveFails, AnswerText, AnswerBoth, backend, record
  <2>2. snapshot' \in Nat
    BY <1>1 DEF ModelFails, SaveFails, AnswerText, AnswerBoth, SaveSnapshot, TypeOK
  <2> QED BY <2>1, <2>2, AnswerInv DEF TypeOK
<1>2. CASE ModelTalks(c) \/ ModelCallsWrongly(c) \/ ModelComments(c)
  <2>1. /\ pc[c] # "idle" /\ \A d \in Conns \ {c} : pc'[d] = pc[d]
        /\ UNCHANGED <<turn, order, sent, attempts, cart, read, turns, inTransit, applied,
                       confirmed, lastUser, lastAssistant, metadata, history, snapshot,
                       answers, overlapped>>
        /\ pc' \in [Conns -> {"idle", "model", "tool", "followup", "save", "answer"}
                              \cup Recording]
        /\ pc'[c] # "tool"
    BY <1>2 DEF Step, ModelTalks, ModelCallsWrongly, ModelComments, Go, TypeOK, Recording,
                backend, local, record
  <2>2. TypeOK'
    BY <2>1 DEF TypeOK
  <2> QED BY <2>1, <2>2, QuietInv
<1>3. CASE ModelCallsTool(c)
  <2>1. /\ pc[c] # "idle" /\ pc' = [pc EXCEPT ![c] = "tool"]
        /\ UNCHANGED <<turn, order, attempts, cart, read, turns, inTransit, applied,
                       confirmed, lastUser, lastAssistant, metadata, history, snapshot,
                       answers, overlapped>>
    BY <1>3 DEF Step, ModelCallsTool, Go, backend, record
  <2>2. PICK call \in Calls : Executable(call) /\ sent' = [sent EXCEPT ![c] = Cleaned(call)]
    BY <1>3 DEF ModelCallsTool
  <2>3. TypeOK'
    BY <2>1, <2>2 DEF TypeOK, Executable
  <2>4. TurnIdsUnique' /\ KeysOfTurns' /\ ConfirmedIsApplied'
    BY <2>1 DEF TurnIdsUnique, KeysOfTurns, Keys, ConfirmedIsApplied
  <2>5. OnlyValidSent'
    BY <2>1, <2>2, CleanedConforms DEF OnlyValidSent, TurnSent, TypeOK
  <2> QED BY <2>3, <2>4, <2>5
<1>4. CASE ToolFails(c) \/ OfferAnswered(c) \/ OfferUnanswered(c)
  <2>1. /\ pc[c] = "tool"
        /\ UNCHANGED <<turn, order, cart, read, turns, inTransit, applied, confirmed,
                       lastUser, lastAssistant, metadata, history, snapshot, answers,
                       overlapped>>
        /\ \/ pc' = [pc EXCEPT ![c] = "followup"] /\ sent' = [sent EXCEPT ![c] = NoCall]
           \/ UNCHANGED <<pc, sent>>
    BY <1>4 DEF Step, ToolFails, OfferAnswered, OfferUnanswered, Post, Return, Go, backend,
                record
  <2>2. attempts' \in [Conns -> 0..MaxAttempts]
    <3>1. \/ UNCHANGED attempts
          \/ attempts' = [attempts EXCEPT ![c] = attempts[c] + 1] /\ attempts[c] < MaxAttempts
      BY <1>4 DEF ToolFails, OfferAnswered, OfferUnanswered, Post, AttemptsLeft
    <3> QED BY <3>1 DEF TypeOK, Assumptions, TurnAssumption
  <2>3. TypeOK'
    BY <2>1, <2>2 DEF TypeOK
  <2> QED BY <2>1, <2>3, QuietInv DEF TypeOK
<1>5. CASE PostAnswered(c)
  <2>1. /\ pc[c] = "tool"
        /\ pc' = [pc EXCEPT ![c] = "followup"] /\ sent' = [sent EXCEPT ![c] = NoCall]
        /\ UNCHANGED <<turn, order, read, turns, inTransit, lastUser, lastAssistant,
                       metadata, history, snapshot, answers, overlapped>>
        /\ applied' = applied \cup {Key(c)} /\ confirmed' = confirmed \cup {turn[c]}
    BY <1>5 DEF Step, PostAnswered, Post, Return, Go, record
  <2>2. /\ Key(c) \in Turns \X Orders /\ Key(c)[1] = turn[c] /\ turn[c] \in Turns
    BY <2>1, KeyIsTheTurns
  <2>3. TypeOK'
    <3>1. applied' \in SUBSET (Turns \X Orders)
      BY <2>1, <2>2 DEF TypeOK
    <3>2. Cardinality(applied') \in Nat
      BY <3>1, CartIsFinite DEF Assumptions
    <3>3. /\ cart' = [cart EXCEPT ![c] = Cardinality(applied')]
          /\ attempts' = [attempts EXCEPT ![c] = attempts[c] + 1]
          /\ attempts[c] \in 0..MaxAttempts /\ attempts[c] < MaxAttempts
      BY <1>5 DEF PostAnswered, Post, AttemptsLeft, TypeOK
    <3>4. cart' \in [Conns -> Nat] /\ attempts' \in [Conns -> 0..MaxAttempts]
      BY <3>2, <3>3 DEF TypeOK, Assumptions, TurnAssumption
    <3> QED BY <2>1, <2>2, <3>1, <3>4 DEF TypeOK
  <2>4. TurnIdsUnique'
    BY <2>1 DEF TurnIdsUnique, TypeOK
  <2>5. KeysOfTurns'
    BY <2>1, AddKey DEF Keys
  <2>6. ConfirmedIsApplied'
    BY <2>1, <2>2 DEF ConfirmedIsApplied
  <2>7. OnlyValidSent'
    BY <2>1 DEF OnlyValidSent, TurnSent, TypeOK
  <2> QED BY <2>3, <2>4, <2>5, <2>6, <2>7
<1>6. CASE PostUnanswered(c)
  <2>1. /\ pc[c] = "tool" /\ pc' = pc
        /\ UNCHANGED <<turn, order, sent, turns, cart, read, applied, confirmed, lastUser,
                       lastAssistant, metadata, history, snapshot, answers, overlapped>>
        /\ inTransit' = inTransit \cup {Key(c)}
    BY <1>6 DEF Step, PostUnanswered, Post, record
  <2>2. Key(c) \in Turns \X Orders
    BY <2>1, KeyIsTheTurns
  <2>3. TypeOK'
    <3>1. /\ attempts' = [attempts EXCEPT ![c] = attempts[c] + 1]
          /\ attempts[c] \in 0..MaxAttempts /\ attempts[c] < MaxAttempts
      BY <1>6 DEF PostUnanswered, Post, AttemptsLeft, TypeOK
    <3>2. attempts' \in [Conns -> 0..MaxAttempts]
      BY <3>1 DEF TypeOK, Assumptions, TurnAssumption
    <3> QED BY <2>1, <2>2, <3>2 DEF TypeOK
  <2>4. TurnIdsUnique' /\ ConfirmedIsApplied' /\ OnlyValidSent'
    BY <2>1 DEF TurnIdsUnique, ConfirmedIsApplied, OnlyValidSent, TurnSent
  <2>5. KeysOfTurns'
    BY <2>1, AddKey DEF Keys
  <2> QED BY <2>3, <2>4, <2>5
<1>7. CASE Record(c)
  BY <1>7, RecordInv DEF Step
<1>8. CASE Save(c)
  <2>1. /\ pc[c] # "idle" /\ pc' = [pc EXCEPT ![c] = "answer"]
        /\ UNCHANGED <<turn, order, sent, attempts, cart, read, turns, inTransit, applied,
                       confirmed, lastUser, lastAssistant, metadata, history, answers,
                       overlapped>>
    BY <1>8 DEF Step, Save, Go, backend, local, record
  <2>2. snapshot' \in Nat
    BY <1>8 DEF Save, SaveSnapshot, TypeOK
  <2>3. TypeOK'
    BY <2>1, <2>2 DEF TypeOK
  <2> QED BY <2>1, <2>3, QuietInv DEF TypeOK
<1> QED BY <1>1, <1>2, <1>3, <1>4, <1>5, <1>6, <1>7, <1>8 DEF Step

\* A late request was sent with its key, so it brings the cart nothing unheard of.
LEMMA LateApplyInv ==
    ASSUME Assumptions, Inv, NEW key \in inTransit, LateApply(key)
    PROVE  Inv'
<1> USE DEF LateApply, local, record
<1>1. TypeOK'
  BY DEF Inv, TypeOK
<1>2. TurnIdsUnique' /\ OnlyValidSent'
  BY DEF Inv, TurnIdsUnique, OnlyValidSent, TurnSent
<1>3. KeysOfTurns'
  BY DEF Inv, KeysOfTurns, Keys
<1>4. ConfirmedIsApplied'
  BY DEF Inv, ConfirmedIsApplied
<1> QED BY <1>1, <1>2, <1>3, <1>4 DEF Inv

-----------------------------------------------------------------------------
\* The inductive invariant holds in every reachable state.
THEOREM Invariance == ASSUME Assumptions PROVE Spec => []Inv
<1>1. Init => Inv
  BY InitInv
<1>2. Inv /\ [Next]_vars => Inv'
  <2> SUFFICES ASSUME Inv, [Next]_vars PROVE Inv'
    OBVIOUS
  <2>1. CASE UNCHANGED vars
    BY <2>1 DEF vars, backend, local, record, Inv, TypeOK, TurnIdsUnique, KeysOfTurns, Keys,
                OnlyValidSent, TurnSent, ConfirmedIsApplied
  <2>2. CASE Next
    BY <2>2, SayInv, StepInv, LateApplyInv DEF Next
  <2> QED BY <2>1, <2>2
<1> QED BY <1>1, <1>2, PTL DEF Spec

\* The variables keep their types: no connection sends more than MaxAttempts
\* requests in a turn.
THEOREM TypeCorrect == ASSUME Assumptions PROVE Spec => []TypeOK
<1>1. Inv => TypeOK
  BY DEF Inv
<1> QED BY <1>1, Invariance, PTL

\* Whatever function calls the model makes, a tool is called only with arguments that
\* conform to its schema, and under the id of the turn.
THEOREM ValidCalls == ASSUME Assumptions PROVE Spec => []OnlyValidSent
<1>1. Inv => OnlyValidSent
  BY DEF Inv
<1> QED BY <1>1, Invariance, PTL

\* A turn changes the cart at most once, whatever is sent again or arrives late.
THEOREM Idempotence == ASSUME Assumptions PROVE Spec => []AppliedOncePerTurn
<1>1. Inv => AppliedOncePerTurn
  BY DEF Inv, KeysOfTurns, Keys, AppliedOncePerTurn
<1> QED BY <1>1, Invariance, PTL

\* A change the user is told of has been made to the cart, in that turn.
THEOREM Confirmation == ASSUME Assumptions PROVE Spec => []ConfirmedIsApplied
<1>1. Inv => ConfirmedIsApplied
  BY DEF Inv
<1> QED BY <1>1, Invariance, PTL

-----------------------------------------------------------------------------
(* The record of a turn and the cart snapshot.                             *)

\* Who runs besides another turn is known to, and so is who is not the newest turn.
Concurrent ==
    /\ \A c, d \in Conns : c # d /\ pc[c] # "idle" /\ pc[d] # "idle" => turn[c] \in overlapped
    /\ \A c \in Conns : pc[c] # "idle" /\ turn[c] # turns => turn[c] \in overlapped
    /\ \A a \in answers : a.turn <= turns

\* What a running turn leaves in Redis is its own, or has been put there meanwhile.
Recent(c, t) == t = turn[c] \/ t \in overlapped

Appended == {"readCount", "writeCount", "save", "answer"}
Recorded ==
    \A c \in Conns :
        /\ pc[c] \in {"saveAssistant", "appendTurn"} \cup Appended => Recent(c, lastUser)
        /\ pc[c] \in {"appendTurn"} \cup Appended => Recent(c, lastAssistant)
        /\ pc[c] \in Appended => Recent(c, metadata.lastTurn) /\ turn[c] \in history
        /\ pc[c] = "writeCount" => Recent(c, read[c].lastTurn)

\* Carts only grow, and a turn that ran alone has seen the newest.
SnapshotIsOld ==
    /\ snapshot <= Cardinality(applied)
    /\ \A c \in Conns : cart[c] <= Cardinality(applied)
    /\ \A c \in Conns : pc[c] = "idle" => cart[c] = 0
    /\ \A c \in Conns : cart[c] # 0 /\ turn[c] \notin overlapped => snapshot <= cart[c]

RInv == Concurrent /\ Recorded /\ RecordIsFresh /\ AnsweredIsRecorded

-----------------------------------------------------------------------------
\* What a step of a turn may do to the variables of the record.
LEMMA StepFrame ==
    ASSUME Assumptions, Inv, NEW c \in Conns, Step(c)
    PROVE  /\ pc[c] # "idle" /\ UNCHANGED <<turn, turns, overlapped>>
           /\ \A d \in Conns \ {c} : pc'[d] = pc[d] /\ read'[d] = read[d] /\ cart'[d] = cart[d]
           /\ history \subseteq history'
<1> USE DEF Inv, TypeOK
<1>1. pc[c] # "idle" /\ UNCHANGED <<turn, turns, overlapped>>
  BY DEF Step, ModelFails, ModelTalks, ModelCallsTool, ModelCallsWrongly, ToolFails,
         PostAnswered, PostUnanswered, OfferAnswered, OfferUnanswered, Post, ModelComments,
         Record, SaveUserMessage, SaveAssistantMessage, AppendTurn, ReadCount, WriteCount,
         RecordFails, Recording, Then, Save, SaveFails, AnswerText, AnswerBoth
<1>2. \A d \in Conns \ {c} : pc'[d] = pc[d] /\ read'[d] = read[d] /\ cart'[d] = cart[d]
  BY DEF Step, ModelFails, ModelTalks, ModelCallsTool, ModelCallsWrongly, ToolFails,
         PostAnswered, PostUnanswered, OfferAnswered, OfferUnanswered, Post, ModelComments,
         Record, SaveUserMessage, SaveAssistantMessage, AppendTurn, ReadCount, WriteCount,
         RecordFails, Then, Save, SaveFails, AnswerText, AnswerBoth,
         Go, Return, Answer, local
<1>3. history \subseteq history'
  BY DEF Step, ModelFails, ModelTalks, ModelCallsTool, ModelCallsWrongly, ToolFails,
         PostAnswered, PostUnanswered, OfferAnswered, OfferUnanswered, ModelComments,
         Record, SaveUserMessage, SaveAssistantMessage, AppendTurn, ReadCount, WriteCount,
         RecordFails, Save, SaveFails, AnswerText, AnswerBoth, record
<1> QED BY <1>1, <1>2, <1>3

\* A step of a turn writes into the record what is recent for the turn, ...
LEMMA StepWrites ==
    ASSUME Assumptions, Inv, Recorded, NEW c \in Conns, Step(c)
    PROVE  /\ lastUser' = lastUser \/ Recent(c, lastUser')
           /\ lastAssistant' = lastAssistant \/ Recent(c, lastAssistant')
           /\ metadata'.lastTurn = metadata.lastTurn \/ Recent(c, metadata'.lastTurn)
<1>1. CASE SaveUserMessage(c)
  BY <1>1 DEF SaveUserMessage, Recent
<1>2. CASE SaveAssistantMessage(c)
  BY <1>2 DEF SaveAssistantMessage, Recent
<1>3. CASE AppendTurn(c)
  BY <1>3 DEF AppendTurn, Recent
<1>4. CASE WriteCount(c)
  <2>1. metadata'.lastTurn = read[c].lastTurn
    BY <1>4 DEF WriteCount, Inv, TypeOK
  <2> QED BY <1>4, <2>1 DEF WriteCount, Recorded
<1>5. CASE UNCHANGED <<lastUser, lastAssistant, metadata>>
  BY <1>5
<1> QED
  BY <1>1, <1>2, <1>3, <1>4, <1>5
     DEF Step, ModelFails, ModelTalks, ModelCallsTool, ModelCallsWrongly, ToolFails,
         PostAnswered, PostUnanswered, OfferAnswered, OfferUnanswered, ModelComments,
         Record, ReadCount, RecordFails, Save, SaveFails, AnswerText, AnswerBoth, record

\* ... and the turn itself finds there what it has written, or what is more recent.
LEMMA StepRecords ==
    ASSUME Assumptions, Inv, Recorded, NEW c \in Conns, Step(c)
    PROVE  /\ pc'[c] \in {"saveAssistant", "appendTurn"} \cup Appended => Recent(c, lastUser')
           /\ pc'[c] \in {"appendTurn"} \cup Appended => Recent(c, lastAssistant')
           /\ pc'[c] \in Appended => Recent(c, metadata'.lastTurn) /\ turn[c] \in history'
           /\ pc'[c] = "writeCount" => Recent(c, read'[c].lastTurn)
<1> USE DEF Inv, TypeOK
<1>1. CASE Record(c)
  <2>1. CASE SaveUserMessage(c)
    BY <2>1 DEF SaveUserMessage, Then, Go, Answer, Recent, Appended
  <2>2. CASE SaveAssistantMessage(c)
    BY <2>2 DEF SaveAssistantMessage, Then, Go, Answer, Recent, Recorded, Appended
  <2>3. CASE AppendTurn(c)
    BY <2>3 DEF AppendTurn, Then, Go, Answer, Recent, Recorded, Appended
  <2>4. CASE ReadCount(c)
    BY <2>4 DEF ReadCount, Then, Go, Answer, Recorded, Appended, record
  <2>5. CASE WriteCount(c)
    <3>1. metadata'.lastTurn = read[c].lastTurn
      BY <2>5 DEF WriteCount
    <3>2. pc'[c] \in {"save", "idle"}
      BY <2>5 DEF WriteCount, Then, Go, Answer
    <3> QED BY <2>5, <3>1, <3>2 DEF WriteCount, Recorded, Appended
  <2>6. CASE RecordFails(c)
    BY <2>6 DEF RecordFails, Go, Answer, Appended
  <2> QED BY <1>1, <2>1, <2>2, <2>3, <2>4, <2>5, <2>6 DEF Record
<1>2. CASE Save(c)
  BY <1>2 DEF Save, Go, Recorded, Appended, record, local
<1>3. CASE ~Record(c) /\ ~Save(c)
  <2>1. pc'[c] \notin {"saveAssistant", "appendTurn"} \cup Appended
    BY <1>3 DEF Step, ModelFails, ModelTalks, ModelCallsTool, ModelCallsWrongly, ToolFails,
                PostAnswered, PostUnanswered, OfferAnswered, OfferUnanswered, Post, ModelComments,
                SaveFails, AnswerText, AnswerBoth, Go, Return, Answer, Appended
  <2> QED BY <2>1 DEF Appended
<1> QED BY <1>1, <1>2, <1>3

\* What is recent for a running turn is recent for every other that runs, and fresh for
\* all that have been answered.
LEMMA RecentIsFresh ==
    ASSUME Assumptions, Inv, Concurrent, NEW c \in Conns, pc[c] # "idle",
           NEW t \in Nat, Recent(c, t)
    PROVE  /\ \A d \in Conns \ {c} : pc[d] # "idle" => Recent(d, t)
           /\ \A n \in Nat : n <= turns => t >= n \/ t \in overlapped
<1>1. turns \in Nat
  BY DEF Inv, TypeOK
<1> QED BY <1>1 DEF Concurrent, Recent

\* Answers are given by the turn that ends.
LEMMA StepAnswers ==
    ASSUME Assumptions, Inv, Recorded, NEW c \in Conns, Step(c)
    PROVE  \A a \in answers' \ answers :
               a.turn = turn[c] /\ (a.answer = "text" => pc[c] = "answer")
<1>1. CASE AnswerText(c)
  BY <1>1 DEF AnswerText, Answer
<1>2. CASE AnswerBoth(c)
  BY <1>2 DEF AnswerBoth, Answer
<1>3. CASE UNCHANGED answers
  BY <1>3
<1>4. CASE Answer(c, {"error"})
  BY <1>4 DEF Answer
<1> QED
  BY <1>1, <1>2, <1>3, <1>4
     DEF Step, ModelFails, ModelTalks, ModelCallsTool, ModelCallsWrongly, ToolFails,
         PostAnswered, PostUnanswered, OfferAnswered, OfferUnanswered, ModelComments,
         Record, SaveUserMessage, SaveAssistantMessage, AppendTurn, ReadCount, WriteCount,
         RecordFails, Then, Save, SaveFails

\* A step of a turn keeps the record in order.
LEMMA StepRInv ==
    ASSUME Assumptions, Inv, RInv, NEW c \in Conns, Step(c)
    PROVE  RInv'
<1> USE DEF RInv
<1>1. /\ pc[c] # "idle" /\ UNCHANGED <<turn, turns, overlapped>>
      /\ \A d \in Conns \ {c} : pc'[d] = pc[d] /\ read'[d] = read[d]
      /\ history \subseteq history'
  BY StepFrame
<1>2. \A a \in answers' \ answers : a.turn = turn[c] /\ (a.answer = "text" => pc[c] = "answer")
  BY StepAnswers
<1>3. /\ turns \in Nat /\ turn[c] \in Nat /\ turn[c] <= turns
      /\ \A a \in answers : a.turn \in Nat
  BY DEF Inv, TypeOK, TurnIdsUnique, Turns
<1>4. Concurrent'
  BY <1>1, <1>2, <1>3 DEF Concurrent
<1>5. /\ lastUser' \in Nat /\ lastAssistant' \in Nat /\ metadata'.lastTurn \in Nat
  <2>1. TypeOK'
    BY StepInv DEF Inv
  <2> QED BY <2>1 DEF TypeOK
<1>6. Recorded'
  <2>1. ASSUME NEW d \in Conns \ {c}, pc[d] # "idle", NEW t, NEW u \in Nat,
               Recent(d, t), u = t \/ Recent(c, u)
        PROVE  Recent(d, u)
    BY <1>1, <2>1, RecentIsFresh
  <2>2. ASSUME NEW d \in Conns \ {c}
        PROVE  /\ pc[d] \in {"saveAssistant", "appendTurn"} \cup Appended => Recent(d, lastUser')
               /\ pc[d] \in {"appendTurn"} \cup Appended => Recent(d, lastAssistant')
               /\ pc[d] \in Appended => Recent(d, metadata'.lastTurn) /\ turn[d] \in history'
               /\ pc[d] = "writeCount" => Recent(d, read'[d].lastTurn)
    BY <1>1, <1>5, <2>1, <2>2, StepWrites DEF Recorded, Appended
  <2> QED BY <1>1, <2>2, StepRecords DEF Recorded, Recent
<1>7. AnsweredIsRecorded'
  BY <1>1, <1>2 DEF AnsweredIsRecorded, Recorded, Appended
<1>8. RecordIsFresh'
  <2>1. ASSUME NEW x, NEW y \in Nat, y = x \/ Recent(c, y),
               pc[c] = "answer" => Recent(c, x),
               \A a \in answers : a.answer = "text" => x >= a.turn \/ x \in overlapped
        PROVE  \A a \in answers' : a.answer = "text" => y >= a.turn \/ y \in overlapped
    <3>1. CASE Recent(c, y)
      BY <1>1, <1>2, <1>3, <3>1, RecentIsFresh DEF Concurrent
    <3>2. CASE y = x /\ ~Recent(c, y)
      BY <1>2, <2>1, <3>2
    <3> QED BY <2>1, <3>1, <3>2
  <2>2. \A a \in answers : a.answer = "text" =>
            \A t \in {lastUser, lastAssistant, metadata.lastTurn} : t >= a.turn \/ t \in overlapped
    BY DEF RecordIsFresh
  <2>3. \A a \in answers' : a.answer = "text" => lastUser' >= a.turn \/ lastUser' \in overlapped
    BY <1>5, <2>1, <2>2, StepWrites DEF Recorded, Appended
  <2>4. \A a \in answers' : a.answer = "text" =>
            lastAssistant' >= a.turn \/ lastAssistant' \in overlapped
    BY <1>5, <2>1, <2>2, StepWrites DEF Recorded, Appended
  <2>5. \A a \in answers' : a.answer = "text" =>
            metadata'.lastTurn >= a.turn \/ metadata'.lastTurn \in overlapped
    BY <1>5, <2>1, <2>2, StepWrites DEF Recorded, Appended
  <2> QED BY <1>1, <2>3, <2>4, <2>5 DEF RecordIsFresh
<1> QED BY <1>4, <1>6, <1>7, <1>8

\* A new turn has recorded nothing, and whom it joins is overlapped from now on.
LEMMA SayRInv ==
    ASSUME Assumptions, Inv, RInv, NEW c \in Conns, Say(c)
    PROVE  RInv'
<1> USE DEF RInv
<1>1. /\ turns \in Nat /\ turns' = turns + 1
      /\ turn' = [turn EXCEPT ![c] = turns + 1] /\ turn \in [Conns -> 0..MaxTurns]
      /\ pc' = [pc EXCEPT ![c] = "model"] /\ pc \in [Conns -> {"idle", "model", "tool", "followup", "save", "answer"} \cup Recording]
      /\ UNCHANGED <<read, lastUser, lastAssistant, metadata, history, answers>>
      /\ \A d \in Conns : turn[d] <= turns
      /\ \A a \in answers : a.turn \in Nat
  BY DEF Say, Go, Inv, TypeOK, TurnIdsUnique, Turns, local, record
<1>2. /\ overlapped \subseteq overlapped'
      /\ \A d \in Conns \ {c} : pc[d] # "idle" =>
            turn[d] \in overlapped' /\ turns + 1 \in overlapped'
  <2> DEFINE others == {d \in Conns \ {c} : pc[d] # "idle"}
  <2>1. overlapped' = IF others = {} THEN overlapped
                      ELSE overlapped \cup {turns + 1} \cup {turn[d] : d \in others}
    BY <1>1 DEF Say
  <2> QED BY <2>1
<1>3. Concurrent'
  <2>1. \A d, e \in Conns : d # e /\ pc'[d] # "idle" /\ pc'[e] # "idle" => turn'[d] \in overlapped'
    BY <1>1, <1>2
  <2>2. \A d \in Conns : pc'[d] # "idle" /\ turn'[d] # turns' => turn'[d] \in overlapped'
    BY <1>1, <1>2
  <2>3. \A a \in answers' : a.turn <= turns'
    BY <1>1 DEF Concurrent
  <2> QED BY <2>1, <2>2, <2>3 DEF Concurrent
<1>4. Recorded'
  BY <1>1, <1>2 DEF Recorded, Recent, Appended
<1>5. RecordIsFresh' /\ AnsweredIsRecorded'
  BY <1>1, <1>2 DEF RecordIsFresh, AnsweredIsRecorded
<1> QED BY <1>3, <1>4, <1>5

\* The strengthened invariant holds in every reachable state.
THEOREM RecordInvariance == ASSUME Assumptions PROVE Spec => [](Inv /\ RInv)
<1>1. Init => Inv /\ RInv
  <2> SUFFICES ASSUME Init PROVE RInv
    BY InitInv
  <2> QED BY DEF Init, RInv, Concurrent, Recorded, Appended, RecordIsFresh, AnsweredIsRecorded
<1>2. Inv /\ RInv /\ [Next]_vars => (Inv /\ RInv)'
  <2> SUFFICES ASSUME Inv, RInv, [Next]_vars PROVE Inv' /\ RInv'
    OBVIOUS
  <2>1. CASE UNCHANGED vars
    <3>1. Inv'
      BY <2>1 DEF vars, backend, local, record, Inv, TypeOK, TurnIdsUnique, KeysOfTurns,
                  Keys, OnlyValidSent, TurnSent, ConfirmedIsApplied
    <3>2. RInv'
      BY <2>1 DEF vars, backend, local, record, RInv, Concurrent, Recorded, Recent,
                  RecordIsFresh, AnsweredIsRecorded
    <3> QED BY <3>1, <3>2
  <2>2. CASE \E c \in Conns : Say(c)
    BY <2>2, SayInv, SayRInv
  <2>3. CASE \E c \in Conns : Step(c)
    BY <2>3, StepInv, StepRInv
  <2>4. CASE \E key \in inTransit : LateApply(key)
    <3>1. Inv'
      BY <2>4, LateApplyInv
    <3>2. RInv'
      BY <2>4 DEF LateApply, local, record, RInv, Concurrent, Recorded, Recent,
                  RecordIsFresh, AnsweredIsRecorded
    <3> QED BY <3>1, <3>2
  <2> QED BY <2>1, <2>2, <2>3, <2>4 DEF Next
<1> QED BY <1>1, <1>2, PTL DEF Spec

\* No turn that ran alone undoes the record of a turn that was answered before it.
THEOREM FreshRecord == ASSUME Assumptions PROVE Spec => []RecordIsFresh
<1>1. Inv /\ RInv => RecordIsFresh
  BY DEF RInv
<1> QED BY <1>1, RecordInvariance, PTL

\* A turn whose text the user has seen was recorded.
THEOREM RecordedBeforeAnswered == ASSUME Assumptions PROVE Spec => []AnsweredIsRecorded
<1>1. Inv /\ RInv => AnsweredIsRecorded
  BY DEF RInv
<1> QED BY <1>1, RecordInvariance, PTL
-----------------------------------------------------------------------------
\* Every change of the cart adds to it.
LEMMA CartGrows ==
    ASSUME TurnAssumption, NEW S \in SUBSET (Turns \X Orders), NEW T \in SUBSET S
    PROVE  Cardinality(T) \in Nat /\ Cardinality(S) \in Nat /\ Cardinality(T) <= Cardinality(S)
<1>1. IsFiniteSet(1..MaxTurns)
  BY FS_Interval DEF TurnAssumption
<1>2. IsFiniteSet(Turns \X Orders)
  BY <1>1, FS_Product DEF Turns, Orders
<1>3. IsFiniteSet(S) /\ IsFiniteSet(T)
  BY <1>2, FS_Subset
<1>4. Cardinality(T) <= Cardinality(S)
  BY <1>3, FS_Subset
<1> QED BY <1>3, <1>4, FS_CardinalityType

\* What a step of a turn may do to the snapshot, to the cart it got and to the backend's.
LEMMA StepCarts ==
    ASSUME Assumptions, Inv, SnapshotIsOld, NEW c \in Conns, Step(c)
    PROVE  /\ applied \subseteq applied'
           /\ snapshot' = snapshot \/ (cart[c] # 0 /\ snapshot' = cart[c])
           /\ \/ cart'[c] = 0
              \/ cart'[c] = cart[c] /\ pc'[c] # "idle"
              \/ cart'[c] = Cardinality(applied') /\ pc'[c] # "idle" /\ snapshot' = snapshot
           /\ snapshot' # snapshot => pc'[c] # pc[c]
<1> USE DEF Inv, TypeOK
<1>1. CASE PostAnswered(c)
  BY <1>1 DEF PostAnswered, Post, Return, Go
<1>2. CASE Save(c)
  BY <1>2 DEF Save, SaveSnapshot, Go, backend, local
<1>3. CASE AnswerText(c)
  BY <1>3 DEF AnswerText, SaveSnapshot, Answer, Go, backend
<1>4. CASE ModelFails(c) \/ RecordFails(c) \/ SaveFails(c) \/ AnswerBoth(c)
  BY <1>4 DEF ModelFails, RecordFails, SaveFails, AnswerBoth, Answer, backend
<1>5. CASE ModelTalks(c) \/ ModelCallsTool(c) \/ ModelCallsWrongly(c) \/ ModelComments(c)
  BY <1>5 DEF ModelTalks, ModelCallsTool, ModelCallsWrongly, ModelComments, Go, backend, local
<1>6. CASE ToolFails(c) \/ PostUnanswered(c) \/ OfferAnswered(c) \/ OfferUnanswered(c)
  BY <1>6 DEF ToolFails, PostUnanswered, OfferAnswered, OfferUnanswered, Post, Return, Go,
              backend, local
<1>7. CASE Record(c) /\ ~RecordFails(c)
  <2>1. UNCHANGED <<applied, snapshot>>
    BY <1>7 DEF Record, SaveUserMessage, SaveAssistantMessage, AppendTurn, ReadCount,
                WriteCount, Then, backend
  <2>2. \/ Answer(c, {"error"})
        \/ pc'[c] # "idle" /\ UNCHANGED cart
    BY <1>7 DEF Record, SaveUserMessage, SaveAssistantMessage, AppendTurn, ReadCount,
                WriteCount, Then, Go
  <2> QED BY <2>1, <2>2 DEF Answer
<1> QED
  BY <1>1, <1>2, <1>3, <1>4, <1>5, <1>6, <1>7 DEF Step, Record

\* A step of a turn keeps the snapshot no newer than the cart, nor than the carts that
\* turns running alone have got.
LEMMA StepSnapshot ==
    ASSUME Assumptions, Inv, Concurrent, SnapshotIsOld, NEW c \in Conns, Step(c)
    PROVE  /\ SnapshotIsOld'
           /\ snapshot' < snapshot => pc'[c] # pc[c] /\ turn[c] \in overlapped
<1>1. /\ pc[c] # "idle" /\ UNCHANGED <<turn, turns, overlapped>>
      /\ \A d \in Conns \ {c} : pc'[d] = pc[d] /\ cart'[d] = cart[d]
  BY StepFrame
<1>2. /\ applied \subseteq applied'
      /\ snapshot' = snapshot \/ (cart[c] # 0 /\ snapshot' = cart[c])
      /\ \/ cart'[c] = 0
         \/ cart'[c] = cart[c] /\ pc'[c] # "idle"
         \/ cart'[c] = Cardinality(applied') /\ pc'[c] # "idle" /\ snapshot' = snapshot
      /\ snapshot' # snapshot => pc'[c] # pc[c]
  BY StepCarts
<1>3. TypeOK' /\ TypeOK
  BY StepInv DEF Inv
<1>4. /\ Cardinality(applied) \in Nat /\ Cardinality(applied') \in Nat
      /\ Cardinality(applied) <= Cardinality(applied')
  BY <1>2, <1>3, CartGrows DEF TypeOK, Assumptions
<1>5. /\ snapshot \in Nat /\ snapshot' \in Nat
      /\ \A d \in Conns : cart[d] \in Nat /\ cart'[d] \in Nat
  BY <1>3 DEF TypeOK
<1>6. snapshot' <= Cardinality(applied')
  BY <1>2, <1>4, <1>5 DEF SnapshotIsOld
<1>7. \A d \in Conns : cart'[d] <= Cardinality(applied')
  BY <1>1, <1>2, <1>4, <1>5 DEF SnapshotIsOld
<1>8. \A d \in Conns : pc'[d] = "idle" => cart'[d] = 0
  BY <1>1, <1>2 DEF SnapshotIsOld
<1>9. ASSUME NEW d \in Conns, cart'[d] # 0, turn[d] \notin overlapped
      PROVE  snapshot' <= cart'[d]
  <2>1. CASE d = c
    BY <1>2, <1>4, <1>5, <1>6, <1>9, <2>1 DEF SnapshotIsOld
  <2>2. CASE d # c
    \* Then d runs as well as c, and so it would be overlapped.
    BY <1>1, <1>9, <2>2 DEF SnapshotIsOld, Concurrent
  <2> QED BY <2>1, <2>2
<1>10. snapshot' < snapshot => pc'[c] # pc[c] /\ turn[c] \in overlapped
  BY <1>2, <1>5 DEF SnapshotIsOld
<1> QED BY <1>1, <1>6, <1>7, <1>8, <1>9, <1>10 DEF SnapshotIsOld

\* The snapshot goes back only by the hand of a turn that ran while another did.
THEOREM SnapshotOrder == ASSUME Assumptions PROVE Spec => SnapshotAdvances
<1> DEFINE SInv == Inv /\ RInv /\ SnapshotIsOld
           Advance == snapshot' < snapshot
                        => \E c \in Conns : pc'[c] # pc[c] /\ turn[c] \in overlapped
<1>1. Init => SnapshotIsOld
  <2> SUFFICES ASSUME Init PROVE SnapshotIsOld
    OBVIOUS
  <2>1. Cardinality(applied) = 0
    BY FS_EmptySet DEF Init
  <2> QED BY <2>1 DEF Init, SnapshotIsOld
<1>2. SInv /\ [Next]_vars => SnapshotIsOld' /\ [Advance]_vars
  <2> SUFFICES ASSUME SInv, [Next]_vars PROVE SnapshotIsOld' /\ Advance
    OBVIOUS
  <2>1. snapshot \in Nat
    BY DEF Inv, TypeOK
  <2>2. CASE UNCHANGED vars
    BY <2>1, <2>2 DEF vars, backend, local, SnapshotIsOld
  <2>3. CASE \E c \in Conns : Say(c)
    <3>1. PICK c \in Conns : Say(c)
      BY <2>3
    <3>2. /\ UNCHANGED <<applied, snapshot, cart>>
          /\ pc[c] = "idle" /\ pc' = [pc EXCEPT ![c] = "model"]
          /\ turn' = [turn EXCEPT ![c] = turns'] /\ overlapped \subseteq overlapped'
      BY <3>1 DEF Say, Go, backend, local
    <3>3. cart[c] = 0
      BY <3>2 DEF SnapshotIsOld
    <3> QED BY <2>1, <3>2, <3>3 DEF SnapshotIsOld, Inv, TypeOK
  <2>4. CASE \E c \in Conns : Step(c)
    BY <2>4, StepSnapshot DEF RInv
  <2>5. CASE \E key \in inTransit : LateApply(key)
    <3>1. /\ UNCHANGED <<pc, turn, cart, snapshot, overlapped>> /\ applied \subseteq applied'
          /\ applied' \subseteq Turns \X Orders
      BY <2>5 DEF LateApply, local, Inv, TypeOK
    <3>2. /\ Cardinality(applied) \in Nat /\ Cardinality(applied') \in Nat
          /\ Cardinality(applied) <= Cardinality(applied')
      BY <3>1, CartGrows DEF Assumptions
    <3> QED BY <2>1, <3>1, <3>2 DEF SnapshotIsOld, Inv, TypeOK
  <2> QED BY <2>2, <2>3, <2>4, <2>5 DEF Next
<1>3. Spec => []SnapshotIsOld
  BY <1>1, <1>2, RecordInvariance, PTL DEF Spec
<1>4. Spec => [][Advance]_vars
  BY <1>2, <1>3, RecordInvariance, PTL DEF Spec
<1> QED BY <1>4 DEF SnapshotAdvances
=============================================================================
