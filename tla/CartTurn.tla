------------------------------ MODULE CartTurn ------------------------------
(***************************************************************************)
(* Conversation turns of one session: from the user's message              *)
(* (TextMessageHandler.handle) through the two calls to the language model *)
(* (GeminiOrchestrator.process_user_message), the checked tool call        *)
(* (ToolExecutionCoordinator.execute_tool) and the request that changes    *)
(* the cart (CartBackendGateway.update_cart), to the turn's record in      *)
(* Redis (SessionService.persist_conversation_turn) and the answer.  The   *)
(* cart itself lives in the backend, which applies a request once per      *)
(* idempotency key.                                                        *)
(*                                                                         *)
(* A connection handles one message at a time, but a session may have      *)
(* several connections, and each of its awaits lets the others run.        *)
(***************************************************************************)
EXTENDS ToolCallValidator

CONSTANTS
    Conns,          \* connections of the session
    MaxAttempts,    \* HTTP_MAX_RETRIES
    OfferCodes,     \* ENABLE_OFFER_CODES
    Calls,          \* function calls the model makes: [tool, args]
    StoreTakesTTL,  \* whether the Redis client's save_last_user_message takes
                    \* the time to live that SessionService passes it; here it
                    \* does not and raises a TypeError, which looks like a Redis
                    \* failure: with TRUE and "redis" faults both are covered
    Faults,         \* what may fail besides the requests to the backend
    MaxTurns        \* bound: turns processed in all

ASSUME TurnAssumption ==
    /\ IsFiniteSet(Conns)
    /\ MaxAttempts \in Nat \ {0}
    /\ OfferCodes \in BOOLEAN
    /\ StoreTakesTTL \in BOOLEAN /\ Faults \subseteq {"model", "redis"}
    /\ MaxTurns \in Nat

ASSUME CallsAssumption ==
    \A call \in Calls : \A name \in DOMAIN call.args : Strippable(call.args[name])

VARIABLES
    pc,         \* where the turn of each connection stands
    turn,       \* its turn id
    order,      \* what the user wants: one change of the cart
    sent,       \* the tool call under way: the tool and its arguments
    attempts,   \* requests sent for it in this turn
    cart,       \* the cart in the backend's reply; 0 if there is none
    read,       \* the session's metadata as append_turn has read them
    turns,      \* turn ids given out so far
    inTransit,  \* requests that were given up but may still reach the backend
    applied,    \* the backend's cart: the keys of the changes made to it
    confirmed,  \* turns in which the tool call succeeded
    lastUser,   \* Redis: the turn whose user message was saved last; 0 if none
    lastAssistant, \* Redis: the same for the answer
    metadata,   \* Redis: the session's state, last_turn and turn_count
    snapshot,   \* Redis: the cart snapshot of the session; 0 if there is none
    history,    \* history: turns that were recorded as the session's last turn
    answers,    \* history: the answers sent, by turn
    overlapped  \* history: turns during which another turn ran

backend == <<inTransit, applied>>
local == <<sent, attempts, cart, read>>
record == <<lastUser, lastAssistant, metadata, history>>
vars == <<pc, turn, order, local, turns, backend, confirmed, record, snapshot, answers,
          overlapped>>

Turns == 1..MaxTurns
\* Orders are named by the turn in which they were first asked for.
Orders == Turns

NoCall == [tool |-> "none", args |-> [name \in {} |-> Null]]
NoMetadata == [lastTurn |-> 0, count |-> 0]

Tools == {"update_cart"} \cup IF OfferCodes THEN {"validate_offer_code"} ELSE {}

\* The orchestrator adds the identifiers the model has not written.  Those it has
\* written are taken for the session's own.
OwnId == Text("own", 3)
WithIds(args) ==
    [name \in DOMAIN args \cup {"restaurant_id", "session_id"} |->
        IF name \in DOMAIN args THEN args[name] ELSE OwnId]

\* Calls of a registered tool.
Known == {call \in Calls : call.tool \in Tools}
Cleaned(call) == [tool |-> call.tool, args |-> Sanitized(call.tool, WithIds(call.args))]

\* pc while the turn is recorded.
Recording == {"saveUser", "saveAssistant", "appendTurn", "readCount", "writeCount"}

\* Types and bounds: no turn sends more requests than HTTP_MAX_RETRIES.
TypeOK ==
    /\ pc \in [Conns -> {"idle", "model", "tool", "followup", "save", "answer"} \cup Recording]
    /\ turn \in [Conns -> 0..MaxTurns] /\ order \in [Conns -> 0..MaxTurns]
    /\ sent \in [Conns -> {NoCall} \cup {Cleaned(call) : call \in Known}]
    /\ attempts \in [Conns -> 0..MaxAttempts]
    /\ cart \in [Conns -> Nat]
    /\ read \in [Conns -> [lastTurn : 0..MaxTurns, count : Nat]]
    /\ turns \in 0..MaxTurns
    /\ inTransit \subseteq Turns \X Orders /\ applied \subseteq Turns \X Orders
    /\ confirmed \subseteq Turns /\ history \subseteq Turns
    /\ lastUser \in 0..MaxTurns /\ lastAssistant \in 0..MaxTurns
    /\ metadata \in [lastTurn : 0..MaxTurns, count : Nat]
    /\ snapshot \in Nat
    /\ answers \subseteq [turn : Turns, answer : {"text", "error"}]
    /\ overlapped \subseteq 0..MaxTurns

Init ==
    /\ pc = [c \in Conns |-> "idle"]
    /\ turn = [c \in Conns |-> 0] /\ order = [c \in Conns |-> 0]
    /\ sent = [c \in Conns |-> NoCall] /\ attempts = [c \in Conns |-> 0]
    /\ cart = [c \in Conns |-> 0] /\ read = [c \in Conns |-> NoMetadata]
    /\ turns = 0
    /\ inTransit = {} /\ applied = {}
    /\ confirmed = {}
    /\ lastUser = 0 /\ lastAssistant = 0 /\ metadata = NoMetadata
    /\ snapshot = 0
    /\ history = {} /\ answers = {} /\ overlapped = {}

-----------------------------------------------------------------------------
Go(c, step) == pc' = [pc EXCEPT ![c] = step]

\* The turn ends with its local variables, and the user has been sent a text, an
\* error, or both.
Answer(c, texts) ==
    /\ Go(c, "idle")
    /\ sent' = [sent EXCEPT ![c] = NoCall]
    /\ attempts' = [attempts EXCEPT ![c] = 0]
    /\ cart' = [cart EXCEPT ![c] = 0]
    /\ read' = [read EXCEPT ![c] = NoMetadata]
    /\ answers' = answers \cup {[turn |-> turn[c], answer |-> a] : a \in texts}

\* The tool returns to the orchestrator.
Return(c) ==
    /\ Go(c, "followup")
    /\ sent' = [sent EXCEPT ![c] = NoCall]

\* The coordinator adds the turn's id to the arguments, unless they have one (0 is an
\* id the model made up).
TurnSent(c) == IF "turn_id" \in DOMAIN sent[c].args THEN 0 ELSE turn[c]

\* Mutant of Key: every attempt has a key of its own.
KeyPerAttempt(c) == <<turn[c], order[c], attempts[c]>>

\* _generate_idempotency_key hashes the session, the turn and the change.
Key(c) == <<TurnSent(c), order[c]>>

\* Mutant of AttemptsLeft: one request too many.
AttemptsLeftOffByOne(c) == attempts[c] <= MaxAttempts

AttemptsLeft(c) == attempts[c] < MaxAttempts

\* The connection's last message was answered with an error.
Disappointed(c) ==
    \E a \in answers : a.turn = turn[c] /\ a.answer = "error"

\* A message arrives and gets a turn id of its own, which it keeps.  It asks for
\* something new, or repeats what was answered with "Processing failed".
Say(c) ==
    /\ pc[c] = "idle"
    /\ turns < MaxTurns
    /\ turns' = turns + 1
    /\ turn' = [turn EXCEPT ![c] = turns']
    /\ \/ order' = [order EXCEPT ![c] = turns']
       \/ Disappointed(c) /\ UNCHANGED order
    /\ Go(c, "model")
    /\ LET others == {d \in Conns \ {c} : pc[d] # "idle"} IN
       overlapped' = IF others = {} THEN overlapped
                     ELSE overlapped \cup {turns'} \cup {turn[d] : d \in others}
    /\ UNCHANGED <<local, backend, confirmed, record, snapshot, answers>>

\* The menu cannot be loaded, or the model fails in spite of the retries, at the
\* first call or after the tool call.
ModelFails(c) ==
    /\ "model" \in Faults
    /\ pc[c] \in {"model", "followup"}
    /\ Answer(c, {"error"})
    /\ UNCHANGED <<turn, order, turns, backend, confirmed, record, snapshot>>

\* The model answers without a tool call.
ModelTalks(c) ==
    /\ pc[c] = "model"
    /\ Go(c, "saveUser")
    /\ UNCHANGED <<turn, order, local, turns, backend, confirmed, record, snapshot, answers>>

\* The tool takes the arguments by name, and the gateway the addons with their ids.
Callable(call) ==
    /\ DOMAIN call.args \subseteq DOMAIN Schemas[call.tool] \cup {"turn_id"}
    /\ "addons" \in DOMAIN call.args /\ call.tool = "update_cart"
          => call.args.addons.items \subseteq {"withId"}

Executable(call) ==
    /\ call \in Known
    /\ Accepts(call.tool, WithIds(call.args))
    /\ Callable(Cleaned(call))

\* The model calls a tool, with arguments the validator, the tool and the gateway accept.
ModelCallsTool(c) ==
    /\ pc[c] = "model"
    /\ \E call \in Calls : Executable(call) /\ sent' = [sent EXCEPT ![c] = Cleaned(call)]
    /\ Go(c, "tool")
    /\ UNCHANGED <<turn, order, attempts, cart, read, turns, backend, confirmed, record,
                   snapshot, answers>>

\* One of them does not accept them: the result of the tool is an error.
ModelCallsWrongly(c) ==
    /\ pc[c] = "model"
    /\ \E call \in Calls : ~Executable(call)
    /\ Go(c, "followup")
    /\ UNCHANGED <<turn, order, local, turns, backend, confirmed, record, snapshot, answers>>

\* No request, or no more of them: the backend rejects the change, the circuit breaker
\* is open, or all attempts failed.
ToolFails(c) ==
    /\ pc[c] = "tool"
    /\ Return(c)
    /\ UNCHANGED <<turn, order, attempts, cart, read, turns, backend, confirmed, record,
                   snapshot, answers>>

Post(c, tool) ==
    /\ pc[c] = "tool" /\ sent[c].tool = tool
    /\ AttemptsLeft(c)
    /\ attempts' = [attempts EXCEPT ![c] = @ + 1]

\* Mutant of PostAnswered: the reply is taken for a success before the backend
\* has applied the change.
PostAnsweredEarly(c) ==
    /\ Post(c, "update_cart")
    /\ inTransit' = inTransit \cup {Key(c)}
    /\ cart' = [cart EXCEPT ![c] = Cardinality(applied) + 1]
    /\ confirmed' = confirmed \cup {turn[c]}
    /\ Return(c)
    /\ UNCHANGED <<turn, order, read, turns, applied, record, snapshot, answers>>

\* The backend applies the change, unless it has seen the key, and its reply
\* brings the cart.
PostAnswered(c) ==
    /\ Post(c, "update_cart")
    /\ applied' = applied \cup {Key(c)}
    /\ cart' = [cart EXCEPT ![c] = Cardinality(applied')]
    /\ confirmed' = confirmed \cup {turn[c]}
    /\ Return(c)
    /\ UNCHANGED <<turn, order, read, turns, inTransit, record, snapshot, answers>>

\* Mutant of PostUnanswered: attempts without a reply are not counted.
PostUnansweredUncounted(c) ==
    /\ pc[c] = "tool" /\ sent[c].tool = "update_cart"
    /\ AttemptsLeft(c)
    /\ inTransit' = inTransit \cup {Key(c)}
    /\ UNCHANGED <<pc, turn, order, local, turns, applied, confirmed, record, snapshot, answers>>

\* No reply in time.  The same request is sent again, or the tool call fails.
PostUnanswered(c) ==
    /\ Post(c, "update_cart")
    /\ inTransit' = inTransit \cup {Key(c)}
    /\ UNCHANGED <<pc, turn, order, sent, cart, read, turns, applied, confirmed, record,
                   snapshot, answers>>

\* The request about an offer code changes nothing.  It is answered, ...
OfferAnswered(c) ==
    /\ Post(c, "validate_offer_code")
    /\ Return(c)
    /\ UNCHANGED <<turn, order, cart, read, turns, backend, confirmed, record, snapshot, answers>>

\* ... or it is sent again or given up.
OfferUnanswered(c) ==
    /\ Post(c, "validate_offer_code")
    /\ UNCHANGED <<pc, turn, order, sent, cart, read, turns, backend, confirmed, record,
                   snapshot, answers>>

\* A request without a reply reaches the backend after all, at any later time.
LateApply(key) ==
    /\ key \in inTransit
    /\ inTransit' = inTransit \ {key}
    /\ applied' = applied \cup {key}
    /\ UNCHANGED <<pc, turn, order, local, turns, confirmed, record, snapshot, answers,
                   overlapped>>

\* The model comments on the result of the tool, be it a success or not.
ModelComments(c) ==
    /\ pc[c] = "followup"
    /\ Go(c, "saveUser")
    /\ UNCHANGED <<turn, order, local, turns, backend, confirmed, record, snapshot, answers>>

\* A command of persist_conversation_turn has been executed.  It is answered and the
\* turn goes on, knowing the metadata it has read, or its reply is lost and the user is
\* told "Processing failed".
Then(c, step, known) ==
    /\ StoreTakesTTL
    /\ \/ /\ Go(c, step) /\ read' = [read EXCEPT ![c] = known]
          /\ UNCHANGED <<sent, attempts, cart, answers>>
       \/ "redis" \in Faults /\ Answer(c, {"error"})
    /\ UNCHANGED <<turn, order, turns, backend, confirmed, snapshot>>

\* It is not executed, and the user is told the same.
RecordFails(c) ==
    /\ pc[c] \in Recording
    /\ ~StoreTakesTTL \/ "redis" \in Faults
    /\ Answer(c, {"error"})
    /\ UNCHANGED <<turn, order, turns, backend, confirmed, record, snapshot>>

\* The two last messages are saved under keys of their own, one after the other.
SaveUserMessage(c) ==
    /\ pc[c] = "saveUser"
    /\ lastUser' = turn[c]
    /\ Then(c, "saveAssistant", NoMetadata)
    /\ UNCHANGED <<lastAssistant, metadata, history>>

SaveAssistantMessage(c) ==
    /\ pc[c] = "saveAssistant"
    /\ lastAssistant' = turn[c]
    /\ Then(c, "appendTurn", NoMetadata)
    /\ UNCHANGED <<lastUser, metadata, history>>

\* Mutant of AppendTurn: what goes wrong with the record does not stop the turn.
AppendTurnSwallows(c) ==
    /\ pc[c] = "appendTurn"
    /\ Then(c, "readCount", NoMetadata)
    /\ UNCHANGED record

\* Mutant of AppendTurn: the metadata are read before the turn is stored in them.
AppendTurnAfterRead(c) ==
    /\ pc[c] = "appendTurn"
    /\ metadata' = [lastTurn |-> turn[c], count |-> 0]
    /\ history' = history \cup {turn[c]}
    /\ Then(c, "writeCount", metadata)
    /\ UNCHANGED <<lastUser, lastAssistant>>

\* append_turn replaces the session's metadata by the turn, ...
AppendTurn(c) ==
    /\ pc[c] = "appendTurn"
    /\ metadata' = [lastTurn |-> turn[c], count |-> 0]
    /\ history' = history \cup {turn[c]}
    /\ Then(c, "readCount", NoMetadata)
    /\ UNCHANGED <<lastUser, lastAssistant>>

\* ... reads them back ...
ReadCount(c) ==
    /\ pc[c] = "readCount"
    /\ Then(c, "writeCount", metadata)
    /\ UNCHANGED record

\* ... and writes what it has read, with one turn more.
WriteCount(c) ==
    /\ pc[c] = "writeCount"
    /\ metadata' = [read[c] EXCEPT !.count = @ + 1]
    /\ Then(c, "save", NoMetadata)
    /\ UNCHANGED <<lastUser, lastAssistant, history>>

\* Mutant of SaveSnapshot: a turn that got no cart saves an empty one.
SaveSnapshotAlways(c) == snapshot' = cart[c]

SaveSnapshot(c) == snapshot' = IF cart[c] = 0 THEN snapshot ELSE cart[c]

\* The orchestrator saves the cart that came with the reply, if any ...
Save(c) ==
    /\ pc[c] = "save"
    /\ SaveSnapshot(c)
    /\ Go(c, "answer")
    /\ UNCHANGED <<turn, order, local, turns, backend, confirmed, record, answers>>

SaveFails(c) ==
    /\ pc[c] = "save"
    /\ "redis" \in Faults /\ cart[c] # 0
    /\ Answer(c, {"error"})
    /\ UNCHANGED <<turn, order, turns, backend, confirmed, record, snapshot>>

\* ... and the handler, having sent the text, saves it again.
AnswerText(c) ==
    /\ pc[c] = "answer"
    /\ SaveSnapshot(c)
    /\ Answer(c, {"text"})
    /\ UNCHANGED <<turn, order, turns, backend, confirmed, record>>

\* That save raises: the text is followed by an error.
AnswerBoth(c) ==
    /\ pc[c] = "answer"
    /\ "redis" \in Faults /\ cart[c] # 0
    /\ Answer(c, {"text", "error"})
    /\ UNCHANGED <<turn, order, turns, backend, confirmed, record, snapshot>>

Record(c) ==
    \/ SaveUserMessage(c) \/ SaveAssistantMessage(c)
    \/ AppendTurn(c) \/ ReadCount(c) \/ WriteCount(c)
    \/ RecordFails(c)

Step(c) ==
    /\ UNCHANGED overlapped
    /\ \/ ModelFails(c) \/ ModelTalks(c) \/ ModelCallsTool(c) \/ ModelCallsWrongly(c)
       \/ ToolFails(c) \/ PostAnswered(c) \/ PostUnanswered(c)
       \/ OfferAnswered(c) \/ OfferUnanswered(c)
       \/ ModelComments(c)
       \/ Record(c)
       \/ Save(c) \/ SaveFails(c) \/ AnswerText(c) \/ AnswerBoth(c)

Next ==
    \/ \E c \in Conns : Say(c) \/ Step(c)
    \/ \E key \in inTransit : LateApply(key)

Spec == Init /\ [][Next]_vars

\* Every await of a turn ends: the model, the requests and Redis have timeouts.
FairSpec == Spec /\ \A c \in Conns : WF_vars(Step(c))

-----------------------------------------------------------------------------
\* A turn changes the cart at most once, however often its request is sent and
\* however late the requests arrive.
AppliedOncePerTurn == \A k1, k2 \in applied : k1[1] = k2[1] => k1 = k2

\* What the user is told was done has been done, for that very turn.
ConfirmedIsApplied == \A t \in confirmed : \E k \in applied : k[1] = t

\* Every message is answered.
MessagesAnswered == \A c \in Conns : pc[c] # "idle" ~> pc[c] = "idle"

\* The user sees a turn's text only when the turn is recorded.
AnsweredIsRecorded == \A a \in answers : a.answer = "text" => a.turn \in history

\* A tool is called only with arguments it may rely on, and under the id of the turn
\* that asked for it: nothing the model adds reaches the idempotency key.
OnlyValidSent ==
    \A c \in Conns : pc[c] = "tool" =>
        Conforms(sent[c].tool, sent[c].args) /\ TurnSent(c) = turn[c]

\* Once a turn is answered with a text, the last messages and the last turn in Redis are
\* its own or those of a later turn, unless they are those of a turn that ran while
\* another turn of the session did: no turn undoes the record of an earlier one, although
\* append_turn writes back what it has read before.
RecordIsFresh ==
    \A a \in answers : a.answer = "text" =>
        \A t \in {lastUser, lastAssistant, metadata.lastTurn} : t >= a.turn \/ t \in overlapped

\* The snapshot in Redis goes back to an earlier cart only by the hand of a turn
\* that ran while another turn of the session did.
SnapshotAdvances ==
    [][snapshot' < snapshot
         => \E c \in Conns : pc'[c] # pc[c] /\ turn[c] \in overlapped]_vars

\* "Cart mutations include idempotency keys to prevent duplicate side effects"
\* (README): what the user asked for is done at most once.
OrderAppliedOnce == \A k1, k2 \in applied : k1[2] = k2[2] => k1 = k2
=============================================================================
