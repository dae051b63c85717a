----------------------------- MODULE ToolClients -----------------------------
(***************************************************************************)
(* The agent frameworks on top of call_tool, as the examples adapt them: a *)
(* client dispatches the tool calls of a turn one after the other and      *)
(* turns what governance answers into messages for the conversation.       *)
(*                                                                         *)
(*   "openai"     dispatch_tool_calls: the turn's messages are a local     *)
(*                list, returned at its end                                *)
(*   "langgraph"  tools_node: messages go straight into the graph's state, *)
(*                which also keeps the pending calls and the blocked ones  *)
(*   "bedrock"    BedrockActionGroupHandler.handle: one call a turn,       *)
(*                answered with an envelope                                *)
(*   "kaos"       the scenarios of examples/kaos_pais_adapter, reported    *)
(*                one by one and counted                                   *)
(*                                                                         *)
(* Governance itself is the abstract GovernedCall: nothing here depends on *)
(* more than what it promises.  A call the host dispatches again in a      *)
(* later turn is another governed call with the same tool_call_id.         *)
(***************************************************************************)
EXTENDS Naturals, Sequences, FiniteSets

CONSTANTS
    Clients,    \* the clients to consider
    Batches,    \* the turns to consider: sequences of kinds of tool calls
    MaxTurns    \* bound: how often the host dispatches the calls

\* What about a call the code tells apart: an ordinary one; arguments that are
\* no JSON, or an event that names neither a function nor a path; a tool or a
\* sub-agent the toolset does not have; a result json.dumps rejects.
Kind == {"plain", "malformed", "unknown_tool", "opaque_result"}

ASSUME ClientsAssumption == Clients \subseteq {"openai", "langgraph", "bedrock", "kaos"}
ASSUME BatchesAssumption == Batches \subseteq Seq(Kind)
ASSUME TurnsAssumption == MaxTurns \in Nat

\* The k-th call of the batch in the n-th turn.
Calls == UNION {(DOMAIN b) \X (1 .. MaxTurns) : b \in Batches}

VARIABLES
    client, batch,                      \* the client and its turn, fixed
    stage, executed, denied, alerted,   \* of GovernedCall
    nested,     \* the calls whose tool raised a ConstraintViolation of its own
    pc,         \* "between" turns, in a "turn", or "done"
    turn,       \* the number of the turn, 0 before the first
    at,         \* the position of the call in hand
    out,        \* the messages the client has in a local variable
    messages,   \* the messages the host holds
    blocked,    \* the calls in GraphState.blocked, or counted by the kaos runner
    raised      \* ghost: the turns that ended in an exception

fixed == <<client, batch>>
governed == <<stage, executed, denied, alerted, nested>>
vars == <<fixed, governed, pc, turn, at, out, messages, blocked, raised>>

G == INSTANCE GovernedCall

-----------------------------------------------------------------------------
Init ==
    /\ client \in Clients
    /\ batch \in {b \in Batches : client = "bedrock" => Len(b) = 1}
    /\ G!Init
    /\ nested = {}
    /\ pc = "between"
    /\ turn = 0
    /\ at = 0
    /\ out = <<>>
    /\ messages = <<>>
    /\ blocked = {}
    /\ raised = {}

Call == <<at, turn>>
InHand == pc = "turn" /\ at \in DOMAIN batch
Is(kind) == batch[at] = kind

\* normalize_event reads a function or an API event, and raises for any other;
\* build_response raises for a result json.dumps rejects.
normalize_event == ~Is("malformed")
build_response == ~Is("opaque_result")

\* Parsed arguments come with the calls of langgraph and kaos.
IsMalformed ==
    \/ client = "openai" /\ Is("malformed")
    \/ client = "bedrock" /\ ~normalize_event

\* The host knows a call by its tool_call_id, which is its position in the turn.
\* Which governed call a message is about is a ghost.
Message(status) == [tool_call_id |-> at, call |-> Call, status |-> status]

\* The host dispatches the calls, for the first time or after an exception.
StartTurn ==
    /\ pc = "between" /\ turn < MaxTurns
    /\ pc' = "turn"
    /\ turn' = turn + 1
    /\ at' = 1
    /\ UNCHANGED <<fixed, governed, out, messages, blocked, raised>>

\* An exception leaves the client, and with it what it had in local variables.
Raise ==
    /\ pc' = "between"
    /\ raised' = raised \cup {turn}
    /\ out' = <<>>
    /\ UNCHANGED <<turn, at, messages, blocked>>

\* The call is answered in the client's local list, or where the host sees it.
SayLocally(status) ==
    /\ out' = Append(out, Message(status))
    /\ at' = at + 1
    /\ UNCHANGED <<pc, turn, messages, blocked, raised>>

Tell(status) ==
    /\ messages' = Append(messages, Message(status))
    /\ blocked' = IF status = "blocked" THEN blocked \cup {Call} ELSE blocked
    /\ at' = at + 1
    /\ UNCHANGED <<pc, turn, out, raised>>

-----------------------------------------------------------------------------
(* call_tool, and the toolsets it wraps.                                   *)

\* The toolsets that raise for a name they do not have, and the one that does
\* not.  A tool that raises otherwise is the Abort of GovernedCall.
OpenAIFunctionToolset == client = "openai" /\ ~Is("unknown_tool")
FunctionDispatchToolset == client = "langgraph" /\ ~Is("unknown_tool")
KAOSDelegationToolset == client = "kaos" /\ ~Is("unknown_tool")
PaymentBackend == client = "bedrock"

ToolAnswers ==
    OpenAIFunctionToolset \/ FunctionDispatchToolset \/ KAOSDelegationToolset \/ PaymentBackend

\* The steps of call_tool for the call in hand.
Governed ==
    /\ InHand /\ ~IsMalformed
    /\ \/ G!Begin(Call) \/ G!Deny(Call) \/ G!Alert(Call) \/ G!Execute(Call)
       \/ ToolAnswers /\ G!Answer(Call)
       \/ G!Release(Call) \/ G!Refuse(Call) \/ G!Abort(Call)
    /\ UNCHANGED <<fixed, nested, pc, turn, at, out, messages, blocked, raised>>

\* The tool of the call in hand governs calls of its own and lets their
\* ConstraintViolation out.
ToolViolates ==
    /\ InHand /\ ~IsMalformed
    /\ ToolAnswers /\ stage[Call] = "executing" /\ G!Abort(Call)
    /\ nested' = nested \cup {Call}
    /\ UNCHANGED <<fixed, pc, turn, at, out, messages, blocked, raised>>

Returned == InHand /\ stage[Call] = "returned"

\* call_tool raises ConstraintViolation: its own, or that of its tool, which
\* looks the same.
Violated == InHand /\ (stage[Call] = "refused" \/ Call \in nested)

\* Any other exception.
Failed == InHand /\ stage[Call] = "aborted" /\ Call \notin nested

-----------------------------------------------------------------------------
(* The clients.                                                            *)

\* Mutant of OpenAIDispatch: any exception is answered, as if it were a refusal.
OpenAIDispatch_CatchesAll ==
    /\ client = "openai"
    /\ \/ Returned /\ ~Is("opaque_result") /\ SayLocally("ok")
       \/ Failed /\ SayLocally("blocked")
       \/ Violated /\ SayLocally("blocked")
    /\ UNCHANGED <<fixed, governed>>

\* Mutant of OpenAIDispatch: appends to the host's conversation, not to a list of its own.
OpenAIDispatch_Tells ==
    /\ client = "openai"
    /\ \/ InHand /\ IsMalformed /\ Tell("invalid")
       \/ Returned /\ ~Is("opaque_result") /\ Tell("ok")
       \/ Returned /\ Is("opaque_result") /\ Raise
       \/ Violated /\ Tell("blocked")
       \/ Failed /\ Raise
    /\ UNCHANGED <<fixed, governed>>

\* dispatch_tool_calls: arguments that do not parse get a message and no call;
\* the result is serialised outside of what catches ConstraintViolation.
OpenAIDispatch ==
    /\ client = "openai"
    /\ \/ InHand /\ IsMalformed /\ SayLocally("invalid")
       \/ Returned /\ ~Is("opaque_result") /\ SayLocally("ok")
       \/ Returned /\ Is("opaque_result") /\ Raise
       \/ Violated /\ SayLocally("blocked")
       \/ Failed /\ Raise
    /\ UNCHANGED <<fixed, governed>>

\* Mutant of ToolsNode: a node that fails goes on with the next call.
ToolsNode_SkipsFailed ==
    /\ client = "langgraph"
    /\ \/ Returned /\ Tell("ok")
       \/ Violated /\ Tell("blocked")
       \/ Failed /\ at' = at + 1 /\ UNCHANGED <<pc, turn, out, messages, blocked, raised>>
    /\ UNCHANGED <<fixed, governed>>

\* tools_node: an exception leaves the state as it is, its calls still pending.
ToolsNode ==
    /\ client = "langgraph"
    /\ \/ Returned /\ Tell("ok")
       \/ Violated /\ Tell("blocked")
       \/ Failed /\ Raise
    /\ UNCHANGED <<fixed, governed>>

\* handle: normalize_event raises before governance, build_response after it.
BedrockHandle ==
    /\ client = "bedrock"
    /\ \/ InHand /\ ~normalize_event /\ Raise
       \/ Returned /\ build_response /\ Tell("ok")
       \/ Returned /\ ~build_response /\ Raise
       \/ Violated /\ Tell("blocked")
       \/ Failed /\ Raise
    /\ UNCHANGED <<fixed, governed>>

\* The loop over the scenarios: each outcome is printed at once and counted.
KaosRun ==
    /\ client = "kaos"
    /\ \/ Returned /\ Tell("ok")
       \/ Violated /\ Tell("blocked")
       \/ Failed /\ Raise
    /\ UNCHANGED <<fixed, governed>>

\* The calls of the turn are all answered: openai's list is handed over, the
\* graph's pending list is cleared.
EndTurn ==
    /\ pc = "turn" /\ at > Len(batch)
    /\ pc' = "done"
    /\ messages' = messages \o out
    /\ out' = <<>>
    /\ UNCHANGED <<fixed, governed, turn, at, blocked, raised>>

Client == OpenAIDispatch \/ ToolsNode \/ BedrockHandle \/ KaosRun

Next == StartTurn \/ Governed \/ ToolViolates \/ Client \/ EndTurn

Spec == Init /\ [][Next]_vars

-----------------------------------------------------------------------------
(* Properties.                                                             *)

TypeOK ==
    /\ client \in Clients /\ batch \in Batches
    /\ stage \in [Calls -> {"idle"} \cup G!Open \cup G!Closed]
    /\ \A calls \in {executed, denied, alerted, nested, blocked} : calls \subseteq Calls
    /\ pc \in {"between", "turn", "done"}
    /\ turn \in 0 .. MaxTurns
    /\ at \in 0 .. Len(batch) + 1
    /\ raised \subseteq 1 .. turn

Told(c) == \E i \in DOMAIN messages : messages[i].call = c

\* What the model reads is what governance did: a call said to be ok has run and
\* was not denied; one said to be blocked was denied, its escalation channel
\* told, and no result of it is released, unless it was a tool's own calls that
\* were denied; the blocked list says the same.  A tool_call_id is answered twice
\* only where the host keeps the messages of a turn that raised: in the state of
\* the graph and on the printout of kaos.
MessagesTellTruth ==
    /\ \A i \in DOMAIN messages :
        LET m == messages[i] IN
        /\ m.status = "ok" => stage[m.call] = "returned" /\ m.call \in executed \ denied
        /\ m.status = "blocked" =>
               (stage[m.call] = "refused" /\ m.call \in denied \cap alerted) \/ m.call \in nested
        /\ m.status = "invalid" => stage[m.call] = "idle" /\ m.call \notin executed
        /\ m.status = "blocked" /\ client \in {"langgraph", "kaos"} => m.call \in blocked
        /\ \A j \in DOMAIN messages : i < j /\ messages[j].tool_call_id = m.tool_call_id =>
               client \in {"langgraph", "kaos"} /\ m.call[2] \in raised
    /\ \A c \in blocked :
        \E i \in DOMAIN messages : messages[i].call = c /\ messages[i].status = "blocked"

\* No side effect goes unreported unless an exception told the host: outside a
\* turn, a call whose tool was started has a message, or its turn raised, and
\* then it was the last one started (with openai any of that turn's).
EffectsAccounted ==
    /\ pc # "turn" => \A c \in executed :
        \/ Told(c)
        \/ /\ c[2] \in raised
           /\ client = "openai" \/ \A d \in executed : d[2] = c[2] => d[1] <= c[1]
    /\ pc = "done" => \A k \in DOMAIN batch : Told(<<k, turn>>)
=============================================================================
