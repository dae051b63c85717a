-------------------------- MODULE ToolClientsProofs --------------------------
(***************************************************************************)
(* What the clients of call_tool tell the model and the host, for every    *)
(* turn of tool calls and any number of turns: the messages tell what      *)
(* governance did (MessagesTellTruth), and what was done is told or an     *)
(* exception was (EffectsAccounted).                                       *)
(***************************************************************************)
EXTENDS ToolClients, SequenceTheorems, TLAPS

Msg ==
    {m \in [tool_call_id : Nat, call : Calls, status : {"ok", "blocked", "invalid"}] :
        m.tool_call_id = m.call[1]}

\* What the host holds and what it will be handed at the end of the turn.
Conversation == messages \o out

\* The call in hand parts the calls that have been dealt with from the rest.
Past(c) == c[2] < turn \/ (c[2] = turn /\ c[1] < at)
Future(c) == turn < c[2] \/ (c[2] = turn /\ at < c[1])

\* A turn that has ended, or that the next one follows, ended in an exception;
\* only a turn of openai has messages in hand.
Turns ==
    /\ client \in Clients /\ batch \in Batches
    /\ messages \in Seq(Msg) /\ out \in Seq(Msg)
    /\ pc \in {"between", "turn", "done"}
    /\ turn \in 0 .. MaxTurns
    /\ at \in 0 .. Len(batch) + 1
    /\ turn # 0 => at # 0
    /\ turn = 0 => pc = "between"
    /\ raised \subseteq 1 .. turn
    /\ \A n \in 1 .. turn : n < turn \/ pc = "between" => n \in raised
    /\ pc # "between" => turn \notin raised
    /\ pc = "done" => at = Len(batch) + 1
    /\ pc # "turn" \/ client # "openai" => out = <<>>
    /\ client = "bedrock" => Len(batch) = 1

GovernedTypes ==
    /\ stage \in [Calls -> {"idle"} \cup G!Open \cup G!Closed]
    /\ executed \subseteq Calls /\ denied \subseteq Calls /\ alerted \subseteq Calls
    /\ blocked \subseteq Calls /\ nested \subseteq Calls

CallInv(c) ==
    /\ stage[c] \in {"idle", "checking"} => c \notin executed
    /\ stage[c] \in {"executing", "reviewing"} => c \in executed
    /\ stage[c] = "returned" => c \in executed \ denied
    /\ stage[c] = "refused" => c \in denied \cap alerted
    /\ c \in nested => stage[c] = "aborted"
    /\ Future(c) \/ (c = Call /\ (at \in DOMAIN batch => IsMalformed)) => stage[c] = "idle"

Tells(m) ==
    /\ m.status = "ok" => stage[m.call] = "returned" /\ m.call \in executed \ denied
    /\ m.status = "blocked" =>
           (stage[m.call] = "refused" /\ m.call \in denied \cap alerted) \/ m.call \in nested
    /\ m.status = "invalid" => stage[m.call] = "idle" /\ m.call \notin executed

About(conversation, c) == \E i \in DOMAIN conversation : conversation[i].call = c

\* Every message is about a call that has been dealt with, so what it tells can
\* no longer change.
Said ==
    \A i \in DOMAIN Conversation :
        LET m == Conversation[i] IN
        /\ Past(m.call) /\ Tells(m)
        /\ \A j \in DOMAIN Conversation :
               /\ Conversation[j].call = m.call => j = i
               /\ i < j => m.call[2] <= Conversation[j].call[2]
        /\ m.status = "blocked" /\ client # "openai" => m.call \in blocked

BlockedSaid ==
    \A c \in blocked :
        \E i \in DOMAIN messages : messages[i].call = c /\ messages[i].status = "blocked"

\* The clients whose messages outlive a turn that raised; with the others all there
\* is to be said is of the current turn.
Retains == client \in {"langgraph", "kaos"}

Current ==
    ~Retains =>
        /\ \A i \in DOMAIN Conversation : Conversation[i].call[2] = turn
        /\ pc = "between" => Conversation = <<>>
        /\ client = "openai" /\ pc # "done" => messages = <<>>

\* In a turn, what has been started is told, is about to be, or is in hand.
Accounted ==
    /\ \A c \in executed :
        \/ Told(c)
        \/ /\ c[2] \in raised
           /\ client = "openai" \/ \A d \in executed : d[2] = c[2] => d[1] <= c[1]
        \/ pc = "turn" /\ c[2] = turn /\ (c = Call \/ About(Conversation, c))
    /\ pc # "between" => \A k \in DOMAIN batch : k < at => About(Conversation, <<k, turn>>)

IInv ==
    /\ Turns /\ GovernedTypes
    /\ \A c \in Calls : CallInv(c)
    /\ Said /\ BlockedSaid /\ Current /\ Accounted

-----------------------------------------------------------------------------
(* Calls and messages.                                                     *)

LEMMA CallTyped ==
    ASSUME NEW c \in Calls
    PROVE  c[1] \in Nat \ {0} /\ c[2] \in 1 .. MaxTurns /\ c[2] \in Nat /\ c = <<c[1], c[2]>>
<1>1. PICK b \in Batches : c \in (DOMAIN b) \X (1 .. MaxTurns)
  BY DEF Calls
<1>2. b \in Seq(Kind) /\ MaxTurns \in Nat
  BY BatchesAssumption, TurnsAssumption
<1>3. DOMAIN b \subseteq Nat \ {0} /\ 1 .. MaxTurns \subseteq Nat
  BY <1>2
<1> QED BY <1>1, <1>3

LEMMA Hand ==
    ASSUME Turns
    PROVE  /\ batch \in Seq(Kind) /\ DOMAIN batch = 1 .. Len(batch) /\ Len(batch) \in Nat
           /\ at \in Nat /\ turn \in Nat
           /\ Call[1] = at /\ Call[2] = turn
           /\ InHand => Call \in Calls
           /\ ~Past(Call) /\ ~Future(Call)
<1>1. batch \in Seq(Kind) /\ MaxTurns \in Nat
  BY BatchesAssumption, TurnsAssumption DEF Turns
<1>2. DOMAIN batch = 1 .. Len(batch) /\ Len(batch) \in Nat /\ at \in Nat /\ turn \in Nat
  BY <1>1 DEF Turns
<1>3. Call[1] = at /\ Call[2] = turn
  BY DEF Call
<1>4. InHand => Call \in Calls
  <2>1. InHand => at \in DOMAIN batch /\ turn \in 1 .. MaxTurns
    BY <1>1, <1>2 DEF InHand, Turns
  <2> QED BY <2>1 DEF Call, Calls, Turns
<1> QED BY <1>1, <1>2, <1>3, <1>4 DEF Past, Future

\* The host's messages are the first of the conversation.
LEMMA Heard ==
    ASSUME Turns
    PROVE  /\ Conversation \in Seq(Msg)
           /\ \A i \in DOMAIN messages : i \in DOMAIN Conversation /\ Conversation[i] = messages[i]
           /\ \A i \in DOMAIN Conversation : Conversation[i] \in Msg
           /\ out = <<>> => Conversation = messages
<1>1. messages \in Seq(Msg) /\ out \in Seq(Msg)
  BY DEF Turns
<1>2. Conversation \in Seq(Msg) /\ (out = <<>> => Conversation = messages)
  BY <1>1 DEF Conversation
<1>3. \A i \in DOMAIN messages : i \in DOMAIN Conversation /\ Conversation[i] = messages[i]
  BY <1>1 DEF Conversation
<1> QED BY <1>2, <1>3

LEMMA Extended ==
    ASSUME NEW S, NEW s \in Seq(S), NEW e \in S
    PROVE  LET x == Append(s, e) IN
           /\ x \in Seq(S)
           /\ DOMAIN x = DOMAIN s \cup {Len(s) + 1} /\ Len(s) + 1 \notin DOMAIN s
           /\ Len(s) + 1 \in Nat
           /\ x[Len(s) + 1] = e /\ \A i \in DOMAIN s : x[i] = s[i]
OBVIOUS

-----------------------------------------------------------------------------
LEMMA InitInv == Init => IInv
<1> SUFFICES ASSUME Init PROVE IInv
  OBVIOUS
<1>1. /\ client \in Clients /\ batch \in Batches
      /\ stage = [t \in Calls |-> "idle"] /\ executed = {} /\ denied = {} /\ alerted = {}
      /\ pc = "between" /\ turn = 0 /\ at = 0 /\ out = <<>> /\ messages = <<>>
      /\ blocked = {} /\ raised = {} /\ nested = {}
      /\ client = "bedrock" => Len(batch) = 1
  BY DEF Init, G!Init
<1>2. Len(batch) \in Nat /\ MaxTurns \in Nat
  BY <1>1, BatchesAssumption, TurnsAssumption
<1>3. Turns
  BY <1>1, <1>2 DEF Turns
<1>4. GovernedTypes
  BY <1>1 DEF GovernedTypes
<1>5. \A c \in Calls : CallInv(c)
  BY <1>1 DEF CallInv
<1>6. Conversation = <<>>
  BY <1>1 DEF Conversation
<1> QED BY <1>1, <1>3, <1>4, <1>5, <1>6 DEF IInv, Said, BlockedSaid, Current, Accounted

-----------------------------------------------------------------------------
(* The steps.                                                              *)

\* Governance touches nothing but the call in hand.
LEMMA Touches ==
    ASSUME IInv, Governed \/ ToolViolates
    PROVE  /\ UNCHANGED <<fixed, pc, turn, at, out, messages, blocked, raised>>
           /\ InHand /\ ~IsMalformed /\ Call \in Calls
           /\ GovernedTypes'
           /\ executed' \subseteq executed \cup {Call} /\ executed \subseteq executed'
           /\ \A c \in Calls \ {Call} : /\ stage'[c] = stage[c]
                                        /\ c \in executed' <=> c \in executed
                                        /\ c \in denied' <=> c \in denied
                                        /\ c \in alerted' <=> c \in alerted
                                        /\ c \in nested' <=> c \in nested
           /\ stage'[Call] \in {"idle", "checking"} => Call \notin executed'
           /\ stage'[Call] \in {"executing", "reviewing"} => Call \in executed'
           /\ stage'[Call] = "returned" => Call \in executed' \ denied'
           /\ stage'[Call] = "refused" => Call \in denied' \cap alerted'
           /\ Call \in nested' => stage'[Call] = "aborted"
<1>1. /\ UNCHANGED <<fixed, pc, turn, at, out, messages, blocked, raised>>
      /\ InHand /\ ~IsMalformed
      /\ \/ G!Begin(Call) \/ G!Deny(Call) \/ G!Alert(Call) \/ G!Execute(Call)
         \/ G!Answer(Call) \/ G!Release(Call) \/ G!Refuse(Call) \/ G!Abort(Call)
      /\ nested' = nested \/ (nested' = nested \cup {Call} /\ G!Abort(Call))
  BY DEF Governed, ToolViolates
<1> DEFINE c0 == Call
<1>2. c0 \in Calls
  BY <1>1, Hand DEF IInv
<1>3. /\ stage \in [Calls -> {"idle"} \cup G!Open \cup G!Closed]
      /\ executed \subseteq Calls /\ denied \subseteq Calls /\ alerted \subseteq Calls
      /\ blocked \subseteq Calls /\ nested \subseteq Calls
  BY DEF IInv, GovernedTypes
<1>4. CallInv(c0)
  BY <1>2 DEF IInv
<1>13. /\ nested' \subseteq Calls /\ \A c \in Calls \ {c0} : c \in nested' <=> c \in nested
       /\ c0 \in nested' => stage'[c0] = "aborted"
  <2>1. CASE nested' = nested /\ c0 \in nested
    <3>1. stage[c0] = "aborted"
      BY <1>4, <2>1 DEF CallInv
    <3>2. stage' = stage
      BY <1>1, <3>1 DEF G!Begin, G!Deny, G!Alert, G!Execute, G!Answer, G!Release, G!Refuse,
         G!Abort, G!Move, G!Open
    <3> QED BY <1>3, <2>1, <3>1, <3>2
  <2>2. CASE nested' = nested /\ c0 \notin nested
    BY <1>3, <2>2
  <2>3. CASE nested' = nested \cup {c0} /\ G!Abort(c0)
    BY <1>2, <1>3, <2>3 DEF G!Abort
  <2> QED BY <1>1, <2>1, <2>2, <2>3
<1> HIDE DEF c0
<1>5. CASE G!Begin(c0)
  BY <1>1, <1>2, <1>3, <1>4, <1>13, <1>5
     DEF G!Begin, G!Move, GovernedTypes, CallInv, G!Open, G!Closed, c0
<1>6. CASE G!Deny(c0)
  BY <1>1, <1>2, <1>3, <1>4, <1>13, <1>6 DEF G!Deny, GovernedTypes, CallInv, c0
<1>7. CASE G!Alert(c0)
  BY <1>1, <1>2, <1>3, <1>4, <1>13, <1>7 DEF G!Alert, GovernedTypes, CallInv, c0
<1>8. CASE G!Execute(c0)
  BY <1>1, <1>2, <1>3, <1>4, <1>13, <1>8
     DEF G!Execute, G!Move, GovernedTypes, CallInv, G!Open, G!Closed, c0
<1>9. CASE G!Answer(c0)
  BY <1>1, <1>2, <1>3, <1>4, <1>13, <1>9
     DEF G!Answer, G!Move, GovernedTypes, CallInv, G!Open, G!Closed, c0
<1>10. CASE G!Release(c0)
  BY <1>1, <1>2, <1>3, <1>4, <1>13, <1>10
     DEF G!Release, G!Move, GovernedTypes, CallInv, G!Open, G!Closed, c0
<1>11. CASE G!Refuse(c0)
  BY <1>1, <1>2, <1>3, <1>4, <1>13, <1>11
     DEF G!Refuse, GovernedTypes, CallInv, G!Open, G!Closed, c0
<1>12. CASE G!Abort(c0)
  BY <1>1, <1>2, <1>3, <1>4, <1>13, <1>12
     DEF G!Abort, GovernedTypes, CallInv, G!Open, G!Closed, c0
<1> QED BY <1>1, <1>5, <1>6, <1>7, <1>8, <1>9, <1>10, <1>11, <1>12 DEF c0

LEMMA GovernedKeeps == IInv /\ (Governed \/ ToolViolates) => IInv'
<1> SUFFICES ASSUME IInv, Governed \/ ToolViolates PROVE IInv'
  OBVIOUS
<1>1. /\ client' = client /\ batch' = batch
      /\ UNCHANGED <<pc, turn, at, out, messages, blocked, raised>>
      /\ InHand /\ ~IsMalformed /\ Call \in Calls /\ GovernedTypes'
      /\ Call' = Call /\ Conversation' = Conversation
  BY Touches DEF fixed, Call, Conversation
<1>2. Turns'
  BY <1>1 DEF IInv, Turns
<1>3. ASSUME NEW c \in Calls PROVE CallInv(c)'
  <2>1. Future(c)' <=> Future(c)
    BY <1>1 DEF Future
  <2>2. IsMalformed' <=> IsMalformed
    BY <1>1 DEF IsMalformed, Is, normalize_event
  <2>3. CASE c = Call
    <3>1. ~Future(c) /\ at \in DOMAIN batch
      BY <1>1, <2>3, Hand DEF IInv, InHand
    <3> QED BY <1>1, <2>1, <2>2, <2>3, <3>1, Touches DEF CallInv
  <2>4. CASE c # Call
    <3>1. CallInv(c)
      BY DEF IInv
    <3> QED BY <1>1, <2>1, <2>2, <2>4, <3>1, Touches DEF CallInv
  <2> QED BY <2>3, <2>4
<1>4. Said'
  <2>1. ASSUME NEW m \in Msg, Past(m.call), Tells(m)  PROVE Past(m.call)' /\ Tells(m)'
    <3>1. m.call # Call /\ Past(m.call)'
      BY <1>1, <2>1, Hand DEF IInv, Past
    <3>2. m.call \in Calls
      BY DEF Msg
    <3> QED BY <2>1, <3>1, <3>2, Touches DEF Tells
  <2>2. \A i \in DOMAIN Conversation : Conversation[i] \in Msg
    BY Heard DEF IInv
  <2>3. \A i \in DOMAIN Conversation : Past(Conversation[i].call)' /\ Tells(Conversation[i])'
    BY <1>1, <2>1, <2>2 DEF IInv, Said
  <2> QED BY <1>1, <2>3 DEF IInv, Said
<1>5. BlockedSaid'
  BY <1>1 DEF IInv, BlockedSaid
<1>6. Accounted'
  <2>1. \A c : Told(c)' <=> Told(c)
    BY <1>1 DEF Told
  <2>2. pc' # "between" => \A k \in DOMAIN batch' : k < at' => About(Conversation', <<k, turn'>>)
    BY <1>1 DEF IInv, Accounted
  <2>3. ASSUME NEW c \in executed'
        PROVE  \/ Told(c)'
               \/ /\ c[2] \in raised'
                  /\ client' = "openai" \/ \A d \in executed' : d[2] = c[2] => d[1] <= c[1]
               \/ pc' = "turn" /\ c[2] = turn' /\ (c = Call' \/ About(Conversation', c))
    <3>1. Call[2] = turn /\ turn \notin raised /\ pc = "turn"
      BY <1>1, Hand DEF IInv, Turns, InHand
    <3>2. CASE c = Call
      BY <1>1, <3>1, <3>2
    <3>3. CASE c # Call
      <4>1. c \in executed
        BY <3>3, Touches
      <4>2. c[2] \in raised => \A d \in executed' : d[2] = c[2] => d \in executed
        BY <3>1, Touches
      <4> QED BY <1>1, <2>1, <4>1, <4>2 DEF IInv, Accounted
    <3> QED BY <3>2, <3>3
  <2> QED BY <2>2, <2>3 DEF Accounted
<1>7. Current'
  BY <1>1 DEF IInv, Current, Retains
<1> QED BY <1>1, <1>2, <1>3, <1>4, <1>5, <1>6, <1>7 DEF IInv, Calls

\* What a message tells does not change while governance does nothing.
LEMMA StillTells ==
    ASSUME UNCHANGED governed, NEW m \in Msg
    PROVE  Tells(m)' <=> Tells(m)
BY DEF governed, Tells

\* The call in hand gets a message, and the next one comes to hand.
LEMMA SpeakKeeps ==
    ASSUME IInv, InHand, NEW m \in Msg, m.call = Call, Tells(m),
           UNCHANGED <<fixed, governed, pc, turn, raised>>, at' = at + 1,
           \/ /\ client = "openai"
              /\ messages' = messages /\ out' = Append(out, m)
              /\ blocked' = blocked
           \/ /\ client # "openai"
              /\ messages' = Append(messages, m) /\ out' = out
              /\ blocked' = IF m.status = "blocked" THEN blocked \cup {Call} ELSE blocked
    PROVE  IInv'
<1> DEFINE n == Len(Conversation) + 1
<1>1. /\ client' = client /\ batch' = batch /\ pc = "turn" /\ at \in DOMAIN batch
      /\ UNCHANGED <<stage, executed, denied, alerted, nested, pc, turn, raised>>
  BY DEF fixed, governed, InHand
<1>2. Call \in Calls /\ at \in 1 .. Len(batch) /\ Len(batch) \in Nat /\ turn \in Nat
      /\ Call[1] = at /\ Call[2] = turn /\ ~Past(Call) /\ batch \in Seq(Kind)
  BY Hand DEF IInv, InHand
<1>3. messages \in Seq(Msg) /\ out \in Seq(Msg) /\ (client # "openai" => out = <<>>)
  BY DEF IInv, Turns
<1>4. Conversation' = Append(Conversation, m)
  <2>1. CASE client = "openai"
    <3>1. messages \o Append(out, m) = Append(messages \o out, m)
      BY <1>3
    <3> QED BY <2>1, <3>1 DEF Conversation
  <2>2. CASE client # "openai"
    <3>1. messages \o <<>> = messages /\ Append(messages, m) \o <<>> = Append(messages, m)
      BY <1>3
    <3> QED BY <1>3, <2>2, <3>1 DEF Conversation
  <2> QED BY <2>1, <2>2
<1>5. /\ Conversation \in Seq(Msg) /\ n \in Nat
      /\ DOMAIN Conversation' = DOMAIN Conversation \cup {n} /\ n \notin DOMAIN Conversation
      /\ Conversation'[n] = m
      /\ \A i \in DOMAIN Conversation : Conversation'[i] = Conversation[i] /\ Conversation[i] \in Msg
  <2>1. Conversation \in Seq(Msg) /\ \A i \in DOMAIN Conversation : Conversation[i] \in Msg
    BY Heard DEF IInv
  <2> HIDE DEF Conversation
  <2> QED BY <1>4, <2>1, Extended
<1> HIDE DEF n
<1>6. Turns'
  <2>1. messages' \in Seq(Msg) /\ out' \in Seq(Msg) /\ (client # "openai" => out' = <<>>)
    <3>1. Append(messages, m) \in Seq(Msg) /\ Append(out, m) \in Seq(Msg)
      BY <1>3
    <3> QED BY <1>3, <3>1, Zenon
  <2>2. at' \in 0 .. Len(batch) + 1 /\ at' # 0
    BY <1>2
  <2> QED BY <1>1, <2>1, <2>2 DEF IInv, Turns
<1>7. GovernedTypes'
  BY <1>1, <1>2 DEF IInv, GovernedTypes
<1>8. ASSUME NEW c \in Calls PROVE CallInv(c)'
  <2>1. Future(c)' => Future(c)
    BY <1>1, <1>2, CallTyped DEF Future
  <2>2. c = Call' => Future(c)
    BY <1>1, <1>2 DEF Future, Call
  <2>3. CallInv(c)
    BY DEF IInv
  <2> QED BY <1>1, <2>1, <2>2, <2>3 DEF CallInv
<1>9. \A c \in Calls : (Past(c) => Past(c)') /\ (c = Call => Past(c)')
  <2> TAKE c \in Calls
  <2>1. c[1] \in Nat
    BY CallTyped
  <2> QED BY <1>1, <1>2, <2>1 DEF Past
<1>10. Said'
  <2>1. \A i \in DOMAIN Conversation :
            /\ Conversation[i].call \in Calls
            /\ Past(Conversation[i].call) /\ Tells(Conversation[i])
            /\ \A j \in DOMAIN Conversation :
                   /\ Conversation[j].call = Conversation[i].call => j = i
                   /\ i < j => Conversation[i].call[2] <= Conversation[j].call[2]
            /\ Conversation[i].status = "blocked" /\ client # "openai" => Conversation[i].call \in blocked
    BY <1>5 DEF IInv, Said, Msg
  <2>2. blocked \subseteq blocked' /\ (m.status = "blocked" /\ client # "openai" => m.call \in blocked')
    OBVIOUS
  <2>3. \A x \in Msg : Tells(x)' <=> Tells(x)
    BY StillTells
  <2>4. \A i \in DOMAIN Conversation :
            /\ Conversation[i].call # m.call /\ Conversation[i].call[2] <= m.call[2]
            /\ i < n /\ ~(n < i)
    <3> TAKE i \in DOMAIN Conversation
    <3>1. Conversation[i].call # m.call
      BY <1>2, <2>1
    <3>2. Conversation[i].call[2] \in Nat /\ Past(Conversation[i].call)
      BY <2>1, CallTyped
    <3>3. Conversation[i].call[2] <= m.call[2]
      BY <1>2, <3>2 DEF Past
    <3>4. DOMAIN Conversation = 1 .. Len(Conversation) /\ Len(Conversation) \in Nat
      BY <1>5
    <3>5. i < n /\ ~(n < i)
      BY <3>4 DEF n
    <3> QED BY <3>1, <3>3, <3>5
  <2>5. ASSUME NEW i \in DOMAIN Conversation', NEW x \in Msg, x = Conversation'[i]
        PROVE  /\ Past(x.call)' /\ Tells(x)'
               /\ \A j \in DOMAIN Conversation' :
                      /\ Conversation'[j].call = x.call => j = i
                      /\ i < j => x.call[2] <= Conversation'[j].call[2]
               /\ x.status = "blocked" /\ client' # "openai" => x.call \in blocked'
    <3>1. CASE i = n
      <4>1. x = m
        BY <1>5, <2>5, <3>1
      <4>2. Past(m.call)' /\ Tells(m)'
        BY <1>2, <1>9, <2>3
      <4>3. \A j \in DOMAIN Conversation' :
                /\ Conversation'[j].call = x.call => j = i
                /\ i < j => x.call[2] <= Conversation'[j].call[2]
        BY <1>5, <2>4, <3>1, <4>1
      <4> QED BY <1>1, <2>2, <4>1, <4>2, <4>3
    <3>2. CASE i \in DOMAIN Conversation
      <4>1. x = Conversation[i]
        BY <1>5, <2>5, <3>2
      <4>2. Past(x.call)' /\ Tells(x)'
        BY <1>9, <2>1, <2>3, <3>2, <4>1
      <4>3. \A j \in DOMAIN Conversation' :
                /\ Conversation'[j].call = x.call => j = i
                /\ i < j => x.call[2] <= Conversation'[j].call[2]
        BY <1>5, <2>1, <2>4, <3>2, <4>1
      <4> QED BY <1>1, <2>1, <2>2, <3>2, <4>1, <4>2, <4>3
    <3> QED BY <1>5, <3>1, <3>2
  <2>6. \A i \in DOMAIN Conversation' : Conversation'[i] \in Msg
    BY <1>5
  <2> QED BY <2>5, <2>6 DEF Said
<1>11. BlockedSaid'
  <2>1. SUFFICES ASSUME NEW c \in blocked'
                 PROVE  \E i \in DOMAIN messages' :
                            messages'[i].call = c /\ messages'[i].status = "blocked"
    BY DEF BlockedSaid
  <2>2. \A i \in DOMAIN messages : i \in DOMAIN messages' /\ messages'[i] = messages[i]
    BY <1>3, Extended
  <2>3. CASE c \in blocked
    BY <2>2, <2>3 DEF IInv, BlockedSaid
  <2>4. CASE c \notin blocked
    <3>1. messages' = Append(messages, m) /\ m.status = "blocked" /\ c = m.call
      BY <2>1, <2>4
    <3>3. Len(messages) + 1 \in DOMAIN messages' /\ messages'[Len(messages) + 1] = m
      BY <1>3, <3>1, Extended
    <3> QED BY <3>1, <3>3
  <2> QED BY <2>3, <2>4
<1>13. Current'
  <2>1. SUFFICES ASSUME ~Retains PROVE Current'
    BY <1>1 DEF Current, Retains
  <2>2. ASSUME NEW i \in DOMAIN Conversation' PROVE Conversation'[i].call[2] = turn
    BY <1>2, <1>5, <2>1 DEF IInv, Current
  <2>3. client = "openai" => messages' = <<>>
    BY <1>1, <2>1 DEF IInv, Current
  <2> QED BY <1>1, <2>2, <2>3 DEF Current
<1>12. Accounted'
  <2>1. \A c : About(Conversation, c) => About(Conversation', c)
    BY <1>5 DEF About
  <2>2. About(Conversation', Call)
    BY <1>5 DEF About
  <2>3. \A c : Told(c) => Told(c)'
    <3>1. \A i \in DOMAIN messages : i \in DOMAIN messages' /\ messages'[i] = messages[i]
      BY <1>3, Extended
    <3> QED BY <3>1 DEF Told
  <2>4. \A k \in DOMAIN batch' : k < at' => About(Conversation', <<k, turn'>>)
    <3>1. SUFFICES ASSUME NEW k \in DOMAIN batch, k < at + 1 PROVE About(Conversation', <<k, turn>>)
      BY <1>1
    <3>2. k < at \/ <<k, turn>> = Call
      BY <1>2, <3>1 DEF Call
    <3>3. k < at => About(Conversation, <<k, turn>>)
      BY <1>1 DEF IInv, Accounted
    <3> QED BY <2>1, <2>2, <3>2, <3>3
  <2>5. ASSUME NEW c \in executed'
        PROVE  \/ Told(c)'
               \/ /\ c[2] \in raised'
                  /\ client' = "openai" \/ \A d \in executed' : d[2] = c[2] => d[1] <= c[1]
               \/ pc' = "turn" /\ c[2] = turn' /\ (c = Call' \/ About(Conversation', c))
    BY <1>1, <2>1, <2>2, <2>3 DEF IInv, Accounted
  <2> QED BY <2>4, <2>5 DEF Accounted
<1> QED BY <1>6, <1>7, <1>8, <1>10, <1>11, <1>12, <1>13 DEF IInv, fixed, Calls

\* An exception leaves the host with what it holds, and its turn is marked.
LEMMA RaiseKeeps ==
    ASSUME IInv, InHand, Raise, UNCHANGED <<fixed, governed>>
    PROVE  IInv'
<1>1. /\ client' = client /\ batch' = batch /\ pc = "turn" /\ pc' = "between"
      /\ at \in DOMAIN batch /\ out' = <<>> /\ raised' = raised \cup {turn}
      /\ UNCHANGED <<stage, executed, denied, alerted, nested, turn, at, messages, blocked>>
  BY DEF fixed, governed, InHand, Raise
<1>2. /\ turn \in Nat /\ turn # 0 /\ Call[1] = at /\ Call[2] = turn
      /\ Call' = Call /\ messages \in Seq(Msg) /\ Conversation' = messages
  <2>1. messages \in Seq(Msg) /\ turn # 0
    BY <1>1 DEF IInv, Turns
  <2>2. messages \o <<>> = messages
    BY <2>1
  <2> QED BY <1>1, <2>1, <2>2, Hand DEF IInv, Conversation, Call
<1>3. Turns'
  <2>1. turn \in 1 .. turn /\ \A n \in 1 .. turn : n < turn \/ n = turn
    BY <1>2
  <2> QED BY <1>1, <2>1 DEF IInv, Turns
<1>4. GovernedTypes'
  BY <1>1 DEF IInv, GovernedTypes
<1>5. ASSUME NEW c \in Calls PROVE CallInv(c)'
  <2>1. CallInv(c) /\ (Future(c)' <=> Future(c)) /\ (IsMalformed' <=> IsMalformed)
    BY <1>1 DEF IInv, Future, IsMalformed, Is, normalize_event
  <2> QED BY <1>1, <1>2, <2>1 DEF CallInv
<1>6. Said'
  <2>1. \A x \in Msg : (Tells(x)' <=> Tells(x)) /\ (Past(x.call)' <=> Past(x.call))
    BY <1>1, StillTells DEF Past
  <2>2. \A i \in DOMAIN messages :
            i \in DOMAIN Conversation /\ Conversation[i] = messages[i] /\ messages[i] \in Msg
    BY <1>2, Heard DEF IInv
  <2>3. ASSUME NEW i \in DOMAIN messages, NEW x \in Msg, x = messages[i]
        PROVE  /\ Past(x.call)' /\ Tells(x)'
               /\ \A j \in DOMAIN messages :
                      /\ messages[j].call = x.call => j = i
                      /\ i < j => x.call[2] <= messages[j].call[2]
               /\ x.status = "blocked" /\ client' # "openai" => x.call \in blocked'
    BY <1>1, <2>1, <2>2, <2>3 DEF IInv, Said
  <2> QED BY <1>2, <2>2, <2>3 DEF Said
<1>7. BlockedSaid'
  BY <1>1 DEF IInv, BlockedSaid
<1>8. Accounted'
  <2>1. ASSUME NEW c \in executed
        PROVE  \/ Told(c)
               \/ /\ c[2] \in raised'
                  /\ client = "openai" \/ \A d \in executed : d[2] = c[2] => d[1] <= c[1]
    <3>1. CASE c[2] \in raised /\ (client = "openai" \/ \A d \in executed : d[2] = c[2] => d[1] <= c[1])
      BY <1>1, <3>1
    <3>2. CASE c[2] = turn /\ client = "openai"
      BY <1>1, <3>2
    <3>3. CASE c = Call
      <4>1. ASSUME NEW d \in executed, d[2] = turn PROVE d[1] <= at
        <5>1. d \in Calls /\ d[1] \in Nat
          BY CallTyped DEF IInv, GovernedTypes
        <5>2. ~Future(d)
          BY <5>1 DEF IInv, CallInv
        <5> QED BY <4>1, <5>1, <5>2, Hand DEF IInv, Future
      <4> QED BY <1>1, <1>2, <3>3, <4>1
    <3>4. CASE About(Conversation, c) /\ client # "openai"
      <4>1. Conversation = messages
        BY <3>4, Heard DEF IInv, Turns
      <4> QED BY <3>4, <4>1 DEF About, Told
    <3> QED BY <3>1, <3>2, <3>3, <3>4 DEF IInv, Accounted
  <2>2. \A c : Told(c)' <=> Told(c)
    BY <1>1 DEF Told
  <2> QED BY <1>1, <2>1, <2>2 DEF Accounted
<1>9. ~Retains => messages = <<>>
  <2>1. CASE client = "openai"
    BY <1>1, <2>1 DEF IInv, Current, Retains
  <2>2. CASE client = "bedrock"
    \* Its one call is in hand, and nothing has been said of the turn.
    <3>1. at = 1 /\ out = <<>>
      BY <1>1, <2>2, Hand DEF IInv, Turns
    <3>2. Conversation = messages
      BY <3>1, Heard DEF IInv
    <3>3. ASSUME NEW i \in DOMAIN messages PROVE FALSE
      <4>1. messages[i] \in Msg /\ Past(messages[i].call) /\ messages[i].call[2] = turn
        BY <2>2, <3>2, Heard DEF IInv, Said, Current, Retains
      <4>2. messages[i].call[1] \in Nat \ {0}
        BY <4>1, CallTyped DEF Msg
      <4> QED BY <1>2, <3>1, <4>1, <4>2 DEF Past
    <3> QED BY <1>2, <3>3
  <2>3. client \in {"openai", "langgraph", "bedrock", "kaos"}
    BY ClientsAssumption DEF IInv, Turns
  <2> QED BY <2>1, <2>2, <2>3 DEF Retains
<1>10. Current'
  BY <1>1, <1>2, <1>9 DEF Current, Retains
<1> QED BY <1>1, <1>3, <1>4, <1>5, <1>6, <1>7, <1>8, <1>10 DEF IInv, Calls

LEMMA StartTurnKeeps == IInv /\ StartTurn => IInv'
<1> SUFFICES ASSUME IInv, StartTurn PROVE IInv'
  OBVIOUS
<1>1. /\ pc = "between" /\ turn < MaxTurns /\ pc' = "turn" /\ turn' = turn + 1 /\ at' = 1
      /\ client' = client /\ batch' = batch
      /\ UNCHANGED <<governed, stage, executed, denied, alerted, nested, out, messages, blocked, raised>>
  BY DEF StartTurn, fixed, governed
<1>2. /\ turn \in Nat /\ Len(batch) \in Nat /\ MaxTurns \in Nat /\ raised \subseteq 1 .. turn
      /\ Conversation = messages /\ Conversation' = Conversation
  BY <1>1, Hand, Heard, TurnsAssumption DEF IInv, Turns, Conversation
<1>3. Turns'
  <2>1. /\ \A n \in 1 .. turn + 1 : n < turn + 1 => n \in 1 .. turn
        /\ 1 .. turn \subseteq 1 .. turn + 1 /\ turn + 1 \in 0 .. MaxTurns /\ turn + 1 \notin 1 .. turn
        /\ 1 \in 0 .. Len(batch) + 1
    BY <1>1, <1>2
  <2>2. ASSUME NEW n \in 1 .. turn', n < turn' \/ pc' = "between" PROVE n \in raised'
    BY <1>1, <2>1, <2>2 DEF IInv, Turns
  <2>3. turn' \notin raised' /\ raised' \subseteq 1 .. turn'
    BY <1>1, <1>2, <2>1
  <2> QED BY <1>1, <1>2, <2>1, <2>2, <2>3 DEF IInv, Turns
<1>4. GovernedTypes'
  BY <1>1 DEF IInv, GovernedTypes
<1>5. ASSUME NEW c \in Calls PROVE CallInv(c)'
  <2>1. c[1] \in Nat \ {0} /\ c[2] \in Nat /\ CallInv(c)
    BY CallTyped DEF IInv
  <2>2. Future(c)' \/ c = Call' => Future(c)
    BY <1>1, <1>2, <2>1 DEF Future, Call
  <2> QED BY <1>1, <2>1, <2>2 DEF CallInv
<1>6. Said'
  <2>1. \A i \in DOMAIN Conversation : Conversation[i] \in Msg
    BY Heard DEF IInv
  <2>2. ASSUME NEW x \in Msg, Past(x.call) PROVE Past(x.call)'
    <3>1. x.call[2] \in Nat
      BY CallTyped DEF Msg
    <3> QED BY <1>1, <1>2, <2>2, <3>1 DEF Past
  <2>3. \A x \in Msg : Tells(x)' <=> Tells(x)
    BY <1>1, StillTells
  <2> QED BY <1>1, <1>2, <2>1, <2>2, <2>3 DEF IInv, Said
<1>7. BlockedSaid'
  BY <1>1 DEF IInv, BlockedSaid
<1>8. Accounted'
  <2>1. \A c : Told(c)' <=> Told(c)
    BY <1>1 DEF Told
  <2>2. \A k \in DOMAIN batch : ~(k < 1)
    BY Hand DEF IInv
  <2> QED BY <1>1, <2>1, <2>2 DEF IInv, Accounted
<1>9. Current'
  BY <1>1, <1>2 DEF IInv, Current, Retains
<1> QED BY <1>1, <1>3, <1>4, <1>5, <1>6, <1>7, <1>8, <1>9 DEF IInv, Calls

LEMMA EndTurnKeeps == IInv /\ EndTurn => IInv'
<1> SUFFICES ASSUME IInv, EndTurn PROVE IInv'
  OBVIOUS
<1>1. /\ pc = "turn" /\ at > Len(batch) /\ pc' = "done"
      /\ messages' = Conversation /\ out' = <<>>
      /\ client' = client /\ batch' = batch
      /\ UNCHANGED <<governed, stage, executed, denied, alerted, nested, turn, at, blocked, raised>>
  BY DEF EndTurn, fixed, governed, Conversation
<1>2. /\ Len(batch) \in Nat /\ at = Len(batch) + 1 /\ turn \in Nat /\ Call' = Call
      /\ DOMAIN batch = 1 .. Len(batch)
      /\ Conversation \in Seq(Msg) /\ \A i \in DOMAIN Conversation : Conversation[i] \in Msg
  BY <1>1, Hand, Heard DEF IInv, Turns, Call
<1>3. Conversation' = Conversation
  <2>1. Conversation \o <<>> = Conversation
    <3> HIDE DEF Conversation
    <3> QED BY <1>2
  <2>2. Conversation' = messages' \o out'
    BY DEF Conversation
  <2> QED BY <1>1, <2>1, <2>2
<1>4. Turns'
  BY <1>1, <1>2 DEF IInv, Turns
<1>5. GovernedTypes'
  BY <1>1 DEF IInv, GovernedTypes
<1>6. ASSUME NEW c \in Calls PROVE CallInv(c)'
  <2>1. CallInv(c) /\ (Future(c)' <=> Future(c)) /\ (IsMalformed' <=> IsMalformed)
    BY <1>1 DEF IInv, Future, IsMalformed, Is, normalize_event
  <2> QED BY <1>1, <1>2, <2>1 DEF CallInv
<1>7. Said'
  <2>1. \A x \in Msg : (Tells(x)' <=> Tells(x)) /\ (Past(x.call)' <=> Past(x.call))
    BY <1>1, StillTells DEF Past
  <2> QED BY <1>1, <1>2, <1>3, <2>1 DEF IInv, Said
<1>8. BlockedSaid'
  BY <1>1, Heard DEF IInv, BlockedSaid
<1>9. Accounted'
  <2>1. \A c : About(Conversation, c) => Told(c)'
    BY <1>1 DEF About, Told
  <2>2. \A c : Told(c) => Told(c)'
    BY <1>1, Heard DEF IInv, Told
  <2>3. Call \notin executed
    <3>1. ASSUME Call \in Calls PROVE Call \notin executed
      <4>1. CallInv(Call) /\ at \notin DOMAIN batch
        BY <1>2, <3>1 DEF IInv
      <4> QED BY <4>1 DEF CallInv
    <3> QED BY <3>1 DEF IInv, GovernedTypes
  <2> QED BY <1>1, <1>3, <2>1, <2>2, <2>3 DEF IInv, Accounted
<1>10. Current'
  BY <1>1, <1>3 DEF IInv, Current, Retains
<1> QED BY <1>1, <1>4, <1>5, <1>6, <1>7, <1>8, <1>9, <1>10 DEF IInv, Calls

\* The clients say of the call in hand what governance did.
LEMMA Truthful ==
    ASSUME IInv, InHand
    PROVE  /\ \A status \in {"ok", "blocked", "invalid"} :
                 /\ Message(status) \in Msg
                 /\ Message(status).call = Call /\ Message(status).status = status
           /\ Returned => Tells(Message("ok"))
           /\ Violated => Tells(Message("blocked"))
           /\ IsMalformed => Tells(Message("invalid"))
<1>1. Call \in Calls
  BY Hand DEF IInv
<1>2. \A status \in {"ok", "blocked", "invalid"} :
          /\ Message(status) \in Msg
          /\ Message(status).call = Call /\ Message(status).status = status
  BY <1>1, Hand DEF IInv, Message, Msg
<1>3. CallInv(Call)
  BY <1>1 DEF IInv
<1>4. Returned => Tells(Message("ok"))
  BY <1>2, <1>3 DEF Tells, Returned, CallInv
<1>5. Violated => Tells(Message("blocked"))
  BY <1>2, <1>3 DEF Tells, Violated, CallInv
<1>6. IsMalformed => Tells(Message("invalid"))
  BY <1>2, <1>3 DEF Tells, CallInv
<1> QED BY <1>2, <1>4, <1>5, <1>6

LEMMA SayKeeps ==
    ASSUME IInv, InHand, client = "openai", NEW status \in {"ok", "blocked", "invalid"},
           Tells(Message(status)), SayLocally(status), UNCHANGED <<fixed, governed>>
    PROVE  IInv'
<1>1. PICK m \in Msg : m = Message(status)
  BY Truthful
<1>2. /\ m.call = Call /\ Tells(m) /\ at' = at + 1
      /\ messages' = messages /\ out' = Append(out, m) /\ blocked' = blocked
      /\ UNCHANGED <<fixed, governed, pc, turn, raised>>
  BY <1>1, Truthful DEF SayLocally
<1> QED BY <1>2, SpeakKeeps

LEMMA TellKeeps ==
    ASSUME IInv, InHand, client # "openai", NEW status \in {"ok", "blocked", "invalid"},
           Tells(Message(status)), Tell(status), UNCHANGED <<fixed, governed>>
    PROVE  IInv'
<1>1. PICK m \in Msg : m = Message(status)
  BY Truthful
<1>2. /\ m.call = Call /\ m.status = status /\ Tells(m) /\ at' = at + 1
      /\ messages' = Append(messages, m) /\ out' = out
      /\ blocked' = IF m.status = "blocked" THEN blocked \cup {Call} ELSE blocked
      /\ UNCHANGED <<fixed, governed, pc, turn, raised>>
  BY <1>1, Truthful DEF Tell
<1> QED BY <1>2, SpeakKeeps

LEMMA ClientKeeps == IInv /\ Client => IInv'
<1> SUFFICES ASSUME IInv, Client PROVE IInv'
  OBVIOUS
<1>1. /\ Returned => InHand
      /\ Violated => InHand
      /\ Failed => InHand
  BY DEF Returned, Violated, Failed
<1>2. CASE OpenAIDispatch
  BY <1>1, <1>2, Truthful, SayKeeps, RaiseKeeps DEF OpenAIDispatch
<1>3. CASE ToolsNode
  BY <1>1, <1>3, Truthful, TellKeeps, RaiseKeeps DEF ToolsNode
<1>4. CASE BedrockHandle
  BY <1>1, <1>4, Truthful, TellKeeps, RaiseKeeps DEF BedrockHandle
<1>5. CASE KaosRun
  BY <1>1, <1>5, Truthful, TellKeeps, RaiseKeeps DEF KaosRun
<1> QED BY <1>2, <1>3, <1>4, <1>5 DEF Client

LEMMA NextInv == IInv /\ [Next]_vars => IInv'
<1> SUFFICES ASSUME IInv, [Next]_vars PROVE IInv'
  OBVIOUS
<1>1. CASE UNCHANGED vars
  <2>1. /\ UNCHANGED <<fixed, governed, client, batch, stage, executed, denied, alerted, nested>>
        /\ UNCHANGED <<pc, turn, at>>
        /\ UNCHANGED <<out, messages, blocked, raised, Conversation, Call>>
    BY <1>1 DEF vars, fixed, governed, Conversation, Call
  <2>2. Turns' /\ GovernedTypes' /\ BlockedSaid' /\ Current' /\ Accounted'
    BY <2>1 DEF IInv, Turns, GovernedTypes, BlockedSaid, Current, Retains, Accounted, Told
  <2>3. \A c \in Calls : CallInv(c)'
    BY <2>1 DEF IInv, CallInv, Future, IsMalformed, Is, normalize_event
  <2>4. Said'
    BY <2>1 DEF IInv, Said, Past, Tells
  <2> QED BY <2>2, <2>3, <2>4 DEF IInv
<1> QED BY <1>1, StartTurnKeeps, GovernedKeeps, ClientKeeps, EndTurnKeeps DEF Next

LEMMA Always == Spec => []IInv
<1> QED BY InitInv, NextInv, PTL DEF Spec

\* A client only ever dispatches calls of its turn, and the state is what the
\* declarations say.
THEOREM ClientTypes == Spec => []TypeOK
<1>1. IInv => TypeOK
  BY DEF IInv, Turns, GovernedTypes, TypeOK
<1> QED BY <1>1, Always, PTL

\* What the model reads is what governance did, and no tool_call_id is answered
\* twice but by a host that keeps the messages of a turn that raised; whatever the
\* turn, whichever tools fail and however often the host starts over.
THEOREM ClientsTellTruth == Spec => []MessagesTellTruth
<1>1. ASSUME IInv PROVE MessagesTellTruth
  <2>1. \A i \in DOMAIN messages : i \in DOMAIN Conversation /\ Conversation[i] = messages[i]
    BY <1>1, Heard DEF IInv
  <2>2. ASSUME NEW i \in DOMAIN messages
        PROVE  LET m == messages[i] IN
               /\ m \in Msg /\ Past(m.call) /\ Tells(m)
               /\ \A j \in DOMAIN messages :
                      /\ messages[j].call = m.call => j = i
                      /\ i < j => m.call[2] <= messages[j].call[2]
               /\ m.status = "blocked" /\ client # "openai" => m.call \in blocked
    BY <1>1, <2>1, Heard DEF IInv, Said
  <2>3. \A c \in blocked :
            \E i \in DOMAIN messages : messages[i].call = c /\ messages[i].status = "blocked"
    BY <1>1 DEF IInv, BlockedSaid
  <2>4. ASSUME NEW i \in DOMAIN messages, NEW j \in DOMAIN messages, i < j,
               messages[j].tool_call_id = messages[i].tool_call_id
        PROVE  Retains /\ messages[i].call[2] \in raised
    <3> DEFINE c == messages[i].call
               d == messages[j].call
    <3>1. /\ c \in Calls /\ d \in Calls /\ c[1] = d[1] /\ c # d /\ c[2] <= d[2] /\ Past(d)
          /\ i \in Nat /\ j \in Nat
      <4>1. i \in Nat /\ j \in Nat
        BY <1>1, <2>1 DEF IInv, Turns
      <4>2. c # d /\ c[2] <= d[2] /\ Past(d)
        BY <2>2, <2>4, <4>1
      <4>3. messages[i] \in Msg /\ messages[j] \in Msg
        BY <2>2
      <4> QED BY <2>4, <4>1, <4>2, <4>3 DEF Msg
    <3>2. ~Retains => c[2] = turn /\ d[2] = turn
      BY <1>1, <2>1 DEF IInv, Current
    <3> HIDE DEF c, d
    <3>3. c[2] \in Nat \ {0} /\ d[2] \in Nat /\ c[2] # d[2] /\ turn \in Nat
      <4>1. c[2] \in 1 .. MaxTurns /\ c[2] \in Nat /\ d[2] \in Nat /\ c = <<c[1], c[2]>> /\ d = <<d[1], d[2]>>
        BY <3>1, CallTyped
      <4> QED BY <1>1, <3>1, <4>1, Hand, TurnsAssumption DEF IInv
    <3>4. c[2] \in 1 .. turn /\ c[2] < turn
      BY <3>1, <3>3 DEF Past
    <3>5. c[2] \in raised
      BY <1>1, <3>4 DEF IInv, Turns
    <3> QED BY <3>2, <3>3, <3>5 DEF c
  <2> QED BY <2>2, <2>3, <2>4 DEF MessagesTellTruth, Tells, Retains
<1> QED BY <1>1, Always, PTL

\* No side effect goes unreported but those of a turn that ended in an exception.
THEOREM ClientsAccount == Spec => []EffectsAccounted
<1>1. ASSUME IInv PROVE EffectsAccounted
  <2>1. pc # "turn" => \A c \in executed :
            \/ Told(c)
            \/ /\ c[2] \in raised
               /\ client = "openai" \/ \A d \in executed : d[2] = c[2] => d[1] <= c[1]
    BY <1>1 DEF IInv, Accounted
  <2>2. ASSUME pc = "done", NEW k \in DOMAIN batch PROVE Told(<<k, turn>>)
    <3>1. k < at
      BY <1>1, <2>2, Hand DEF IInv, Turns
    <3>2. About(Conversation, <<k, turn>>) /\ Conversation = messages
      BY <1>1, <2>2, <3>1, Heard DEF IInv, Turns, Accounted
    <3> QED BY <3>2 DEF About, Told
  <2> QED BY <2>1, <2>2 DEF EffectsAccounted
<1> QED BY <1>1, Always, PTL
=============================================================================
