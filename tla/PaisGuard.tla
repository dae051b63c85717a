----------------------------- MODULE PaisGuard -----------------------------
(***************************************************************************)
(* PAISMemoryGuard (sarc_governance/adapters/pais.py): asyncio tasks that  *)
(* persist governance events through one guard into a memory that silently *)
(* drops the events of a session it has not been told to create.           *)
(*                                                                         *)
(* The memory is external: what it does is taken from the two memories the *)
(* repository runs against, the stub of pais.memory and the tests' double, *)
(* whose create makes the session anew.  create may be a plain function or *)
(* return an awaitable; the guard handles both.  A server has one guard    *)
(* per memory object.  A memory without create, whose sessions the guard   *)
(* only remembers, is left aside.                                          *)
(***************************************************************************)
EXTENDS Naturals, FiniteSets

CONSTANTS
    Events,         \* the add_event calls, each in a task of its own
    Sessions,       \* the session ids
    NoSession,      \* the empty session id
    Settings,       \* the guards and memories to consider
    Faults          \* the faults that may occur

FaultKind == {"create_raises", "add_raises", "cancel"}

ASSUME SessionsAssumption == NoSession \notin Sessions

\* strict: the guard's.  async: create suspends.  replaces: create discards what
\* the session held.
Setting == [strict : BOOLEAN, async : BOOLEAN, replaces : BOOLEAN]

ASSUME SettingsAssumption == Settings \subseteq Setting
ASSUME FaultsAssumption == Faults \subseteq FaultKind

VARIABLES
    setting,    \* the guard and memory there is, fixed
    session,    \* per event: its session id
    pc,         \* per event: what its task does or how it ended
    known,      \* _known
    created,    \* the sessions the memory has created
    stored,     \* the events the memory holds
    accepted,   \* the events whose add_event answered True
    creates,    \* ghost: per session, how often create was called
    failed      \* ghost: the sessions for which create has raised

fixed == <<setting, session>>
vars == <<fixed, pc, known, created, stored, accepted, creates, failed>>

State == {"idle", "creating", "adding", "stored", "dropped", "raised", "cancelled"}

Init ==
    /\ setting \in Settings
    /\ session \in [Events -> Sessions \cup {NoSession}]
    /\ pc = [e \in Events |-> "idle"]
    /\ known = {}
    /\ created \in SUBSET Sessions       \* some may have been created before
    /\ stored = {}
    /\ accepted = {}
    /\ creates = [s \in Sessions |-> 0]
    /\ failed = {}

Goto(e, label) == pc' = [pc EXCEPT ![e] = label]

-----------------------------------------------------------------------------
\* The memory's create takes effect.
MemoryCreates(s) ==
    /\ created' = created \cup {s}
    /\ stored' = IF setting.replaces THEN {e \in stored : session[e] # s} ELSE stored

\* Mutant of CreateReturns: the session is not remembered.
CreateReturns_Forgets(e) ==
    /\ MemoryCreates(session[e])
    /\ Goto(e, "adding")
    /\ UNCHANGED <<known, failed>>

CreateReturns(e) ==
    /\ MemoryCreates(session[e])
    /\ known' = known \cup {session[e]}
    /\ Goto(e, "adding")
    /\ UNCHANGED failed

\* Only a guard that is not strict swallows it, and then it will not try again.
CreateRaises(e) ==
    /\ "create_raises" \in Faults
    /\ failed' = failed \cup {session[e]}
    /\ known' = IF setting.strict THEN known ELSE known \cup {session[e]}
    /\ Goto(e, IF setting.strict THEN "raised" ELSE "adding")
    /\ UNCHANGED <<created, stored>>

CreateEnds(e) == CreateReturns(e) \/ CreateRaises(e)

\* Mutant of CallCreate: the session is remembered before create is awaited.
CallCreate_RemembersFirst(e) ==
    /\ pc[e] = "idle" /\ session[e] \in Sessions \ known
    /\ creates' = [creates EXCEPT ![session[e]] = @ + 1]
    /\ known' = known \cup {session[e]}
    /\ Goto(e, "creating")
    /\ UNCHANGED <<fixed, created, stored, failed, accepted>>

\* add_event for a session not in _known calls create.  A plain create is over
\* before any other task runs.
CallCreate(e) ==
    /\ pc[e] = "idle" /\ session[e] \in Sessions \ known
    /\ creates' = [creates EXCEPT ![session[e]] = @ + 1]
    /\ IF setting.async
       THEN Goto(e, "creating") /\ UNCHANGED <<known, created, stored, failed>>
       ELSE CreateEnds(e)
    /\ UNCHANGED <<fixed, accepted>>

\* The awaitable of create is done.
CreateResumes(e) ==
    /\ pc[e] = "creating"
    /\ CreateEnds(e)
    /\ UNCHANGED <<fixed, accepted, creates>>

\* add_event for no session, or for one in _known, goes straight to the memory.
SkipCreate(e) ==
    /\ pc[e] = "idle" /\ session[e] \in known \cup {NoSession}
    /\ Goto(e, "adding")
    /\ UNCHANGED <<fixed, known, created, stored, accepted, creates, failed>>

\* The memory's add_event: True and stored, or False and dropped.
MemoryAdds(e) ==
    /\ pc[e] = "adding"
    /\ IF session[e] \in created
       THEN /\ stored' = stored \cup {e}
            /\ accepted' = accepted \cup {e}
            /\ Goto(e, "stored")
       ELSE Goto(e, "dropped") /\ UNCHANGED <<stored, accepted>>
    /\ UNCHANGED <<fixed, known, created, creates, failed>>

MemoryAddRaises(e) ==
    /\ "add_raises" \in Faults
    /\ pc[e] = "adding"
    /\ Goto(e, "raised")
    /\ UNCHANGED <<fixed, known, created, stored, accepted, creates, failed>>

\* The task is cancelled while it awaits create or add_event, whose effect may
\* or may not have happened.  except Exception does not catch it.
Cancel(e) ==
    /\ "cancel" \in Faults
    /\ Goto(e, "cancelled")
    /\ \/ /\ pc[e] = "creating"
          /\ \/ MemoryCreates(session[e])
             \/ UNCHANGED <<created, stored>>
       \/ /\ pc[e] = "adding"
          /\ \/ stored' = stored
             \/ session[e] \in created /\ stored' = stored \cup {e}
          /\ UNCHANGED created
    /\ UNCHANGED <<fixed, known, accepted, creates, failed>>

Next ==
    \E e \in Events :
        \/ CallCreate(e) \/ CreateResumes(e) \/ SkipCreate(e)
        \/ MemoryAdds(e) \/ MemoryAddRaises(e) \/ Cancel(e)

Spec == Init /\ [][Next]_vars

-----------------------------------------------------------------------------
\* Types of the state.
TypeOK ==
    /\ setting \in Setting
    /\ session \in [Events -> Sessions \cup {NoSession}]
    /\ pc \in [Events -> State]
    /\ known \subseteq Sessions
    /\ created \subseteq Sessions
    /\ stored \subseteq Events
    /\ accepted \subseteq Events
    /\ creates \in [Sessions -> Nat]
    /\ failed \subseteq Sessions

\* An event of a session is dropped in silence only if create raised for that
\* session and the guard is not strict, however the tasks interleave around the
\* await of create, and although another task's create may have been cancelled.
DropsOnlyAfterFailure ==
    \A e \in Events : pc[e] = "dropped" =>
        session[e] = NoSession \/ (~setting.strict /\ session[e] \in failed)

\* An event the memory has accepted stays in it, although its create may discard
\* what a session held, unless that create suspends: a guard never makes a
\* session anew that it has made.
AcceptedStays == (setting.async /\ setting.replaces) \/ accepted \subseteq stored

\* "calls create() once per session_id before the first event is persisted": so
\* does a guard that is not strict, although create may raise, if create does
\* not suspend.  (Two tasks can await a create that does; a strict guard retries.)
PlainCreateOnce == setting.async \/ setting.strict \/ \A s \in Sessions : creates[s] <= 1
=============================================================================
