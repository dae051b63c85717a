----------------------------- MODULE AgentServer -----------------------------
(***************************************************************************)
(* The memory side of an agent server (sarc_governance/adapters/pais.py):  *)
(* every request of the server carries a memory object and a session id in *)
(* ctx.deps, and _guarded_memory finds the PAISMemoryGuard of that memory  *)
(* in a cache whose key is id(memory), an address the runtime gives to     *)
(* another object once the memory is gone.  build_governed_toolset has the *)
(* same cache.                                                             *)
(*                                                                         *)
(* PaisGuard is the guards: a session is here a session id in a memory, so *)
(* that its known is the union of what the guards remember.                *)
(***************************************************************************)
EXTENDS PaisGuard

CONSTANTS
    Memories,       \* the memory objects of the server's requests
    SessionIds,     \* what ctx.deps.session_id may be
    Addresses,      \* what id() may answer
    Nothing         \* no address, no memory

ASSUME PairsAssumption == Sessions = Memories \X SessionIds
ASSUME NothingAssumption == Nothing \notin Memories \cup Addresses

VARIABLES
    request,        \* per event: the memory of its request, fixed
    address,        \* per memory: its id() while it is alive, else Nothing
    gone,           \* the memories that have been collected
    cache,          \* _guard_cache: per address the memory its guard wraps
    guard,          \* per event: the memory of the guard it was handed
    abandoned       \* the events whose request ended before they were emitted

serverVars == <<request, address, gone, cache, guard, abandoned>>
svars == <<vars, serverVars>>

\* _session_id: the empty one when there is none.
SInit ==
    /\ Init
    /\ request \in [Events -> Memories]
    /\ \A e \in Events : session[e] # NoSession => session[e][1] = request[e]
    /\ address = [m \in Memories |-> Nothing]
    /\ gone = {}
    /\ cache = [a \in Addresses |-> Nothing]
    /\ guard = [e \in Events |-> Nothing]
    /\ abandoned = {}

Live == {m \in Memories : address[m] # Nothing}

\* A request comes with a memory object: the runtime puts it at a free address.
Allocate(m) ==
    /\ m \notin Live \cup gone
    /\ \E a \in Addresses :
        /\ \A n \in Live : address[n] # a
        /\ address' = [address EXCEPT ![m] = a]
    /\ UNCHANGED <<vars, request, gone, cache, guard, abandoned>>

\* The events that need no memory any more.
Over == abandoned \cup {e \in Events : pc[e] \in {"stored", "dropped", "raised", "cancelled"}}

\* Mutant of Collect: a guard in the cache does not keep its memory alive.
Collect_WeakGuards(m) ==
    /\ m \in Live
    /\ \A e \in Events : request[e] = m => e \in Over
    /\ address' = [address EXCEPT ![m] = Nothing]
    /\ gone' = gone \cup {m}
    /\ UNCHANGED <<vars, request, cache, guard, abandoned>>

\* The requests of a memory are over and nothing refers to it any more: a guard
\* in the cache would, by its _inner.
Collect(m) ==
    /\ m \in Live
    /\ \A e \in Events : request[e] = m => e \in Over
    /\ \A a \in Addresses : cache[a] # m
    /\ address' = [address EXCEPT ![m] = Nothing]
    /\ gone' = gone \cup {m}
    /\ UNCHANGED <<vars, request, cache, guard, abandoned>>

\* _guarded_memory: nothing suspends between the look-up and the insertion.
GuardedMemory(e) ==
    LET a == address[request[e]]
        inner == IF cache[a] = Nothing THEN request[e] ELSE cache[a]
    IN  /\ cache' = [cache EXCEPT ![a] = inner]
        /\ guard' = [guard EXCEPT ![e] = inner]

\* _emit asks for the guard and enters its add_event.
Emit(e) ==
    /\ e \notin abandoned /\ request[e] \in Live
    /\ CallCreate(e) \/ SkipCreate(e)
    /\ GuardedMemory(e)
    /\ UNCHANGED <<request, address, gone, abandoned>>

\* A request ends before its event is emitted, by an exception or cancelled.
Abandon(e) ==
    /\ pc[e] = "idle"
    /\ abandoned' = abandoned \cup {e}
    /\ UNCHANGED <<vars, request, address, gone, cache, guard>>

\* The steps of an add_event that has been entered.
Guarded(e) ==
    /\ CreateResumes(e) \/ MemoryAdds(e) \/ MemoryAddRaises(e) \/ Cancel(e)
    /\ UNCHANGED serverVars

SNext ==
    \/ \E m \in Memories : Allocate(m) \/ Collect(m)
    \/ \E e \in Events : Emit(e) \/ Abandon(e) \/ Guarded(e)

SSpec == SInit /\ [][SNext]_svars

-----------------------------------------------------------------------------
(* Properties.                                                             *)

ServerTypeOK ==
    /\ TypeOK
    /\ request \in [Events -> Memories]
    /\ address \in [Memories -> Addresses \cup {Nothing}]
    /\ gone \subseteq Memories
    /\ cache \in [Addresses -> Memories \cup {Nothing}]
    /\ guard \in [Events -> Memories \cup {Nothing}]
    /\ abandoned \subseteq Events

\* An event is persisted through the guard of its own memory, although the
\* cache is keyed by an address, memories come and go, and their addresses are
\* given away again: no trace record ends up in another request's memory.
GuardOfOwnMemory == \A e \in Events : guard[e] \in {request[e], Nothing}
=============================================================================
