--------------------------- MODULE PaisGuardProofs ---------------------------
(***************************************************************************)
(* What the memory guard promises for every number of events and sessions, *)
(* every memory and every combination of faults.                           *)
(***************************************************************************)
EXTENDS AgentServer, TLAPS

\* create is awaited for a session only, the session of an event that is about
\* to be added is remembered, and a session is remembered only once the memory
\* has created it or create has raised.
Remembered ==
    /\ \A e \in Events : pc[e] = "creating" => session[e] \in Sessions
    /\ \A e \in Events : pc[e] = "adding" => session[e] \in known \cup {NoSession}
    /\ known \subseteq created \cup failed
    /\ setting.strict => known \subseteq created

IInv == TypeOK /\ Remembered /\ DropsOnlyAfterFailure

\* The invariant holds at the start.
LEMMA InitIInv == Init => IInv
<1> SUFFICES ASSUME Init PROVE IInv
    OBVIOUS
<1> USE SettingsAssumption DEF Init
<1>1. TypeOK
  BY DEF TypeOK, State
<1>2. Remembered /\ DropsOnlyAfterFailure
  BY DEF Remembered, DropsOnlyAfterFailure
<1> QED BY <1>1, <1>2 DEF IInv

\* What the end of create does to a task and its session, whatever the await.
LEMMA EndOfCreate ==
    ASSUME IInv, NEW e \in Events, session[e] \in Sessions, CreateEnds(e),
           UNCHANGED fixed, accepted' = accepted,
           creates' \in [Sessions -> Nat]
    PROVE  IInv'
<1> USE SettingsAssumption, SessionsAssumption DEF fixed, Setting, IInv, TypeOK, Remembered
<1>1. CASE CreateReturns(e)
  <2>1. /\ known' = known \cup {session[e]}
        /\ created' = created \cup {session[e]}
        /\ stored' \subseteq stored
        /\ failed' = failed
        /\ pc' = [pc EXCEPT ![e] = "adding"]
    BY <1>1 DEF CreateReturns, MemoryCreates, Goto
  <2>2. TypeOK'
    BY <2>1 DEF State
  <2>3. Remembered'
    BY <2>1
  <2>4. DropsOnlyAfterFailure'
    BY <2>1 DEF DropsOnlyAfterFailure
  <2> QED BY <2>2, <2>3, <2>4
<1>2. CASE CreateRaises(e)
  <2>1. /\ known' = IF setting.strict THEN known ELSE known \cup {session[e]}
        /\ failed' = failed \cup {session[e]}
        /\ UNCHANGED <<created, stored>>
        /\ pc' = [pc EXCEPT ![e] = IF setting.strict THEN "raised" ELSE "adding"]
    BY <1>2 DEF CreateRaises, Goto
  <2>2. TypeOK'
    BY <2>1 DEF State
  <2>3. Remembered'
    BY <2>1
  <2>4. DropsOnlyAfterFailure'
    BY <2>1 DEF DropsOnlyAfterFailure
  <2> QED BY <2>2, <2>3, <2>4
<1> QED BY <1>1, <1>2 DEF CreateEnds

\* Every step keeps the invariant.
LEMMA NextIInv == IInv /\ [Next]_vars => IInv'
<1> SUFFICES ASSUME IInv, [Next]_vars PROVE IInv'
    OBVIOUS
<1> USE SettingsAssumption, SessionsAssumption DEF fixed, Setting, IInv, TypeOK, Remembered, State,
        DropsOnlyAfterFailure
<1>1. ASSUME NEW e \in Events, CallCreate(e) PROVE IInv'
  <2>0. session[e] \in Sessions /\ creates' \in [Sessions -> Nat]
    BY <1>1 DEF CallCreate
  <2>1. CASE setting.async
    BY <1>1, <2>0, <2>1 DEF CallCreate, Goto
  <2>2. CASE ~setting.async
    BY <1>1, <2>0, <2>2, EndOfCreate DEF CallCreate
  <2> QED BY <2>1, <2>2
<1>2. ASSUME NEW e \in Events, CreateResumes(e) PROVE IInv'
  BY <1>2, EndOfCreate DEF CreateResumes
<1>3. ASSUME NEW e \in Events, SkipCreate(e) PROVE IInv'
  BY <1>3 DEF SkipCreate, Goto
<1>4. ASSUME NEW e \in Events, MemoryAdds(e) PROVE IInv'
  BY <1>4 DEF MemoryAdds, Goto
<1>5. ASSUME NEW e \in Events, MemoryAddRaises(e) PROVE IInv'
  BY <1>5 DEF MemoryAddRaises, Goto
<1>6. ASSUME NEW e \in Events, Cancel(e) PROVE IInv'
  BY <1>6 DEF Cancel, MemoryCreates, Goto
<1>7. ASSUME UNCHANGED vars PROVE IInv'
  BY <1>7 DEF vars
<1> QED BY <1>1, <1>2, <1>3, <1>4, <1>5, <1>6, <1>7 DEF Next

\* Every reachable state satisfies the invariant.
THEOREM GuardInvariant == Spec => []IInv
BY InitIInv, NextIInv, PTL DEF Spec

\* Every reachable state is well typed.
THEOREM GuardTypes == Spec => []TypeOK
BY GuardInvariant, PTL DEF IInv

\* PAISMemoryGuard: whatever the interleaving, an event of a session is dropped
\* in silence only after create has raised for that session, and never by a
\* strict guard.
THEOREM GuardDrops == Spec => []DropsOnlyAfterFailure
BY GuardInvariant, PTL DEF IInv

-----------------------------------------------------------------------------
(* What the memory keeps, and how often create is called.                  *)

\* While create does not suspend, no task is inside it, and the events the
\* memory has accepted are of remembered sessions.
PlainInv ==
    ~setting.async => /\ \A e \in Events : pc[e] # "creating"
                      /\ \A e \in accepted : session[e] \in known

\* A guard that is not strict has not called a plain create for a session it
\* does not remember.
OnceInv ==
    (~setting.async /\ ~setting.strict) => \A s \in Sessions \ known : creates[s] = 0

KInv == IInv /\ PlainInv /\ OnceInv /\ AcceptedStays /\ PlainCreateOnce

\* Every step of the guard keeps it.
LEMMA NextKInv == KInv /\ [Next]_vars => KInv'
<1> SUFFICES ASSUME KInv, [Next]_vars PROVE KInv'
    OBVIOUS
<1>0. IInv'
  BY NextIInv DEF KInv
<1> USE SettingsAssumption, SessionsAssumption
    DEF fixed, Setting, KInv, IInv, TypeOK, Remembered, State, PlainInv, OnceInv
<1>1. ASSUME NEW e \in Events, CallCreate(e) PROVE KInv'
  <2>1. /\ session[e] \in Sessions \ known
        /\ UNCHANGED <<setting, session, accepted>>
        /\ creates' = [creates EXCEPT ![session[e]] = @ + 1]
    BY <1>1 DEF CallCreate
  <2>2. CASE setting.async
    BY <1>0, <1>1, <2>1, <2>2 DEF CallCreate, Goto, AcceptedStays, PlainCreateOnce
  <2>3. CASE ~setting.async /\ CreateReturns(e)
    <3>1. PlainInv' /\ AcceptedStays'
      BY <2>1, <2>3 DEF CreateReturns, MemoryCreates, Goto, AcceptedStays
    <3>2. OnceInv' /\ PlainCreateOnce'
      BY <2>1, <2>3 DEF CreateReturns, PlainCreateOnce
    <3> QED BY <1>0, <3>1, <3>2
  <2>4. CASE ~setting.async /\ CreateRaises(e)
    <3>1. PlainInv' /\ AcceptedStays'
      BY <2>1, <2>4 DEF CreateRaises, Goto, AcceptedStays
    <3>2. OnceInv' /\ PlainCreateOnce'
      BY <2>1, <2>4 DEF CreateRaises, PlainCreateOnce
    <3> QED BY <1>0, <3>1, <3>2
  <2> QED BY <1>1, <2>2, <2>3, <2>4 DEF CallCreate, CreateEnds
<1>2. ASSUME NEW e \in Events, CreateResumes(e) PROVE KInv'
  <2>1. pc[e] = "creating" /\ setting.async
    BY <1>2 DEF CreateResumes
  <2>2. UNCHANGED <<setting, session, accepted, creates>>
    BY <1>2 DEF CreateResumes
  <2>3. setting.replaces \/ stored' = stored
    BY <1>2 DEF CreateResumes, CreateEnds, CreateReturns, CreateRaises, MemoryCreates
  <2> QED BY <1>0, <2>1, <2>2, <2>3 DEF AcceptedStays, PlainCreateOnce
<1>3. ASSUME NEW e \in Events, SkipCreate(e) PROVE KInv'
  BY <1>0, <1>3 DEF SkipCreate, Goto, AcceptedStays, PlainCreateOnce
<1>4. ASSUME NEW e \in Events, MemoryAdds(e) PROVE KInv'
  BY <1>0, <1>4 DEF MemoryAdds, Goto, AcceptedStays, PlainCreateOnce
<1>5. ASSUME NEW e \in Events, MemoryAddRaises(e) PROVE KInv'
  BY <1>0, <1>5 DEF MemoryAddRaises, Goto, AcceptedStays, PlainCreateOnce
<1>6. ASSUME NEW e \in Events, Cancel(e) PROVE KInv'
  BY <1>0, <1>6 DEF Cancel, MemoryCreates, Goto, AcceptedStays, PlainCreateOnce
<1>7. ASSUME UNCHANGED vars PROVE KInv'
  BY <1>0, <1>7 DEF vars, AcceptedStays, PlainCreateOnce
<1> QED BY <1>1, <1>2, <1>3, <1>4, <1>5, <1>6, <1>7 DEF Next

\* Every reachable state satisfies it.
LEMMA KeepsHolds == Spec => []KInv
<1>1. Init => KInv
  BY InitIInv DEF Init, KInv, PlainInv, OnceInv, AcceptedStays, PlainCreateOnce
<1> QED BY <1>1, NextKInv, PTL DEF Spec

\* An accepted event stays in the memory, unless its create both suspends and
\* discards what the session held.
THEOREM GuardKeeps == Spec => []AcceptedStays
BY KeepsHolds, PTL DEF KInv

\* pais.py, for a create that does not suspend: "calls create() once per
\* session_id".
THEOREM GuardCreatesOnce == Spec => []PlainCreateOnce
BY KeepsHolds, PTL DEF KInv

-----------------------------------------------------------------------------
(* The guards of a server.                                                 *)

\* A server's guards are PaisGuard's: each of its steps is one of theirs or
\* leaves them alone.
THEOREM ServerImplementsGuard == SSpec => Spec
<1>1. SInit => Init
  BY DEF SInit
<1>2. [SNext]_svars => [Next]_vars
  <2> SUFFICES ASSUME SNext PROVE [Next]_vars
    BY DEF svars
  <2>1. ASSUME NEW m \in Memories, Allocate(m) \/ Collect(m) PROVE [Next]_vars
    BY <2>1 DEF Allocate, Collect
  <2>2. ASSUME NEW e \in Events, Emit(e) \/ Abandon(e) \/ Guarded(e) PROVE [Next]_vars
    BY <2>2 DEF Emit, Abandon, Guarded, Next
  <2> QED BY <2>1, <2>2 DEF SNext
<1> QED BY <1>1, <1>2, PTL DEF SSpec, Spec

\* An address belongs to one live memory, and a guard in the cache keeps the
\* memory it wraps alive and so at that address.
Addressed ==
    /\ \A m, n \in Memories : address[m] # Nothing /\ address[m] = address[n] => m = n
    /\ \A a \in Addresses : cache[a] # Nothing => address[cache[a]] = a

ServerTypes ==
    /\ request \in [Events -> Memories]
    /\ address \in [Memories -> Addresses \cup {Nothing}]
    /\ gone \subseteq Memories
    /\ cache \in [Addresses -> Memories \cup {Nothing}]
    /\ guard \in [Events -> Memories \cup {Nothing}]
    /\ abandoned \subseteq Events

AInv == ServerTypes /\ Addressed /\ GuardOfOwnMemory

LEMMA InitAInv == SInit => AInv
<1> QED BY DEF SInit, AInv, ServerTypes, Addressed, GuardOfOwnMemory

LEMMA NextAInv == AInv /\ [SNext]_svars => AInv'
<1> SUFFICES ASSUME AInv, [SNext]_svars PROVE AInv'
    OBVIOUS
<1> USE NothingAssumption DEF AInv, ServerTypes, Addressed, GuardOfOwnMemory
<1>1. ASSUME NEW m \in Memories, Allocate(m) PROVE AInv'
  <2>1. PICK a \in Addresses :
            /\ \A n \in Live : address[n] # a
            /\ address' = [address EXCEPT ![m] = a]
    BY <1>1 DEF Allocate
  <2>2. address[m] = Nothing /\ UNCHANGED <<request, gone, cache, guard, abandoned>>
    BY <1>1 DEF Allocate, Live
  <2>3. \A n \in Memories : address[n] # a
    BY <2>1 DEF Live
  <2>4. \A b \in Addresses : cache[b] # Nothing => cache[b] # m
    BY <2>2
  <2> QED BY <2>1, <2>2, <2>3, <2>4
<1>2. ASSUME NEW m \in Memories, Collect(m) PROVE AInv'
  BY <1>2 DEF Collect
<1>3. ASSUME NEW e \in Events, Emit(e) PROVE AInv'
  <2> DEFINE a == address[request[e]]
             inner == IF cache[a] = Nothing THEN request[e] ELSE cache[a]
  <2>1. /\ cache' = [cache EXCEPT ![a] = inner] /\ guard' = [guard EXCEPT ![e] = inner]
        /\ UNCHANGED <<request, address, gone, abandoned>>
    BY <1>3 DEF Emit, GuardedMemory
  <2>2. a \in Addresses /\ request[e] \in Memories
    BY <1>3 DEF Emit, Live
  <2>3. inner = request[e]
    BY <2>2
  <2> HIDE DEF inner, a
  <2>4. a = address[request[e]]
    BY DEF a
  <2> QED BY <2>1, <2>2, <2>3, <2>4
<1>4. ASSUME NEW e \in Events, Abandon(e) PROVE AInv'
  BY <1>4 DEF Abandon
<1>5. ASSUME NEW e \in Events, Guarded(e) PROVE AInv'
  BY <1>5 DEF Guarded, serverVars
<1>6. ASSUME UNCHANGED svars PROVE AInv'
  BY <1>6 DEF svars, serverVars
<1> QED BY <1>1, <1>2, <1>3, <1>4, <1>5, <1>6 DEF SNext

LEMMA ServerInvariant == SSpec => []AInv
<1> QED BY InitAInv, NextAInv, PTL DEF SSpec

\* _guarded_memory: however many memories a server sees and wherever they are
\* put, an event is persisted through the guard of its own memory.
THEOREM ServerGuardsOwnMemory == SSpec => []GuardOfOwnMemory
<1>1. AInv => GuardOfOwnMemory
  BY DEF AInv
<1> QED BY <1>1, ServerInvariant, PTL

\* Every state of a server is well typed.
THEOREM ServerIsTyped == SSpec => []ServerTypeOK
<1>1. AInv /\ TypeOK => ServerTypeOK
  BY DEF AInv, ServerTypes, ServerTypeOK
<1> QED BY <1>1, ServerInvariant, ServerImplementsGuard, GuardTypes, PTL

\* The guards' promises hold in every server.
THEOREM ServerKeepsPromises ==
    SSpec => [](DropsOnlyAfterFailure /\ AcceptedStays /\ PlainCreateOnce)
<1> QED BY ServerImplementsGuard, GuardDrops, GuardKeeps, GuardCreatesOnce, PTL
=============================================================================
