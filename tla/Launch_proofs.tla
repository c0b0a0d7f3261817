---------------------------- MODULE Launch_proofs ----------------------------
(***************************************************************************)
(* Ownership and leases for every set of clients and instances, every      *)
(* choice of builds, and any number of deaths and failures.                *)
(***************************************************************************)
EXTENDS Launch, FiniteSetTheorems, TLAPS

-----------------------------------------------------------------------------
(* The inductive invariant *)

Typed ==
  /\ client \in [Clients -> ClientPhases]
  /\ target \in [Clients -> Instances \cup {Nobody}]
  /\ backend \in [Instances -> BackendPhases]
  /\ parent \in [Instances -> Clients \cup {Nobody}]
  /\ owner \in Instances \cup {Nobody}
  /\ path \in Instances \cup {Nobody, Stale}
  /\ viewers \in [Instances -> Int] /\ departed \in [Instances -> Int]
  /\ stopping \in [Instances -> BOOLEAN]
  /\ deaths \in Nat

\* Who knows an instance knows a real one.
Aimed ==
  \A c \in Clients : client[c] \in {"spawning", "found", "attached"} => target[c] \in Instances

Attached(i) == {c \in Clients : client[c] = "attached" /\ target[c] = i}

\* The lease count, before, while and after a backend answers.
Counted(i) ==
  /\ 0 <= departed[i] /\ departed[i] <= viewers[i]
  /\ viewers[i] <= Cardinality(Clients) + departed[i]
  /\ Up(i) => viewers[i] = departed[i] + Cardinality(Attached(i))
  /\ backend[i] \in {"none", "opening", "owning"} => viewers[i] = 0 /\ departed[i] = 0 /\ ~stopping[i]
  /\ backend[i] \in {"opening", "owning"} => Attached(i) = {}

Leases == \A i \in Instances : Counted(i)

\* What a client met is of its build as long as it lives.
Suited ==
  \A c \in Clients : client[c] \in {"found", "attached"} /\ backend[target[c]] # "none" =>
    Compatible(c, target[c])

Holds(c) == client[c] \in {"dialing", "probing", "preparing", "spawning", "redialing"}

-----------------------------------------------------------------------------
(* Steps *)

\* The actions that touch a process, its lock or its socket; all others leave them.
LEMMA Kinds ==
  ASSUME Next
  PROVE  \/ UNCHANGED processVars
         \/ \E c \in Clients : Spawn(c) \/ GiveUp(c)
         \/ \E i \in Instances :
              \/ OpenStores(i) \/ Listen(i) \/ Acknowledge(i) \/ Release(i) \/ BackendDies(i)
              \/ Shutdown(i) \/ Interrupt(i)
BY DEF Next, ClientStep, BackendStep, Launch, AcquireStartup, QueueTimeout, Dial, Probe,
  Acknowledged, Redial, Attach, Disconnected, Leave, ClientDies, Detach, DeadlinePasses, Expire

\* A client that moves on keeps its type.
LEMMA GotoType ==
  ASSUME Typed, NEW c \in Clients, NEW where \in ClientPhases, Goto(c, where)
  PROVE  /\ client' \in [Clients -> ClientPhases]
         /\ target' \in [Clients -> Instances \cup {Nobody}]
BY DEF Goto, Typed

\* A client that met a backend keeps its type.
LEMMA MeetType ==
  ASSUME Typed, NEW c \in Clients, NEW i \in Instances, Meet(c, i)
  PROVE  /\ client' \in [Clients -> ClientPhases]
         /\ target' \in [Clients -> Instances \cup {Nobody}]
BY DEF Meet, Typed, ClientPhases

\* A process that is gone is forgotten within the types.
LEMMA ForgetType ==
  ASSUME Typed, NEW i \in Instances, Forget(i)
  PROVE  /\ backend' \in [Instances -> BackendPhases]
         /\ parent' \in [Instances -> Clients \cup {Nobody}]
         /\ viewers' \in [Instances -> Int] /\ departed' \in [Instances -> Int]
         /\ stopping' \in [Instances -> BOOLEAN]
BY DEF Forget, Typed, BackendPhases

\* Every step keeps the types.
LEMMA TypedStep ==
  ASSUME Typed, Aimed, Next
  PROVE  Typed'
<1> USE DEF clientVars, processVars, viewerVars, boundVars
<1>1. ASSUME NEW c \in Clients,
             Launch(c) \/ AcquireStartup(c) \/ QueueTimeout(c) \/ Probe(c)
               \/ Acknowledged(c) \/ Disconnected(c)
      PROVE  Typed'
  <2>1. \E where \in ClientPhases : Goto(c, where)
    BY <1>1 DEF Launch, AcquireStartup, QueueTimeout, Probe, Acknowledged, Disconnected, ClientPhases
  <2>2. /\ client' \in [Clients -> ClientPhases]
        /\ target' \in [Clients -> Instances \cup {Nobody}]
    BY <2>1, GotoType
  <2>3. UNCHANGED <<processVars, viewerVars, boundVars>>
    BY <1>1 DEF Launch, AcquireStartup, QueueTimeout, Probe, Acknowledged, Disconnected
  <2> QED BY <2>2, <2>3 DEF Typed
<1>2. ASSUME NEW c \in Clients, Dial(c) \/ Redial(c)
      PROVE  Typed'
  <2>1. \/ \E where \in ClientPhases : Goto(c, where)
        \/ \E i \in Instances : Meet(c, i)
    BY <1>2 DEF Dial, Redial, ClientPhases
  <2>2. /\ client' \in [Clients -> ClientPhases]
        /\ target' \in [Clients -> Instances \cup {Nobody}]
    BY <2>1, GotoType, MeetType
  <2> QED BY <1>2, <2>2 DEF Dial, Redial, Typed
<1>3. ASSUME NEW c \in Clients, Spawn(c)
      PROVE  Typed'
  BY <1>3 DEF Spawn, Typed, ClientPhases, BackendPhases
<1>4. ASSUME NEW c \in Clients, Attach(c)
      PROVE  Typed'
  <2>1. CASE SameInstance(c) /\ Admits(path)
    BY <1>4, <2>1 DEF Attach, SameInstance, Typed, ClientPhases
  <2>2. CASE ~(SameInstance(c) /\ Admits(path))
    <3>1. Goto(c, "out") /\ UNCHANGED <<viewerVars, processVars, boundVars>>
      BY <1>4, <2>2 DEF Attach
    <3> QED BY <3>1, GotoType DEF Typed, ClientPhases
  <2> QED BY <2>1, <2>2
<1>5. ASSUME NEW c \in Clients, Leave(c) \/ ClientDies(c)
      PROVE  Typed'
  <2>1. Goto(c, "out") /\ Departing(c)
    BY <1>5 DEF Leave, ClientDies
  <2>2. departed' \in [Instances -> Int]
    BY <2>1 DEF Departing, Typed, Aimed
  <2>3. deaths' \in Nat
    BY <1>5 DEF Leave, ClientDies, Typed
  <2>4. /\ client' \in [Clients -> ClientPhases]
        /\ target' \in [Clients -> Instances \cup {Nobody}]
    BY <2>1, GotoType DEF ClientPhases
  <2> QED BY <1>5, <2>2, <2>3, <2>4 DEF Leave, ClientDies, Typed
<1>6. ASSUME NEW c \in Clients, GiveUp(c)
      PROVE  Typed'
  <2>1. /\ client' \in [Clients -> ClientPhases]
        /\ target' \in [Clients -> Instances \cup {Nobody}]
    BY <1>6, GotoType DEF GiveUp, ClientPhases
  <2>4. Gone(target[c]) /\ client[c] = "spawning" => target[c] \in Instances
    BY DEF Aimed
  <2>2. CASE client[c] = "spawning" /\ Gone(target[c])
    BY <1>6, <2>1, <2>2, <2>4, ForgetType DEF GiveUp, Gone, Typed
  <2>3. CASE UNCHANGED <<processVars, viewerVars>>
    BY <1>6, <2>1, <2>3 DEF GiveUp, Typed
  <2> QED BY <1>6, <2>2, <2>3 DEF GiveUp
<1>7. ASSUME NEW i \in Instances, Detach(i) \/ DeadlinePasses(i) \/ Expire(i)
      PROVE  Typed'
  <2>1. viewers' \in [Instances -> Int] /\ departed' \in [Instances -> Int]
    BY <1>7 DEF Detach, Released, DeadlinePasses, Expire, Typed
  <2>2. stopping' \in [Instances -> BOOLEAN]
    BY <1>7 DEF Detach, DeadlinePasses, Expire, Typed
  <2> QED BY <1>7, <2>1, <2>2 DEF Detach, DeadlinePasses, Expire, Typed
<1>8. ASSUME NEW i \in Instances, OpenStores(i)
      PROVE  Typed'
  <2>1. CASE Forget(i) /\ UNCHANGED owner
    BY <1>8, <2>1, ForgetType DEF OpenStores, Typed
  <2>2. CASE owner' = i /\ backend' = [backend EXCEPT ![i] = "owning"] /\ UNCHANGED <<parent, viewerVars>>
    BY <1>8, <2>2 DEF OpenStores, Typed, BackendPhases
  <2> QED BY <1>8, <2>1, <2>2 DEF OpenStores
<1>9. ASSUME NEW i \in Instances, Listen(i) \/ Acknowledge(i) \/ Shutdown(i) \/ Interrupt(i)
      PROVE  Typed'
  BY <1>9 DEF Listen, Acknowledge, Shutdown, Interrupt, CloseSocket, Typed, BackendPhases
<1>10. ASSUME NEW i \in Instances, Release(i) \/ BackendDies(i)
       PROVE  Typed'
  BY <1>10, ForgetType DEF Release, BackendDies, Gone, Typed
<1> QED
  BY <1>1, <1>2, <1>3, <1>4, <1>5, <1>6, <1>7, <1>8, <1>9, <1>10 DEF Next, ClientStep, BackendStep

-----------------------------------------------------------------------------
(* The lock and the socket *)

\* A client that is past its dial has a backend it aims at, after every step.
LEMMA AimedStep ==
  ASSUME Typed, Aimed, Next
  PROVE  Aimed'
<1> USE DEF clientVars, processVars, viewerVars, boundVars, Typed, Aimed
<1>1. ASSUME NEW c \in Clients,
             Launch(c) \/ AcquireStartup(c) \/ QueueTimeout(c) \/ Probe(c)
               \/ Acknowledged(c) \/ Disconnected(c)
      PROVE  Aimed'
  BY <1>1 DEF Launch, AcquireStartup, QueueTimeout, Probe, Acknowledged, Disconnected, Goto
<1>2. ASSUME NEW c \in Clients, Dial(c) \/ Redial(c)
      PROVE  Aimed'
  BY <1>2 DEF Dial, Redial, Goto, Meet
<1>3. ASSUME NEW c \in Clients, Spawn(c) \/ Leave(c) \/ ClientDies(c) \/ GiveUp(c)
      PROVE  Aimed'
  BY <1>3 DEF Spawn, Leave, ClientDies, GiveUp, Goto
<1>4. ASSUME NEW c \in Clients, Attach(c)
      PROVE  Aimed'
  BY <1>4 DEF Attach, SameInstance, Goto
<1>5. CASE UNCHANGED clientVars
  BY <1>5
<1> QED
  BY <1>1, <1>2, <1>3, <1>4, <1>5 DEF Next, ClientStep, BackendStep, Detach, DeadlinePasses,
    OpenStores, Listen, Acknowledge, Expire, Shutdown, Release, Interrupt, BackendDies

\* A process that ends or dies leaves the lock and the socket to others.
LEMMA GoneLocked ==
  ASSUME Typed, StoresOpenOnce, OwnerIsFound, NEW i \in Instances, Gone(i)
  PROVE  StoresOpenOnce' /\ OwnerIsFound'
BY LaunchAssumption DEF Gone, Forget, Typed, StoresOpenOnce, OwnerIsFound, Up

\* A backend that closes its socket keeps its lock and removes no other's socket.
LEMMA CloseSocketLocked ==
  ASSUME Typed, StoresOpenOnce, OwnerIsFound, NEW i \in Instances, Up(i), CloseSocket(i)
  PROVE  StoresOpenOnce' /\ OwnerIsFound'
BY LaunchAssumption DEF CloseSocket, Typed, StoresOpenOnce, OwnerIsFound, Up

\* No step lets a second owner in, or leaves an owner nobody can find.
LEMMA LockedStep ==
  ASSUME Typed, Aimed, StoresOpenOnce, OwnerIsFound, Next
  PROVE  StoresOpenOnce' /\ OwnerIsFound'
<1>1. CASE UNCHANGED processVars
  BY <1>1 DEF processVars, StoresOpenOnce, OwnerIsFound, Up
<1>2. ASSUME NEW c \in Clients, Spawn(c)
      PROVE  StoresOpenOnce' /\ OwnerIsFound'
  BY <1>2 DEF Spawn, Fresh, Typed, StoresOpenOnce, OwnerIsFound, Up
<1>3. ASSUME NEW c \in Clients, GiveUp(c)
      PROVE  StoresOpenOnce' /\ OwnerIsFound'
  <2>1. CASE UNCHANGED processVars
    BY <1>1, <2>1
  <2>2. CASE client[c] = "spawning" /\ Gone(target[c])
    BY <2>2, GoneLocked DEF Aimed
  <2> QED BY <1>3, <2>1, <2>2 DEF GiveUp
<1>4. ASSUME NEW i \in Instances, OpenStores(i)
      PROVE  StoresOpenOnce' /\ OwnerIsFound'
  BY <1>4, LaunchAssumption
  DEF OpenStores, Forget, Unowned, Typed, StoresOpenOnce, OwnerIsFound, Up
<1>5. ASSUME NEW i \in Instances, Listen(i)
      PROVE  StoresOpenOnce' /\ OwnerIsFound'
  BY <1>5 DEF Listen, Typed, StoresOpenOnce, OwnerIsFound, Up
<1>6. ASSUME NEW i \in Instances, Acknowledge(i)
      PROVE  StoresOpenOnce' /\ OwnerIsFound'
  <2>1. CASE CloseSocket(i)
    BY <1>6, <2>1, CloseSocketLocked DEF Acknowledge, Up
  <2>2. CASE backend' = [backend EXCEPT ![i] = "serving"] /\ UNCHANGED <<parent, owner, path>>
    BY <1>6, <2>2 DEF Acknowledge, Typed, StoresOpenOnce, OwnerIsFound, Up
  <2> QED BY <1>6, <2>1, <2>2 DEF Acknowledge
<1>7. ASSUME NEW i \in Instances, Shutdown(i) \/ Interrupt(i)
      PROVE  StoresOpenOnce' /\ OwnerIsFound'
  BY <1>7, CloseSocketLocked DEF Shutdown, Interrupt, Up
<1>8. ASSUME NEW i \in Instances, Release(i)
      PROVE  StoresOpenOnce' /\ OwnerIsFound'
  BY <1>8, LaunchAssumption DEF Release, Forget, Typed, StoresOpenOnce, OwnerIsFound, Up
<1>9. ASSUME NEW i \in Instances, BackendDies(i)
      PROVE  StoresOpenOnce' /\ OwnerIsFound'
  BY <1>9, GoneLocked DEF BackendDies
<1> QED
  BY Kinds, <1>1, <1>2, <1>3, <1>4, <1>5, <1>6, <1>7, <1>8, <1>9
-----------------------------------------------------------------------------
(* The lease count *)

\* The attached clients can be counted.
LEMMA AttachedFinite ==
  \A i : /\ IsFiniteSet(Attached(i))
         /\ Cardinality(Attached(i)) \in Nat
         /\ Cardinality(Attached(i)) <= Cardinality(Clients)
         /\ Cardinality(Clients) \in Nat
<1> SUFFICES ASSUME NEW i
             PROVE  /\ IsFiniteSet(Attached(i))
                    /\ Cardinality(Attached(i)) \in Nat
                    /\ Cardinality(Attached(i)) <= Cardinality(Clients)
                    /\ Cardinality(Clients) \in Nat
  OBVIOUS
<1>1. Attached(i) \in SUBSET Clients
  BY DEF Attached
<1>2. IsFiniteSet(Clients)
  BY LaunchAssumption
<1>3. IsFiniteSet(Attached(i)) /\ Cardinality(Attached(i)) <= Cardinality(Clients)
  BY <1>1, <1>2, FS_Subset
<1> QED BY <1>2, <1>3, FS_CardinalityType

\* A client that is not attached before or after changes no set of attached ones.
LEMMA AttachedSame ==
  ASSUME Typed, NEW c \in Clients, client[c] # "attached",
         NEW where, where # "attached", NEW t,
         client' = [client EXCEPT ![c] = where], target' = [target EXCEPT ![c] = t]
  PROVE  \A i : Attached(i)' = Attached(i)
BY DEF Attached, Typed

\* A client that leaves is attached to nothing, and nobody else is disturbed.
LEMMA AttachedOut ==
  ASSUME Typed, NEW c \in Clients, Goto(c, "out")
  PROVE  \A i : Attached(i)' = Attached(i) \ {c}
BY DEF Attached, Typed, Goto

\* Leases depend on nothing but these.
LEMMA LeasesFrame ==
  ASSUME Leases, UNCHANGED <<backend, viewers, departed, stopping>>,
         \A i \in Instances : Attached(i)' = Attached(i)
  PROVE  Leases'
BY DEF Leases, Counted, Up

\* Steps before a client is attached leave every count of viewers alone.
LEMMA LookingLeases ==
  ASSUME Typed, Leases, NEW c \in Clients,
         Launch(c) \/ AcquireStartup(c) \/ QueueTimeout(c) \/ Dial(c) \/ Probe(c)
           \/ Acknowledged(c) \/ Redial(c)
  PROVE  Leases'
<1>1. /\ client[c] # "attached"
      /\ \E where, t : /\ where # "attached"
                       /\ client' = [client EXCEPT ![c] = where]
                       /\ target' = [target EXCEPT ![c] = t]
  BY DEF Launch, AcquireStartup, QueueTimeout, Dial, Probe, Acknowledged, Redial, Goto, Meet
<1>2. \A i : Attached(i)' = Attached(i)
  BY <1>1, AttachedSame
<1>3. UNCHANGED <<backend, viewers, departed, stopping>>
  BY DEF Launch, AcquireStartup, QueueTimeout, Dial, Probe, Acknowledged, Redial,
    processVars, viewerVars
<1> QED BY <1>2, <1>3, LeasesFrame

\* A spawned backend starts without viewers.
LEMMA SpawnLeases ==
  ASSUME Typed, Leases, NEW c \in Clients, Spawn(c)
  PROVE  Leases'
<1>1. PICK i \in Instances :
        /\ Fresh(i)
        /\ backend' = [backend EXCEPT ![i] = "opening"]
        /\ client' = [client EXCEPT ![c] = "spawning"]
        /\ target' = [target EXCEPT ![c] = i]
  BY DEF Spawn
<1>2. \A j : Attached(j)' = Attached(j)
  BY <1>1, AttachedSame DEF Spawn
<1>3. Attached(i) = {} /\ backend[i] = "none"
  BY <1>1 DEF Attached, Fresh
<1>4. UNCHANGED <<viewers, departed, stopping>>
  BY DEF Spawn, viewerVars
<1>5. ASSUME NEW j \in Instances
      PROVE  Counted(j)'
  BY <1>1, <1>2, <1>3, <1>4 DEF Leases, Counted, Up, Typed
<1> QED BY <1>5 DEF Leases

\* Only a backend that answers and goes on takes a viewer.
LEMMA AttachLeases ==
  ASSUME Typed, Aimed, StoresOpenOnce, OwnerIsFound, Leases, NEW c \in Clients, Attach(c)
  PROVE  Leases'
<1>1. CASE SameInstance(c) /\ Admits(path)
  <2> PICK q : q = path
    OBVIOUS
  <2>1. /\ client[c] = "found" /\ q \in Instances /\ Up(q)
        /\ viewers' = [viewers EXCEPT ![q] = @ + 1]
        /\ client' = [client EXCEPT ![c] = "attached"]
        /\ target' = [target EXCEPT ![c] = q]
        /\ UNCHANGED <<backend, departed, stopping>>
    BY <1>1 DEF Attach, SameInstance, Aimed, OwnerIsFound, processVars
  <2>2. /\ Attached(q)' = Attached(q) \cup {c}
        /\ c \notin Attached(q)
        /\ \A j : j # q => Attached(j)' = Attached(j)
    BY <2>1 DEF Attached, Typed
  <2>3. Cardinality(Attached(q) \cup {c}) = Cardinality(Attached(q)) + 1
    BY <2>2, AttachedFinite, FS_AddElement
  <2>4. Cardinality(Attached(q)) + 1 <= Cardinality(Clients)
    <3>1. Attached(q) \cup {c} \in SUBSET Clients
      BY DEF Attached
    <3> QED BY <2>3, <3>1, FS_Subset, LaunchAssumption
  <2>5. ASSUME NEW j \in Instances
        PROVE  Counted(j)'
    <3>1. CASE j = q
      <4>1. Counted(q) /\ Up(q) /\ Cardinality(Attached(q)) \in Nat /\ Cardinality(Clients) \in Nat
        BY <2>1, AttachedFinite DEF Leases
      <4>2. /\ Cardinality(Attached(q)') = Cardinality(Attached(q)) + 1
            /\ viewers'[q] = viewers[q] + 1 /\ departed'[q] = departed[q] /\ backend'[q] = backend[q]
        BY <2>1, <2>2, <2>3 DEF Typed
      <4> QED BY <2>1, <2>4, <3>1, <4>1, <4>2 DEF Counted, Up, Typed
    <3>2. CASE j # q
      BY <2>1, <2>2, <3>2 DEF Leases, Counted, Up, Typed
    <3> QED BY <3>1, <3>2
  <2> QED BY <2>5 DEF Leases
<1>2. CASE ~(SameInstance(c) /\ Admits(path))
  <2>1. Goto(c, "out") /\ client[c] # "attached" /\ UNCHANGED <<viewerVars, processVars>>
    BY <1>2 DEF Attach
  <2>2. \A i : Attached(i)' = Attached(i)
    BY <2>1, AttachedOut DEF Attached
  <2> QED BY <2>1, <2>2, LeasesFrame DEF viewerVars, processVars
<1> QED BY <1>1, <1>2

\* Who leaves a backend that answers is counted as departed; who leaves another is not.
LEMMA LeaveLeases ==
  ASSUME Typed, Aimed, Leases, NEW c \in Clients, Goto(c, "out"), Departing(c),
         UNCHANGED <<backend, viewers, stopping>>
  PROVE  Leases'
<1>1. \A i : Attached(i)' = Attached(i) \ {c}
  BY AttachedOut
<1>2. CASE client[c] = "attached" /\ Up(target[c])
  <2> PICK t : t = target[c]
    OBVIOUS
  <2>1. t \in Instances /\ c \in Attached(t)
    BY <1>2 DEF Aimed, Attached
  <2>2. Cardinality(Attached(t)') = Cardinality(Attached(t)) - 1
    BY <1>1, <2>1, AttachedFinite, FS_RemoveElement
  <2>3. departed' = [departed EXCEPT ![t] = @ + 1]
    BY <1>2 DEF Departing
  <2>4. \A j : j # t => Attached(j)' = Attached(j)
    BY <1>1 DEF Attached
  <2>5. Cardinality(Attached(t)') >= 0
    <3>1. IsFiniteSet(Attached(t) \ {c})
      BY AttachedFinite, FS_RemoveElement
    <3>2. Cardinality(Attached(t) \ {c}) \in Nat
      BY <3>1, FS_CardinalityType
    <3> QED BY <1>1, <3>2
  <2>6. ASSUME NEW j \in Instances
        PROVE  Counted(j)'
    <3>1. CASE j = t
      <4>1. Counted(t) /\ Up(t) /\ Cardinality(Attached(t)) \in Nat /\ Cardinality(Clients) \in Nat
        BY <1>2, <2>1, AttachedFinite DEF Leases
      <4>2. departed'[t] = departed[t] + 1 /\ viewers'[t] = viewers[t] /\ backend'[t] = backend[t]
        BY <2>1, <2>3 DEF Typed
      <4> QED BY <2>1, <2>2, <2>5, <3>1, <4>1, <4>2 DEF Counted, Up, Typed
    <3>2. CASE j # t
      BY <2>1, <2>3, <2>4, <3>2 DEF Leases, Counted, Up, Typed
    <3> QED BY <3>1, <3>2
  <2> QED BY <2>6 DEF Leases
<1>3. CASE ~(client[c] = "attached" /\ Up(target[c]))
  <2>1. departed' = departed
    BY <1>3 DEF Departing
  <2>2. \A j : Up(j) => Attached(j)' = Attached(j)
    BY <1>1, <1>3 DEF Attached
  <2>3. ASSUME NEW j \in Instances
        PROVE  Counted(j)'
    BY <1>1, <2>1, <2>2 DEF Leases, Counted, Up
  <2> QED BY <2>3 DEF Leases
<1> QED BY <1>2, <1>3

\* A process that is gone leaves no count behind, and the counts of others alone.
LEMMA ForgetLeases ==
  ASSUME Typed, Leases, NEW i \in Instances, Forget(i), \A j : Attached(j)' = Attached(j)
  PROVE  Leases'
<1>1. ASSUME NEW j \in Instances
      PROVE  Counted(j)'
  BY AttachedFinite DEF Forget, Leases, Counted, Up, Typed
<1> QED BY <1>1 DEF Leases

\* A client that gives up never had a lease; what it kills is counted no more.
LEMMA GiveUpLeases ==
  ASSUME Typed, Aimed, Leases, NEW c \in Clients, GiveUp(c)
  PROVE  Leases'
<1>1. Goto(c, "out") /\ client[c] # "attached"
  BY DEF GiveUp
<1>2. \A i : Attached(i)' = Attached(i)
  BY <1>1, AttachedOut DEF Attached
<1>3. CASE client[c] = "spawning" /\ Gone(target[c])
  BY <1>2, <1>3, ForgetLeases DEF Gone, Aimed
<1>4. CASE UNCHANGED <<processVars, viewerVars>>
  BY <1>2, <1>4, LeasesFrame DEF processVars, viewerVars
<1> QED BY <1>3, <1>4 DEF GiveUp

\* What a backend does by itself.
LEMMA BackendLeases ==
  ASSUME Typed, Leases, NEW i \in Instances,
         \/ Detach(i) \/ DeadlinePasses(i) \/ Expire(i) \/ OpenStores(i) \/ Listen(i)
         \/ Acknowledge(i) \/ Shutdown(i) \/ Interrupt(i) \/ Release(i) \/ BackendDies(i)
  PROVE  Leases'
<1>1. \A j : Attached(j)' = Attached(j)
  BY DEF Detach, DeadlinePasses, Expire, OpenStores, Listen, Acknowledge, Shutdown, Interrupt,
    Release, BackendDies, Attached, clientVars
<1>2. CASE Forget(i)
  BY <1>1, <1>2, ForgetLeases
<1>3. CASE DeadlinePasses(i)
  BY <1>1, <1>3, LeasesFrame DEF DeadlinePasses, processVars
<1>4. CASE Detach(i)
  <2>1. ASSUME NEW j \in Instances
        PROVE  Counted(j)'
    BY <1>1, <1>4, AttachedFinite DEF Detach, Released, Leases, Counted, Up, Typed, processVars
  <2> QED BY <2>1 DEF Leases
<1>5. CASE Expire(i)
  <2>1. ASSUME NEW j \in Instances
        PROVE  Counted(j)'
    BY <1>1, <1>5 DEF Expire, Leases, Counted, Up, Typed, processVars
  <2> QED BY <2>1 DEF Leases
<1>6. CASE /\ backend[i] \in {"opening", "owning", "listening", "serving"}
           /\ backend' = [backend EXCEPT ![i] =
                CASE backend[i] = "opening" -> "owning" [] backend[i] = "owning" -> "listening"
                  [] OTHER -> backend'[i]]
           /\ backend[i] \in {"listening", "serving"} => backend'[i] \in {"serving", "draining"}
           /\ UNCHANGED viewerVars
  <2>1. Attached(i) = {} => Cardinality(Attached(i)) = 0
    BY FS_EmptySet
  <2>2. ASSUME NEW j \in Instances
        PROVE  Counted(j)'
    BY <1>1, <1>6, <2>1 DEF Leases, Counted, Up, Typed, viewerVars
  <2> QED BY <2>2 DEF Leases
<1> QED
  BY <1>2, <1>3, <1>4, <1>5, <1>6 DEF OpenStores, Listen, Acknowledge, CloseSocket, Shutdown,
    Interrupt, Release, BackendDies, Gone, Typed

\* Viewers and departures count the clients that are attached, after every step.
LEMMA LeasesStep ==
  ASSUME Typed, Aimed, StoresOpenOnce, OwnerIsFound, Leases, Next
  PROVE  Leases'
<1>1. ASSUME NEW c \in Clients, Disconnected(c)
      PROVE  Leases'
  <2>1. Goto(c, "out") /\ ~Up(target[c]) /\ UNCHANGED <<processVars, viewerVars>>
    BY <1>1 DEF Disconnected
  <2>2. Departing(c)
    BY <2>1 DEF Departing, viewerVars
  <2> QED BY <2>1, <2>2, LeaveLeases DEF processVars, viewerVars
<1>2. ASSUME NEW c \in Clients, Leave(c) \/ ClientDies(c)
      PROVE  Leases'
  BY <1>2, LeaveLeases DEF Leave, ClientDies, processVars
<1> QED
  BY <1>1, <1>2, LookingLeases, SpawnLeases, AttachLeases, GiveUpLeases, BackendLeases
  DEF Next, ClientStep, BackendStep
-----------------------------------------------------------------------------
(* Viewers and builds *)

\* A backend begins to stop only without viewers, and then lets none in.
LEMMA StoppingStep ==
  ASSUME Typed, Aimed, Leases, NoViewerOnStopping, Next
  PROVE  NoViewerOnStopping'
<1> USE DEF clientVars, processVars, viewerVars
<1>1. ASSUME NEW c \in Clients,
             \/ Launch(c) \/ AcquireStartup(c) \/ QueueTimeout(c) \/ Dial(c) \/ Probe(c)
             \/ Acknowledged(c) \/ Redial(c) \/ Disconnected(c) \/ Leave(c) \/ ClientDies(c)
      PROVE  NoViewerOnStopping'
  BY <1>1 DEF Launch, AcquireStartup, QueueTimeout, Dial, Probe, Acknowledged, Redial,
    Disconnected, Leave, ClientDies, Goto, Meet, NoViewerOnStopping, Typed
<1>2. ASSUME NEW c \in Clients, Spawn(c)
      PROVE  NoViewerOnStopping'
  BY <1>2 DEF Spawn, NoViewerOnStopping, Typed
<1>3. ASSUME NEW c \in Clients, Attach(c)
      PROVE  NoViewerOnStopping'
  <2>1. CASE SameInstance(c) /\ Admits(path)
    BY <1>3, <2>1 DEF Attach, SameInstance, Admits, NoViewerOnStopping, Typed
  <2>2. CASE ~(SameInstance(c) /\ Admits(path))
    <3>1. Goto(c, "out") /\ UNCHANGED viewerVars
      BY <1>3, <2>2 DEF Attach
    <3> QED BY <3>1 DEF Goto, NoViewerOnStopping, Typed
  <2> QED BY <2>1, <2>2
<1>4. ASSUME NEW i \in Instances, Forget(i),
             \A c \in Clients : client'[c] = "attached" =>
               client[c] = "attached" /\ target'[c] = target[c]
      PROVE  NoViewerOnStopping'
  BY <1>4 DEF Forget, NoViewerOnStopping, Typed, Aimed
<1>5. ASSUME NEW c \in Clients, GiveUp(c)
      PROVE  NoViewerOnStopping'
  <2>1. \A d \in Clients : client'[d] = "attached" =>
          client[d] = "attached" /\ target'[d] = target[d]
    BY <1>5 DEF GiveUp, Goto, Typed
  <2>2. CASE client[c] = "spawning" /\ Gone(target[c])
    BY <1>4, <2>1, <2>2 DEF Gone, Aimed
  <2>3. CASE UNCHANGED viewerVars
    BY <2>1, <2>3 DEF NoViewerOnStopping
  <2> QED BY <1>5, <2>2, <2>3 DEF GiveUp
<1>6. ASSUME NEW i \in Instances, Expire(i)
      PROVE  NoViewerOnStopping'
  <2>1. Cardinality(Attached(i)) = 0
    BY <1>6, AttachedFinite DEF Expire, Leases, Counted, Up, Typed
  <2>2. Attached(i) = {}
    BY <2>1, AttachedFinite, FS_EmptySet
  <2>3. \A c \in Clients : client[c] = "attached" => target[c] # i
    BY <2>2 DEF Attached
  <2>4. client' = client /\ target' = target /\ stopping' = [stopping EXCEPT ![i] = TRUE]
    BY <1>6 DEF Expire
  <2> QED BY <2>3, <2>4 DEF NoViewerOnStopping, Typed, Aimed
<1>7. ASSUME NEW i \in Instances,
             \/ Detach(i) \/ DeadlinePasses(i) \/ OpenStores(i) \/ Listen(i) \/ Acknowledge(i)
             \/ Shutdown(i) \/ Interrupt(i) \/ Release(i) \/ BackendDies(i)
      PROVE  NoViewerOnStopping'
  <2>1. UNCHANGED clientVars
    BY <1>7 DEF Detach, DeadlinePasses, OpenStores, Listen, Acknowledge, Shutdown, Interrupt,
      Release, BackendDies
  <2>2. CASE Forget(i)
    BY <1>4, <2>1, <2>2
  <2>3. CASE UNCHANGED stopping
    BY <2>1, <2>3 DEF NoViewerOnStopping
  <2> QED
    BY <1>7, <2>2, <2>3 DEF Detach, DeadlinePasses, OpenStores, Listen, Acknowledge, Shutdown,
      Interrupt, Release, BackendDies, Gone
<1> QED
  BY <1>1, <1>2, <1>3, <1>5, <1>6, <1>7 DEF Next, ClientStep, BackendStep

\* A client is only ever attached to a backend of a build it may use.
LEMMA SuitedStep ==
  ASSUME Typed, Aimed, StoresOpenOnce, OwnerIsFound, Suited, Next
  PROVE  Suited'
<1> USE DEF clientVars, processVars, viewerVars, Compatible, Suited, Typed
<1>1. ASSUME NEW c \in Clients,
             \/ Launch(c) \/ AcquireStartup(c) \/ QueueTimeout(c) \/ Probe(c)
             \/ Acknowledged(c) \/ Disconnected(c) \/ Leave(c) \/ ClientDies(c)
      PROVE  Suited'
  BY <1>1 DEF Launch, AcquireStartup, QueueTimeout, Probe, Acknowledged, Disconnected, Leave,
    ClientDies, Goto
<1>2. ASSUME NEW c \in Clients, Dial(c) \/ Redial(c)
      PROVE  Suited'
  BY <1>2 DEF Dial, Redial, Goto, Meet
<1>3. ASSUME NEW c \in Clients, Spawn(c)
      PROVE  Suited'
  BY <1>3 DEF Spawn, Fresh
<1>4. ASSUME NEW c \in Clients, Attach(c)
      PROVE  Suited'
  <2>1. CASE SameInstance(c) /\ Admits(path)
    BY <1>4, <2>1 DEF Attach, SameInstance
  <2>2. CASE ~(SameInstance(c) /\ Admits(path))
    <3>1. Goto(c, "out") /\ UNCHANGED processVars
      BY <1>4, <2>2 DEF Attach
    <3> QED BY <3>1 DEF Goto
  <2> QED BY <2>1, <2>2
<1>5. ASSUME NEW i \in Instances, Forget(i),
             \A c \in Clients : client'[c] \in {"found", "attached"} =>
               client'[c] = client[c] /\ target'[c] = target[c]
      PROVE  Suited'
  BY <1>5 DEF Forget, Aimed
<1>6. ASSUME NEW c \in Clients, GiveUp(c)
      PROVE  Suited'
  <2>1. \A d \in Clients : client'[d] \in {"found", "attached"} =>
          client'[d] = client[d] /\ target'[d] = target[d]
    BY <1>6 DEF GiveUp, Goto
  <2>2. CASE client[c] = "spawning" /\ Gone(target[c])
    BY <1>5, <2>1, <2>2 DEF Gone, Aimed
  <2>3. CASE UNCHANGED processVars
    BY <2>1, <2>3
  <2> QED BY <1>6, <2>2, <2>3 DEF GiveUp
<1>7. ASSUME NEW i \in Instances,
             \/ Detach(i) \/ DeadlinePasses(i) \/ Expire(i) \/ OpenStores(i) \/ Listen(i)
             \/ Acknowledge(i) \/ Shutdown(i) \/ Interrupt(i) \/ Release(i) \/ BackendDies(i)
      PROVE  Suited'
  <2>1. UNCHANGED clientVars
    BY <1>7 DEF Detach, DeadlinePasses, Expire, OpenStores, Listen, Acknowledge, Shutdown,
      Interrupt, Release, BackendDies
  <2>2. CASE Forget(i)
    BY <1>5, <2>1, <2>2
  <2>3. CASE /\ UNCHANGED parent
             /\ \A j \in Instances : backend'[j] # "none" => backend[j] # "none"
    BY <2>1, <2>3 DEF Aimed
  <2> QED
    BY <1>7, <2>2, <2>3 DEF Detach, DeadlinePasses, Expire, OpenStores, Listen, Acknowledge,
      CloseSocket, Shutdown, Interrupt, Release, BackendDies, Gone
<1> QED
  BY <1>1, <1>2, <1>3, <1>4, <1>6, <1>7 DEF Next, ClientStep, BackendStep
-----------------------------------------------------------------------------
(* One launch at a time *)

\* One launch at a time has the startup lock.
Exclusive == \A c, d \in Clients : Holds(c) /\ Holds(d) => c = d

\* The startup lock keeps its one holder, whatever step is taken.
LEMMA ExclusiveStep ==
  ASSUME Typed, Exclusive, Next
  PROVE  Exclusive'
<1> USE DEF clientVars, Exclusive, Holds, Typed
<1>1. ASSUME NEW c \in Clients, AcquireStartup(c)
      PROVE  Exclusive'
  BY <1>1 DEF AcquireStartup, StartupFree, Goto
<1>2. ASSUME NEW c \in Clients,
             \/ Launch(c) \/ QueueTimeout(c) \/ Dial(c) \/ Probe(c) \/ Spawn(c) \/ Acknowledged(c)
             \/ Redial(c) \/ Attach(c) \/ Disconnected(c) \/ Leave(c) \/ ClientDies(c) \/ GiveUp(c)
      PROVE  Exclusive'
  BY <1>2 DEF Launch, QueueTimeout, Dial, Probe, Spawn, Acknowledged, Redial, Attach,
    Disconnected, Leave, ClientDies, GiveUp, Goto, Meet
<1>3. CASE UNCHANGED client
  BY <1>3
<1> QED
  BY <1>1, <1>2, <1>3 DEF Next, ClientStep, BackendStep, Detach, DeadlinePasses, Expire,
    OpenStores, Listen, Acknowledge, Shutdown, Interrupt, Release, BackendDies

\* While nothing died, a backend that opens is the one its client waits for, and nobody
\* owns the database while a client prepares to start one.
Orderly ==
  deaths = 0 =>
    /\ \A i \in Instances : backend[i] = "opening" => parent[i] \in Clients /\ Awaited(i)
    /\ \A c \in Clients : client[c] = "preparing" => owner = Nobody

\* While no process died, a backend that opens the stores has a client that waits for
\* it, and nobody prepares to start another beside an owner.
LEMMA OrderlyStep ==
  ASSUME Typed, Aimed, Exclusive, Orderly, Next
  PROVE  Orderly'
<1> USE DEF clientVars, processVars, viewerVars, boundVars, Orderly, Awaited, Typed
<1>1. ASSUME NEW c \in Clients,
             \/ Launch(c) \/ AcquireStartup(c) \/ QueueTimeout(c) \/ Dial(c) \/ Probe(c)
             \/ Redial(c) \/ Disconnected(c) \/ Leave(c)
      PROVE  Orderly'
  BY <1>1 DEF Launch, AcquireStartup, QueueTimeout, Dial, Probe, Redial, Disconnected, Leave,
    Goto, Meet
<1>2. ASSUME NEW c \in Clients, Spawn(c)
      PROVE  Orderly'
  BY <1>2 DEF Spawn, Fresh
<1>3. ASSUME NEW c \in Clients, Acknowledged(c)
      PROVE  Orderly'
  BY <1>3 DEF Acknowledged, Goto
<1>4. ASSUME NEW c \in Clients, Attach(c)
      PROVE  Orderly'
  BY <1>4 DEF Attach, Goto
<1>5. ASSUME NEW c \in Clients, ClientDies(c)
      PROVE  Orderly'
  BY <1>5 DEF ClientDies
<1>6. ASSUME NEW c \in Clients, GiveUp(c)
      PROVE  Orderly'
  BY <1>6 DEF GiveUp, Gone, Forget, Goto, Aimed
<1>7. ASSUME NEW i \in Instances, Detach(i) \/ DeadlinePasses(i) \/ Expire(i)
      PROVE  Orderly'
  BY <1>7 DEF Detach, DeadlinePasses, Expire
<1>8. ASSUME NEW i \in Instances, OpenStores(i)
      PROVE  Orderly'
  <2>1. CASE Forget(i) /\ UNCHANGED owner
    BY <1>8, <2>1 DEF OpenStores, Forget
  <2>2. CASE owner' = i /\ backend' = [backend EXCEPT ![i] = "owning"] /\ UNCHANGED <<parent, viewerVars>>
    <3>1. deaths = 0 => \A c \in Clients : client[c] # "preparing"
      BY <1>8 DEF OpenStores, Exclusive, Holds
    <3> QED BY <1>8, <2>2, <3>1 DEF OpenStores
  <2> QED BY <1>8, <2>1, <2>2 DEF OpenStores
<1>9. ASSUME NEW i \in Instances, Listen(i) \/ Acknowledge(i) \/ Shutdown(i) \/ Interrupt(i)
      PROVE  Orderly'
  BY <1>9 DEF Listen, Acknowledge, Shutdown, Interrupt, CloseSocket
<1>10. ASSUME NEW i \in Instances, Release(i)
       PROVE  Orderly'
  BY <1>10 DEF Release, Forget
<1>11. ASSUME NEW i \in Instances, BackendDies(i)
       PROVE  Orderly'
  BY <1>11 DEF BackendDies
<1> QED
  BY <1>1, <1>2, <1>3, <1>4, <1>5, <1>6, <1>7, <1>8, <1>9, <1>10, <1>11
  DEF Next, ClientStep, BackendStep

\* Two backends that open would both be awaited, by the one client that has the lock.
LEMMA StartsAloneStep ==
  ASSUME Typed, Exclusive, Orderly, StartsAlone, Next
  PROVE  StartsAlone'
<1> USE DEF processVars, boundVars, StartsAlone, Typed
<1>1. CASE UNCHANGED processVars
  <2>1. deaths' = 0 => deaths = 0
    BY DEF Next, ClientStep, BackendStep, Launch, AcquireStartup, QueueTimeout, Dial, Probe, Spawn,
      Acknowledged, Redial, Attach, Disconnected, Leave, ClientDies, GiveUp, Detach,
      DeadlinePasses, Expire, OpenStores, Listen, Acknowledge, Shutdown, Interrupt, Release,
      BackendDies
  <2> QED BY <1>1, <2>1
<1>2. ASSUME NEW c \in Clients, Spawn(c)
      PROVE  StartsAlone'
  BY <1>2 DEF Spawn, Orderly
<1>3. ASSUME NEW c \in Clients, GiveUp(c)
      PROVE  StartsAlone'
  BY <1>1, <1>3 DEF GiveUp, Gone, Forget
<1>4. ASSUME NEW i \in Instances, OpenStores(i)
      PROVE  StartsAlone'
  <2>1. CASE Forget(i) /\ UNCHANGED owner
    BY <1>4, <2>1 DEF OpenStores, Forget
  <2>2. CASE owner' = i /\ backend' = [backend EXCEPT ![i] = "owning"]
    <3>1. \A j \in Instances : deaths = 0 /\ backend[j] = "opening" => j = i
      BY <1>4 DEF OpenStores, Orderly, Exclusive, Holds, Awaited
    <3> QED BY <1>4, <2>2, <3>1 DEF OpenStores
  <2> QED BY <1>4, <2>1, <2>2 DEF OpenStores
<1>5. ASSUME NEW i \in Instances, Listen(i) \/ Acknowledge(i) \/ Shutdown(i) \/ Interrupt(i)
      PROVE  StartsAlone'
  BY <1>5 DEF Listen, Acknowledge, Shutdown, Interrupt, CloseSocket
<1>6. ASSUME NEW i \in Instances, Release(i) \/ BackendDies(i)
      PROVE  StartsAlone'
  BY <1>6 DEF Release, BackendDies, Gone, Forget
<1> QED BY Kinds, <1>1, <1>2, <1>3, <1>4, <1>5, <1>6

-----------------------------------------------------------------------------
(* Theorems *)

IInv ==
  /\ Typed /\ Aimed /\ StoresOpenOnce /\ OwnerIsFound
  /\ Leases /\ NoViewerOnStopping /\ Suited /\ Exclusive /\ Orderly /\ StartsAlone

\* Before the first launch nothing runs and nobody waits.
LEMMA InitIInv == Init => IInv
<1> SUFFICES ASSUME Init PROVE IInv
  OBVIOUS
<1> USE DEF Init
<1>1. Typed
  BY DEF Typed, ClientPhases, BackendPhases
<1>2. Leases
  BY AttachedFinite DEF Leases, Counted, Up
<1>3. Exclusive /\ Orderly /\ StartsAlone /\ Aimed /\ Suited /\ NoViewerOnStopping
  BY DEF StartsAlone, Exclusive, Holds, Orderly, Aimed, Suited, NoViewerOnStopping
<1>4. StoresOpenOnce /\ OwnerIsFound
  BY LaunchAssumption DEF StoresOpenOnce, OwnerIsFound, Up
<1> QED BY <1>1, <1>2, <1>3, <1>4 DEF IInv

\* A step of something else leaves launches alone.
LEMMA StutterIInv ==
  ASSUME IInv, UNCHANGED vars
  PROVE  IInv'
<1> USE DEF IInv, vars, clientVars, processVars, viewerVars, boundVars
<1>1. Typed' /\ Aimed' /\ StoresOpenOnce' /\ OwnerIsFound'
  BY DEF Typed, Aimed, StoresOpenOnce, OwnerIsFound, Up
<1>2. \A i : Attached(i)' = Attached(i)
  BY DEF Attached
<1>3. Leases'
  BY <1>2, LeasesFrame
<1>4. NoViewerOnStopping' /\ Suited' /\ Exclusive' /\ Orderly' /\ StartsAlone'
  BY DEF StartsAlone, NoViewerOnStopping, Suited, Compatible, Exclusive, Holds, Orderly, Awaited
<1> QED BY <1>1, <1>3, <1>4

\* Every step keeps the invariant.
LEMMA NextIInv ==
  ASSUME IInv, [Next]_vars
  PROVE  IInv'
BY TypedStep, AimedStep, LockedStep, LeasesStep, StoppingStep, SuitedStep, ExclusiveStep,
  OrderlyStep, StartsAloneStep, StutterIInv DEF IInv

\* The invariant holds of every run: locks, leases and builds stay in step.
THEOREM LaunchesHold == Spec => []IInv
BY InitIInv, NextIInv, PTL DEF Spec

\* Every reachable state has its type; no backend counts fewer viewers than have left it.
THEOREM LaunchTypeCorrect == Spec => []TypeOK
<1>1. IInv => TypeOK
  BY DEF IInv, Typed, Leases, Counted, TypeOK
<1> QED BY <1>1, LaunchesHold, PTL

\* The stores of a token database are open in the process that has its lock, and in no
\* other, whatever dies and whenever (OpenWithOptions, Runtime.Close).
THEOREM OneOwner == Spec => []StoresOpenOnce
<1>1. IInv => StoresOpenOnce
  BY DEF IInv
<1> QED BY <1>1, LaunchesHold, PTL

\* A backend that answers is the one behind the socket: no stale file hides it, and no
\* other backend removes its file (Serve's order of opening and closing).
THEOREM OwnerReachable == Spec => []OwnerIsFound
<1>1. IInv => OwnerIsFound
  BY DEF IInv
<1> QED BY <1>1, LaunchesHold, PTL

\* The lease count is exact, so no viewer is on a backend that decided to stop
\* (viewerState).
THEOREM ViewersKept == Spec => []NoViewerOnStopping
<1>1. IInv => NoViewerOnStopping
  BY DEF IInv
<1> QED BY <1>1, LaunchesHold, PTL

\* No viewer is attached to a backend of another build, although the socket may change
\* hands between the descriptor and the lease (privateHandler).
THEOREM OwnBuild == Spec => []OnlyCompatible
<1>1. IInv => OnlyCompatible
  BY DEF IInv, Suited, OnlyCompatible
<1> QED BY <1>1, LaunchesHold, PTL

\* Without deaths, no backend is started for a database that has an owner (the startup
\* lock).
THEOREM StartedAlone == Spec => []StartsAlone
<1>1. IInv => StartsAlone
  BY DEF IInv
<1> QED BY <1>1, LaunchesHold, PTL
=============================================================================
