------------------------------- MODULE Launch -------------------------------
(***************************************************************************)
(* Clients find or start the one backend of a token database, attach to    *)
(* it, and leave; a backend without viewers ends (src/packages/core:       *)
(* localclient, localbackend, localruntime, serverownership, writerlock).  *)
(* Backends and clients are processes of possibly different builds, each   *)
(* may die at any point.                                                   *)
(***************************************************************************)
EXTENDS Integers, FiniteSets

CONSTANTS
  Clients,       \* viewers' processes
  Instances,     \* backend processes alive at a time; an instance id may be used again
  Build,         \* what each client, and the backend it starts, insist on: protocol
                 \* version and settings
  Nobody,        \* no instance
  Stale,         \* a socket file nobody listens on
  MaxUnnoticed,  \* bound: closed sessions a backend has not noticed yet
  MaxDeaths,     \* bound: processes that die
  MaxFailures    \* bound: launches given up, backends told to stop

ASSUME LaunchAssumption ==
  /\ IsFiniteSet(Clients)
  /\ Nobody \notin Instances /\ Stale \notin Instances /\ Nobody # Stale
  /\ MaxUnnoticed \in Nat /\ MaxDeaths \in Nat /\ MaxFailures \in Nat

VARIABLES
  client,        \* where each client is
  target,        \* the instance it is concerned with
  backend,       \* where each backend is
  parent,        \* the client that started it, whose build it is of
  owner,         \* who holds the lifetime lock of the token database
  path,          \* what the private socket's path leads to
  viewers,       \* viewerState.viewers of each backend
  departed,      \* those of them whose connection is closed already
  due,           \* the deadline of viewerState has passed
  visited,       \* it is a reconnect deadline: a viewer was there
  stopping,      \* viewerState.stopping
  deaths, failures

clientVars  == <<client, target>>
processVars == <<backend, parent, owner, path>>
viewerVars  == <<viewers, departed, due, visited, stopping>>
boundVars   == <<deaths, failures>>
vars == <<clientVars, processVars, viewerVars, boundVars>>

ClientPhases == {"out", "queued", "dialing", "probing", "preparing", "spawning",
                 "redialing", "found", "attached"}
BackendPhases == {"none", "opening", "owning", "listening", "serving", "draining"}

\* It answers on its socket.
Up(i) == backend[i] \in {"listening", "serving"}

-----------------------------------------------------------------------------
(* Launch: discovery under the startup lock *)

\* The startup lock is held from the first dial until launch returns.
StartupFree ==
  \A c \in Clients : client[c] \notin {"dialing", "probing", "preparing", "spawning", "redialing"}

Goto(c, where) ==
  /\ client' = [client EXCEPT ![c] = where]
  /\ target' = [target EXCEPT ![c] = IF where = "out" THEN Nobody ELSE @]

Meet(c, i) ==
  /\ client' = [client EXCEPT ![c] = "found"]
  /\ target' = [target EXCEPT ![c] = i]

Launch(c) ==
  /\ client[c] = "out"
  /\ Goto(c, "queued")
  /\ UNCHANGED <<processVars, viewerVars, boundVars>>

AcquireStartup(c) ==
  /\ client[c] = "queued"
  /\ StartupFree
  /\ Goto(c, "dialing")
  /\ UNCHANGED <<processVars, viewerVars, boundVars>>

\* Waiting for the lock is bounded by the startup timeout.
QueueTimeout(c) ==
  /\ client[c] = "queued"
  /\ ~StartupFree
  /\ Goto(c, "out")
  /\ UNCHANGED <<processVars, viewerVars, boundVars>>

Compatible(c, i) == Build[parent[i]] = Build[c]

\* The descriptor of the instance behind the socket.  Only a failed connection leads
\* on to starting one; an incompatible answer ends the launch.
Dial(c) ==
  /\ client[c] = "dialing"
  /\ \/ path \in Instances /\ Compatible(c, path) /\ Meet(c, path)
     \/ path \in Instances /\ ~Compatible(c, path) /\ Goto(c, "out")
     \/ path \notin Instances /\ Goto(c, "probing")
  /\ UNCHANGED <<processVars, viewerVars, boundVars>>

\* startOwner looks whether the lifetime lock is held: ErrOwned.
Probe(c) ==
  /\ client[c] = "probing"
  /\ Goto(c, IF owner = Nobody THEN "preparing" ELSE "out")
  /\ UNCHANGED <<processVars, viewerVars, boundVars>>

\* An instance id nobody uses or remembers.
Fresh(i) == backend[i] = "none" /\ \A c \in Clients : target[c] # i

\* The callback for old storage ran; the bundled backend is started.
Spawn(c) ==
  /\ client[c] = "preparing"
  /\ \E i \in Instances :
       /\ Fresh(i)
       /\ backend' = [backend EXCEPT ![i] = "opening"]
       /\ parent' = [parent EXCEPT ![i] = c]
       /\ client' = [client EXCEPT ![c] = "spawning"]
       /\ target' = [target EXCEPT ![c] = i]
  /\ UNCHANGED <<owner, path, viewerVars, boundVars>>

\* The backend acknowledged, or its end of the pipe was closed by its death.
Acknowledged(c) ==
  /\ client[c] = "spawning"
  /\ \/ backend[target[c]] \in {"serving", "draining"} /\ Goto(c, "redialing")
     \/ backend[target[c]] = "none" /\ Goto(c, "out")
  /\ UNCHANGED <<processVars, viewerVars, boundVars>>

Redial(c) ==
  /\ client[c] = "redialing"
  /\ IF path \in Instances /\ Compatible(c, path) THEN Meet(c, path) ELSE Goto(c, "out")
  /\ UNCHANGED <<processVars, viewerVars, boundVars>>

-----------------------------------------------------------------------------
(* Viewers *)

\* Every request names the instance the client met: instance_changed otherwise.
SameInstance(c) == path = target[c]

\* viewerState.attach: shutting_down once stopping.
Admits(i) == ~stopping[i]

Attach(c) ==
  /\ client[c] = "found"
  /\ IF SameInstance(c) /\ Admits(path)
     THEN /\ viewers' = [viewers EXCEPT ![path] = @ + 1]
          /\ visited' = [visited EXCEPT ![path] = TRUE]
          /\ client' = [client EXCEPT ![c] = "attached"]
          /\ target' = [target EXCEPT ![c] = path]
          /\ UNCHANGED <<departed, due, stopping>>
     ELSE Goto(c, "out") /\ UNCHANGED viewerVars
  /\ UNCHANGED <<processVars, boundVars>>

\* A client closes its session; its backend notices later.
Departing(c) ==
  departed' = IF client[c] = "attached" /\ Up(target[c])
              THEN [departed EXCEPT ![target[c]] = @ + 1] ELSE departed

Leave(c) ==
  /\ client[c] = "attached" /\ Up(target[c])
  /\ departed[target[c]] < MaxUnnoticed
  /\ Departing(c)
  /\ Goto(c, "out")
  /\ UNCHANGED <<processVars, viewers, due, visited, stopping, boundVars>>

\* The stream ends because the backend ended.
Disconnected(c) ==
  /\ client[c] = "attached" /\ ~Up(target[c])
  /\ Goto(c, "out")
  /\ UNCHANGED <<processVars, viewerVars, boundVars>>

Released(i) == viewers[i] - 1

\* viewerState.detach: the last one to leave sets a new deadline.
NewDeadline(i) == IF viewers[i] = 1 THEN [due EXCEPT ![i] = FALSE] ELSE due

Detach(i) ==
  /\ departed[i] > 0
  /\ departed' = [departed EXCEPT ![i] = @ - 1]
  /\ viewers' = [viewers EXCEPT ![i] = Released(i)]
  /\ due' = NewDeadline(i)
  /\ UNCHANGED <<visited, stopping, clientVars, processVars, boundVars>>

\* Time.  The startup grace of a backend is as long as the startup timeout of the
\* client that started it and began later; the reconnect grace is not.
Launching(i) == \E c \in Clients : parent[i] = c /\ target[c] = i /\ client[c] # "attached"

\* Mutant: no deadline before the first viewer left.
OnlyOnceVisited(i) == visited[i]

Elapses(i) == visited[i] \/ ~Launching(i)

DeadlinePasses(i) ==
  /\ backend[i] = "serving" /\ ~due[i]
  /\ Elapses(i)
  /\ due' = [due EXCEPT ![i] = TRUE]
  /\ UNCHANGED <<viewers, departed, visited, stopping, clientVars, processVars, boundVars>>

-----------------------------------------------------------------------------
(* The backend process *)

\* Mutant: the lock is not asked.
NotAsked == TRUE

\* serverownership.Lifetime: a lock of the kernel, taken without waiting.
Unowned == owner = Nobody

\* The client that started it still waits for its acknowledgement.
Awaited(i) == client[parent[i]] = "spawning" /\ target[parent[i]] = i

Forget(i) ==
  /\ backend' = [backend EXCEPT ![i] = "none"]
  /\ viewers' = [viewers EXCEPT ![i] = 0] /\ departed' = [departed EXCEPT ![i] = 0]
  /\ due' = [due EXCEPT ![i] = FALSE] /\ visited' = [visited EXCEPT ![i] = FALSE]
  /\ stopping' = [stopping EXCEPT ![i] = FALSE]
  /\ parent' = [parent EXCEPT ![i] = Nobody]

\* OpenWithOptions under the operation lock.  A refused backend exits, and so does one
\* whose settings never came.
OpenStores(i) ==
  /\ backend[i] = "opening"
  /\ \/ Unowned /\ owner' = i /\ backend' = [backend EXCEPT ![i] = "owning"]
        /\ UNCHANGED <<parent, viewerVars>>
     \/ (~Unowned \/ ~Awaited(i)) /\ Forget(i) /\ UNCHANGED owner
  /\ UNCHANGED <<path, clientVars, boundVars>>

\* Mutant: a socket file left behind is in the way.
PathFree == path = Nobody

\* The owner removes what is left of another one before it listens.
PathUsable == TRUE

Listen(i) ==
  /\ backend[i] = "owning"
  /\ PathUsable
  /\ path' = i
  /\ backend' = [backend EXCEPT ![i] = "listening"]
  /\ UNCHANGED <<parent, owner, clientVars, viewerVars, boundVars>>

\* viewerState.expired, with the lock that attach takes.
Expire(i) ==
  /\ backend[i] = "serving" /\ ~stopping[i]
  /\ viewers[i] = 0 /\ due[i]
  /\ stopping' = [stopping EXCEPT ![i] = TRUE]
  /\ UNCHANGED <<viewers, departed, due, visited, clientVars, processVars, boundVars>>

\* Closing the listener removes the socket file.
CloseSocket(i) ==
  /\ path' = Nobody
  /\ backend' = [backend EXCEPT ![i] = "draining"]
  /\ UNCHANGED <<parent, owner>>

\* ready: the descriptor is written to the pipe.  A write nobody reads ends the backend,
\* although other clients may be on it.
Acknowledge(i) ==
  /\ backend[i] = "listening"
  /\ \/ Awaited(i) /\ backend' = [backend EXCEPT ![i] = "serving"]
        /\ UNCHANGED <<parent, owner, path>>
     \/ ~Awaited(i) /\ CloseSocket(i)
  /\ UNCHANGED <<clientVars, viewerVars, boundVars>>

Shutdown(i) ==
  /\ backend[i] = "serving" /\ stopping[i]
  /\ CloseSocket(i)
  /\ UNCHANGED <<clientVars, viewerVars, boundVars>>

\* SIGTERM or SIGINT.
Interrupt(i) ==
  /\ backend[i] = "serving"
  /\ failures < MaxFailures /\ failures' = failures + 1
  /\ CloseSocket(i)
  /\ UNCHANGED <<clientVars, viewerVars, deaths>>

\* Requests drained, capture and processing joined, stores closed; then the lock.
Release(i) ==
  /\ backend[i] = "draining"
  /\ owner' = Nobody
  /\ Forget(i)
  /\ UNCHANGED <<path, clientVars, boundVars>>

\* The kernel closes what a dead process had open, but its socket file stays.
Gone(i) ==
  /\ owner' = IF owner = i THEN Nobody ELSE owner
  /\ path' = IF path = i THEN Stale ELSE path
  /\ Forget(i)

BackendDies(i) ==
  /\ backend[i] # "none"
  /\ deaths < MaxDeaths /\ deaths' = deaths + 1
  /\ Gone(i)
  /\ UNCHANGED <<clientVars, failures>>

\* A client dies; what it started goes on, up to its acknowledgement.
ClientDies(c) ==
  /\ client[c] # "out"
  /\ deaths < MaxDeaths /\ deaths' = deaths + 1
  /\ Departing(c)
  /\ Goto(c, "out")
  /\ UNCHANGED <<processVars, viewers, due, visited, stopping, failures>>

\* The startup timeout, or the user: a backend that did not answer yet is killed.
GiveUp(c) ==
  /\ client[c] \notin {"out", "attached"}
  /\ failures < MaxFailures /\ failures' = failures + 1
  /\ Goto(c, "out")
  /\ IF client[c] = "spawning" /\ backend[target[c]] # "none"
     THEN Gone(target[c])
     ELSE UNCHANGED <<processVars, viewerVars>>
  /\ UNCHANGED deaths

-----------------------------------------------------------------------------
Init ==
  /\ client = [c \in Clients |-> "out"] /\ target = [c \in Clients |-> Nobody]
  /\ backend = [i \in Instances |-> "none"]
  /\ parent = [i \in Instances |-> Nobody]
  /\ owner = Nobody /\ path = Nobody
  /\ viewers = [i \in Instances |-> 0] /\ departed = [i \in Instances |-> 0]
  /\ due = [i \in Instances |-> FALSE] /\ visited = [i \in Instances |-> FALSE]
  /\ stopping = [i \in Instances |-> FALSE]
  /\ deaths = 0 /\ failures = 0

ClientStep(c) ==
  \/ AcquireStartup(c) \/ QueueTimeout(c) \/ Dial(c) \/ Probe(c) \/ Spawn(c)
  \/ Acknowledged(c) \/ Redial(c) \/ Attach(c) \/ Disconnected(c)

BackendStep(i) == OpenStores(i) \/ Listen(i) \/ Acknowledge(i) \/ Expire(i) \/ Shutdown(i) \/ Release(i)

Next ==
  \/ \E c \in Clients : Launch(c) \/ ClientStep(c) \/ Leave(c) \/ ClientDies(c) \/ GiveUp(c)
  \/ \E i \in Instances :
       \/ Detach(i) \/ DeadlinePasses(i) \/ BackendStep(i) \/ Interrupt(i) \/ BackendDies(i)

(***************************************************************************)
(* Fairness.  Processes that run go on, the clock advances, a closed       *)
(* connection is noticed, and people start clients again.  Nothing is      *)
(* assumed of leaving, giving up and dying.                                *)
(***************************************************************************)
Fairness ==
  /\ \A c \in Clients : WF_vars(Launch(c)) /\ WF_vars(ClientStep(c))
  /\ \A i \in Instances :
       WF_vars(Detach(i)) /\ WF_vars(DeadlinePasses(i)) /\ WF_vars(BackendStep(i))

Spec == Init /\ [][Next]_vars
FairSpec == Spec /\ Fairness

-----------------------------------------------------------------------------
TypeOK ==
  /\ client \in [Clients -> ClientPhases]
  /\ target \in [Clients -> Instances \cup {Nobody}]
  /\ backend \in [Instances -> BackendPhases]
  /\ parent \in [Instances -> Clients \cup {Nobody}]
  /\ owner \in Instances \cup {Nobody} /\ path \in Instances \cup {Nobody, Stale}
  /\ \A i \in Instances : departed[i] \in 0..viewers[i] /\ viewers[i] <= Cardinality(Clients) + departed[i]

\* The stores of a token database are open in one process at most, and it is the one
\* the lock names (OpenWithOptions, Runtime.Close).
StoresOpenOnce ==
  \A i \in Instances : backend[i] \in {"owning", "listening", "serving", "draining"} <=> owner = i

\* A backend that serves can be found: nobody removes or replaces its socket, however
\* its predecessor ended (Serve's order of closing).
OwnerIsFound == \A i \in Instances : Up(i) <=> path = i

\* No viewer is ever on a backend that decided to stop: a reconnect racing the timer
\* gets a lease or an error (viewerState).
NoViewerOnStopping ==
  \A c \in Clients : client[c] = "attached" => ~stopping[target[c]]

\* A viewer is attached to a backend of its own build, although another one may have
\* taken the socket between the descriptor and the lease (privateHandler).
OnlyCompatible ==
  \A c \in Clients : client[c] = "attached" /\ backend[target[c]] # "none" =>
    Compatible(c, target[c])

\* A backend started by a launcher finds the database owned only if a process died:
\* launchers do not start two at a time (the startup lock).
StartsAlone ==
  \A i \in Instances : backend[i] = "opening" /\ deaths = 0 => owner = Nobody

\* A backend that nobody views or launches ends and releases the database.
IdleEnds ==
  \A i \in Instances :
    []<>(backend[i] = "none" \/ \E c \in Clients : target[c] = i)

\* Whatever dies or is given up, and whatever it leaves behind, in the end a client
\* that tries is served again.
SomeoneServed == []<>(\E c \in Clients : client[c] = "attached")
=============================================================================
