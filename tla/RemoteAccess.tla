---------------------------- MODULE RemoteAccess ----------------------------
(***************************************************************************)
(* Dashboards of other machines on one backend: over SSH, or through the   *)
(* gateway of the `remote` command, which is a session of the backend      *)
(* itself; with the browser tabs behind each dashboard's bridge            *)
(* (src/packages/core: remoteaccess, localclient, sshtransport,            *)
(* tcptransport, dashboardproxy, desktoplaunch).  Backends end and start   *)
(* under them, connections break, and every party learns of it on its own. *)
(* Which requests a bridge or a gateway lets through is left out.          *)
(***************************************************************************)
EXTENDS Integers, FiniteSets

CONSTANTS
  Windows,         \* dashboards
  Transport,       \* of each: "local", "ssh" or "tcp"
  Host,            \* the session of the `remote` command
  MaxInstances,    \* bound: backend instances, numbered as they start
  MaxGateways,     \* bound: gateways started, each with a pin and a token of its own
  MaxBreaks        \* bound: broken connections

ASSUME RemoteAssumption ==
  /\ Transport \in [Windows -> {"local", "ssh", "tcp"}] /\ Host \notin Windows
  /\ \A w \in Windows : <<"tab", w>> \notin Windows \cup {Host}
  /\ MaxInstances \in Nat /\ MaxGateways \in Nat /\ MaxBreaks \in Nat

VARIABLES
  up,              \* the instance that runs, 0: none
  started,         \* instances started
  gateway,         \* the last gateway started
  accepting,       \* it is open
  link,            \* of each window and of the host
  streams,         \* lease streams whose every hop is intact
  leases,          \* those the backend counts as viewers
  answered,        \* the instance that answered a session last, and the gateway it was asked over
  breaks

remoteVars == <<up, started, gateway, accepting, link, streams, leases, answered, breaks>>

Clients == Windows \cup {Host}
Tab(w) == <<"tab", w>>
Streams == Clients \cup {Tab(w) : w \in Windows}

\* `instance` is pinned by the descriptor; `far` is the instance an SSH process is spliced
\* to, the gateway a TCP string names, or the one the host has started.
NoSession == [phase |-> "out", instance |-> 0, far |-> 0]
NoAnswer == <<0, 0>>

RemoteInit ==
  /\ up = 0 /\ started = 0 /\ gateway = 0 /\ accepting = FALSE
  /\ link = [h \in Clients |-> NoSession]
  /\ streams = {} /\ leases = {} /\ breaks = 0
  /\ answered = [h \in Clients |-> NoAnswer]

Attached(h) == link[h].phase \in {"attached", "shown"}
Over(transport) == {w \in Windows : Transport[w] = transport}
Local(h) == h = Host \/ Transport[h] = "local"

\* What is lost with the session of `h`.
Carried(h) == IF h = Host THEN Over("tcp") \cup {Tab(w) : w \in Over("tcp")} ELSE {h, Tab(h)}

-----------------------------------------------------------------------------
(* Backends *)

InstanceStarts ==
  /\ up = 0 /\ started < MaxInstances
  /\ started' = started + 1 /\ up' = started + 1
  /\ UNCHANGED <<gateway, accepting, link, streams, leases, answered, breaks>>

\* It stopped or died: its connections are closed.
InstanceEnds ==
  /\ up # 0
  /\ up' = 0 /\ streams' = {} /\ leases' = {}
  /\ link' = [h \in Clients |->
       IF ~Local(h) /\ Transport[h] = "ssh" THEN [link[h] EXCEPT !.far = 0] ELSE link[h]]
  /\ UNCHANGED <<started, gateway, accepting, answered, breaks>>

\* The backend sees that a stream has ended.
ReleaseLease(s) ==
  /\ s \in leases \ streams
  /\ leases' = leases \ {s}
  /\ UNCHANGED <<up, started, gateway, accepting, link, streams, answered, breaks>>

-----------------------------------------------------------------------------
(* Where a request goes *)

\* Mutant: a request is taken whatever instance it names.
AnyInstanceWillDo(i) == up # 0

\* privateHandler: instance_changed otherwise.
BackendAccepts(i) == up # 0 /\ i = up

\* A string names one gateway by its key; a stopped one is not there.
GatewayThere(h) == accepting /\ link[h].far = gateway

\* The gateway compares the instance, then asks over its own session, whose transport may
\* have to dial the socket anew, and names the instance of that session.
GatewayAccepts(i) ==
  i = link[Host].instance /\ link[Host].phase = "attached" /\ BackendAccepts(link[Host].instance)

\* A local or a TCP transport dials again when its connection is gone; one SSH process
\* carries a whole session (Dialer).
Served(h) ==
  CASE Local(h) -> BackendAccepts(link[h].instance)
    [] h \in Over("ssh") -> link[h].far # 0 /\ BackendAccepts(link[h].instance)
    [] h \in Over("tcp") -> GatewayThere(h) /\ GatewayAccepts(link[h].instance)

AnswerTo(h) == answered' = [answered EXCEPT ![h] = <<up, IF h \in Over("tcp") THEN gateway ELSE 0>>]

-----------------------------------------------------------------------------
(* Clients *)

\* The descriptor pins the instance.  Over SSH the remote machine finds or starts the
\* backend and splices the process to it (Bridge); a gateway answers for itself.
\* (It begins when the backend has released the lease of the one before.)
Describe(h) ==
  /\ link[h].phase = "out" /\ h \notin leases
  /\ IF Local(h) \/ Transport[h] = "ssh"
     THEN /\ up # 0
          /\ link' = [link EXCEPT ![h] = [phase |-> "pinned", instance |-> up,
                                                far |-> IF Local(h) THEN 0 ELSE up]]
     ELSE /\ accepting
          /\ link' = [link EXCEPT ![h] = [phase |-> "pinned", far |-> gateway,
                                                instance |-> link[Host].instance]]
  /\ answered' = [answered EXCEPT ![h] = NoAnswer]
  /\ UNCHANGED <<up, started, gateway, accepting, streams, leases, breaks>>

Attach(h) ==
  /\ link[h].phase = "pinned"
  /\ IF Served(h)
     THEN /\ link' = [link EXCEPT ![h].phase = "attached"]
          /\ streams' = streams \cup {h} /\ leases' = leases \cup {h}
          /\ AnswerTo(h)
     ELSE /\ link' = [link EXCEPT ![h] = NoSession]
          /\ UNCHANGED <<streams, leases, answered>>
  /\ UNCHANGED <<up, started, gateway, accepting, breaks>>

\* Any call of an attached session, or of the pages behind its bridge: an error if nobody
\* answers, which changes nothing.
Request(h) ==
  /\ Attached(h) /\ Served(h)
  /\ AnswerTo(h)
  /\ UNCHANGED <<up, started, gateway, accepting, link, streams, leases, breaks>>

\* The end of its lease stream ends a session: Done.
LeaseEnds(h) ==
  /\ Attached(h) /\ h \notin streams
  /\ link' = [link EXCEPT ![h].phase = "done"]
  /\ UNCHANGED <<up, started, gateway, accepting, streams, leases, answered, breaks>>

\* A connection breaks.  A process that has ended does not come back.
Break(h) ==
  /\ breaks < MaxBreaks /\ h \in streams
  /\ streams' = streams \ (Carried(h) \cup {h})
  /\ link' = IF ~Local(h) /\ Transport[h] = "ssh" THEN [link EXCEPT ![h].far = 0] ELSE link
  /\ breaks' = breaks + 1
  /\ UNCHANGED <<up, started, gateway, accepting, leases, answered>>

-----------------------------------------------------------------------------
(* Dashboards *)

\* Open: the instance must still answer; a bridge that cannot start gives the lease back.
OpenBridge(w) ==
  /\ link[w].phase = "attached"
  /\ \/ Served(w) /\ link' = [link EXCEPT ![w].phase = "shown"]
        /\ AnswerTo(w) /\ UNCHANGED streams
     \/ link' = [link EXCEPT ![w] = NoSession] /\ streams' = streams \ {w}
        /\ UNCHANGED answered
  /\ UNCHANGED <<up, started, gateway, accepting, leases, breaks>>

\* A page of the dashboard leases through the bridge.
OpenTab(w) ==
  /\ link[w].phase = "shown" /\ Tab(w) \notin leases /\ Served(w)
  /\ streams' = streams \cup {Tab(w)} /\ leases' = leases \cup {Tab(w)}
  /\ AnswerTo(w)
  /\ UNCHANGED <<up, started, gateway, accepting, link, breaks>>

CloseTab(w) ==
  /\ Tab(w) \in streams
  /\ streams' = streams \ {Tab(w)}
  /\ UNCHANGED <<up, started, gateway, accepting, link, leases, answered, breaks>>

\* The window is closed, by its user or because its session is done.
CloseDashboard(w) ==
  /\ link[w].phase \in {"shown", "done"}
  /\ link' = [link EXCEPT ![w] = NoSession]
  /\ streams' = streams \ Carried(w)
  /\ UNCHANGED <<up, started, gateway, accepting, leases, answered, breaks>>

-----------------------------------------------------------------------------
(* The gateway *)

\* Start asks the backend once more.  A command has one gateway.
StartGateway ==
  /\ link[Host].phase = "attached" /\ link[Host].far = 0 /\ gateway < MaxGateways
  /\ Served(Host)
  /\ gateway' = gateway + 1 /\ accepting' = TRUE
  /\ link' = [link EXCEPT ![Host].far = gateway']
  /\ AnswerTo(Host)
  /\ UNCHANGED <<up, started, streams, leases, breaks>>

\* Mutant: only the user stops a gateway.
NeverMustClose == FALSE

\* A goroutine closes the gateway once its session is done.
MustClose == accepting /\ link[Host].phase = "done"

\* Its listener and its connections are closed.
CloseGateway ==
  /\ accepting' = FALSE /\ streams' = streams \ Carried(Host)
  /\ UNCHANGED <<up, started, gateway, link, leases, answered, breaks>>

GatewayFollows == MustClose /\ CloseGateway
StopGateway == accepting /\ link[Host].phase = "attached" /\ CloseGateway

\* The command returns: the gateway is closed before its session.
CloseHost ==
  /\ ~accepting /\ link[Host].phase \in {"attached", "done"}
  /\ link' = [link EXCEPT ![Host] = NoSession]
  /\ streams' = streams \ {Host}
  /\ UNCHANGED <<up, started, gateway, accepting, leases, answered, breaks>>

-----------------------------------------------------------------------------

RemoteNext ==
  \/ InstanceStarts \/ InstanceEnds \/ StartGateway \/ GatewayFollows \/ StopGateway \/ CloseHost
  \/ \E s \in Streams : ReleaseLease(s)
  \/ \E h \in Clients : Describe(h) \/ Attach(h) \/ Request(h) \/ LeaseEnds(h) \/ Break(h)
  \/ \E w \in Windows : OpenBridge(w) \/ OpenTab(w) \/ CloseTab(w) \/ CloseDashboard(w)

RemoteSpec == RemoteInit /\ [][RemoteNext]_remoteVars

-----------------------------------------------------------------------------
(* Properties *)

\* Whatever ended, restarted or was dialled anew on the way, and however many hops there
\* are: what a window shows comes from the one instance it met, over the one gateway its
\* string names (X-TokenInsights-Instance, VerifyConnection).
AnsweredByItsOwn ==
  \A h \in Clients :
    answered[h] # NoAnswer /\ link[h].phase # "out" =>
      answered[h] = <<link[h].instance, IF h \in Over("tcp") THEN link[h].far ELSE 0>>

\* Everybody who had to notice something has.
Noticed ==
  /\ leases \subseteq streams
  /\ \A h \in Clients : Attached(h) => h \in streams
  /\ \A w \in Windows : link[w].phase # "done"
  /\ ~MustClose

\* A loss is told to all it concerns, from whichever end it starts: once everybody has
\* noticed, each window and each gateway still open is of the backend that runs, no
\* string of an ended gateway serves a window, and the backend counts as viewers
\* exactly those that are there, so that it neither ends under one nor stays for none.
LossIsTold ==
  Noticed =>
    /\ \A h \in Clients : Attached(h) => link[h].instance = up /\ h \in leases
    /\ \A w \in Over("tcp") : Attached(w) => accepting /\ link[w].far = gateway
    /\ accepting => link[Host].instance = up
    /\ \A s \in leases : (s \in Clients /\ Attached(s)) \/ \E w \in Windows : s = Tab(w) /\ Attached(w)
=============================================================================
