-------------------------- MODULE Protocols_proofs --------------------------
(***************************************************************************)
(* Protocols that share no state, for every value of their constants: how  *)
(* other programs reach a backend (a session handed to the desktop         *)
(* application, dashboards of other machines), how a store is reset, how a *)
(* message read in pieces settles, what its counters are worth, and what   *)
(* is made of the histories that forked Codex sessions copy.               *)
(***************************************************************************)
EXTENDS Rendezvous, RemoteAccess, StorageReset, NativeMessages, NativeUsage, CodexReplay,
        FiniteSetTheorems, WellFoundedInduction, TLAPS

-----------------------------------------------------------------------------
(* Handing a session over. *)

RendezvousType ==
  /\ cli \in [Requests -> {"new", "listening", "opened", "sent", "ok", "failed"}]
  /\ socket \in [Requests -> {"none", "dialed", "accepted", "specified", "ready", "rejected", "closed"}]
  /\ window \in [Requests -> {"none", "dialing", "receiving", "connecting", "connected", "shown",
                              "closed", "failed"}]
  /\ session \in [Requests -> {"none", "live", "lost", "released"}]

\* The acknowledgement on its way was given by a window that held the session, and
\* whatever the application still does for a request, it has taken its link.
Handed ==
  /\ HandoffAgrees
  /\ \A r \in Requests :
       /\ socket[r] = "ready" => r \in held
       /\ window[r] \in {"dialing", "receiving", "connecting", "connected", "shown"} => r \in taken
       /\ session[r] = "live" => r \in taken

RendezvousInv == RendezvousType /\ Handed

\* Before the first request nothing is handed over.
LEMMA RendezvousInitInv == RendezvousInit => RendezvousInv
BY DEF RendezvousInit, RendezvousInv, RendezvousType, Handed, HandoffAgrees

\* The invariant of the hand-off is inductive.
LEMMA RendezvousNextInv ==
  RendezvousInv /\ [RendezvousNext]_rendezvousVars => RendezvousInv'
<1> SUFFICES ASSUME RendezvousInv, [RendezvousNext]_rendezvousVars PROVE RendezvousInv'
  OBVIOUS
<1> USE DEF RendezvousInv, RendezvousType, Handed, HandoffAgrees, Put
<1>1. ASSUME NEW r \in Requests, Listen(r) PROVE RendezvousInv'
  BY <1>1 DEF Listen
<1>2. ASSUME NEW r \in Requests, OpenLink(r) PROVE RendezvousInv'
  BY <1>2 DEF OpenLink
<1>3. ASSUME NEW r \in Requests, AcceptAndSend(r) PROVE RendezvousInv'
  BY <1>3 DEF AcceptAndSend
<1>4. ASSUME NEW r \in Requests, ReadAcknowledgement(r) PROVE RendezvousInv'
  BY <1>4 DEF ReadAcknowledgement
<1>5. ASSUME NEW r \in Requests, GiveUp(r) PROVE RendezvousInv'
  BY <1>5 DEF GiveUp
<1>6. ASSUME NEW r \in Requests, Deliver(r) PROVE RendezvousInv'
  BY <1>6 DEF Deliver
<1>7. ASSUME NEW r \in Requests, Dial(r) PROVE RendezvousInv'
  BY <1>7 DEF Dial
<1>8. ASSUME NEW r \in Requests, Receive(r) PROVE RendezvousInv'
  BY <1>8 DEF Receive
<1>9. ASSUME NEW r \in Requests, ConnectDashboard(r) PROVE RendezvousInv'
  BY <1>9 DEF ConnectDashboard, Replied
<1>10. ASSUME NEW r \in Requests, BackendLost(r) PROVE RendezvousInv'
  BY <1>10 DEF BackendLost
<1>11. ASSUME NEW r \in Requests, Show(r) PROVE RendezvousInv'
  BY <1>11 DEF Show, Released, Replied
<1>12. ASSUME NEW r \in Requests, CloseWindow(r) PROVE RendezvousInv'
  BY <1>12 DEF CloseWindow, Released
<1>13. ASSUME NEW r \in Requests, ShowLost(r) PROVE RendezvousInv'
  BY <1>13 DEF ShowLost, Released
<1>14. CASE Quit
  BY <1>14 DEF Quit
<1>15. CASE UNCHANGED rendezvousVars
  BY <1>15 DEF rendezvousVars
<1> QED
  BY <1>1, <1>2, <1>3, <1>4, <1>5, <1>6, <1>7, <1>8, <1>9, <1>10, <1>11, <1>12, <1>13,
     <1>14, <1>15 DEF RendezvousNext

\* Neither side of a handoff believes in a session the other has given up, however
\* often the link is delivered, the application quits or somebody is too late.
THEOREM HandoffsAgree == RendezvousSpec => []HandoffAgrees
<1>1. RendezvousInv => HandoffAgrees
  BY DEF RendezvousInv, Handed
<1> QED BY <1>1, RendezvousInitInv, RendezvousNextInv, PTL DEF RendezvousSpec

-----------------------------------------------------------------------------
(* Dashboards of other machines. *)

RemoteSessions == [phase : {"out", "pinned", "attached", "shown", "done"}, instance : Nat, far : Nat]

RemoteType ==
  /\ link \in [Clients -> RemoteSessions]
  /\ answered \in [Clients -> Nat \X Nat]
  /\ up \in Nat /\ started \in Nat /\ gateway \in Nat
  /\ accepting \in BOOLEAN
  /\ streams \subseteq Streams /\ leases \subseteq Streams

\* A client and a page are never the same.
LEMMA ClientsAndTabs ==
  /\ Host \in Clients /\ Windows \subseteq Clients
  /\ \A w \in Windows : Tab(w) \notin Clients /\ Tab(w) \in Streams
  /\ \A v, w \in Windows : Tab(v) = Tab(w) => v = w
  /\ \A h \in Clients : h \in Streams /\ (Local(h) \/ h \in Over("ssh") \/ h \in Over("tcp"))
  /\ Host \notin Over("ssh") /\ Host \notin Over("tcp")
  /\ \A h \in Clients : Local(h) => h \notin Over("ssh") /\ h \notin Over("tcp")
  /\ \A w \in Windows : w \in Over("ssh") => w \notin Over("tcp")
BY RemoteAssumption DEF Clients, Streams, Tab, Local, Over

\* Who is served is pinned to the instance that runs, a window of a gateway to the one
\* that accepts.
LEMMA ServedPinned ==
  ASSUME NEW h \in Clients, Served(h)
  PROVE  /\ up # 0 /\ link[h].instance = up
         /\ h \in Over("tcp") => accepting /\ link[h].far = gateway
<1>1. CASE Local(h)
  BY <1>1, ClientsAndTabs DEF Served, BackendAccepts
<1>2. CASE h \in Over("ssh")
  BY <1>2, ClientsAndTabs DEF Served, BackendAccepts, Over
<1>3. CASE h \in Over("tcp")
  BY <1>3, ClientsAndTabs DEF Served, BackendAccepts, GatewayThere, GatewayAccepts, Over
<1> QED BY <1>1, <1>2, <1>3, ClientsAndTabs

\* What keeps both properties: a stream is a lease of somebody who has not been told of
\* its end; an attached client with a stream is of the running instance, and of the
\* gateway that accepts; the host has at most the one gateway it started.
Followed ==
  /\ streams \subseteq leases
  /\ up = 0 => leases = {}
  /\ accepting => /\ gateway # 0 /\ link[Host].far = gateway
                  /\ link[Host].phase \in {"attached", "done"}
  /\ \A h \in Clients \cap streams :
       /\ Attached(h) /\ link[h].instance = up
       /\ h \in Over("tcp") => accepting /\ link[h].far = gateway
  /\ \A w \in Windows : Tab(w) \in streams => link[w].phase \in {"shown", "done"}

RemoteInv == RemoteType /\ AnsweredByItsOwn /\ Followed

\* No dashboard is open at first.
LEMMA RemoteInitInv == RemoteInit => RemoteInv
<1> SUFFICES ASSUME RemoteInit PROVE RemoteInv
  OBVIOUS
<1>1. RemoteType
  BY DEF RemoteInit, RemoteType, RemoteSessions, NoSession, NoAnswer
<1>2. AnsweredByItsOwn
  BY DEF RemoteInit, AnsweredByItsOwn
<1>3. Followed
  BY DEF RemoteInit, Followed
<1> QED BY <1>1, <1>2, <1>3 DEF RemoteInv

\* An answer comes from the running instance, over the gateway that accepts.
LEMMA AnswersOwn ==
  ASSUME RemoteType, AnsweredByItsOwn, NEW h \in Clients, Served(h), AnswerTo(h),
         \A k \in Clients : /\ link'[k].instance = link[k].instance
                            /\ k # Host => link'[k].far = link[k].far
                            /\ k # h => (link[k].phase = "out" => link'[k].phase = "out")
  PROVE  answered' \in [Clients -> Nat \X Nat] /\ AnsweredByItsOwn'
<1>1. /\ up # 0 /\ link[h].instance = up
      /\ h \in Over("tcp") => link[h].far = gateway
  BY ServedPinned
<1>2. answered' \in [Clients -> Nat \X Nat]
  BY DEF AnswerTo, RemoteType
<1>3. ASSUME NEW k \in Clients, answered'[k] # NoAnswer, link'[k].phase # "out"
      PROVE  answered'[k] = <<link'[k].instance, IF k \in Over("tcp") THEN link'[k].far ELSE 0>>
  <2>1. k \in Over("tcp") => k # Host
    BY ClientsAndTabs
  <2>2. CASE k = h
    BY <1>1, <2>1, <2>2 DEF AnswerTo, RemoteType
  <2>3. CASE k # h
    BY <1>3, <2>1, <2>3 DEF AnswerTo, RemoteType, AnsweredByItsOwn
  <2> QED BY <2>2, <2>3
<1> QED BY <1>2, <1>3 DEF AnsweredByItsOwn, Over

\* What a step may do to a session.
LEMMA SessionType ==
  ASSUME RemoteType, NEW h \in Clients
  PROVE  /\ [link EXCEPT ![h] = NoSession] \in [Clients -> RemoteSessions]
         /\ \A p \in {"attached", "shown", "done"} :
              [link EXCEPT ![h].phase = p] \in [Clients -> RemoteSessions]
         /\ \A n \in Nat : [link EXCEPT ![h].far = n] \in [Clients -> RemoteSessions]
BY DEF RemoteType, RemoteSessions, NoSession

\* The invariant of remote dashboards is inductive.
LEMMA RemoteNextInv ==
  RemoteInv /\ [RemoteNext]_remoteVars => RemoteInv'
<1> SUFFICES ASSUME RemoteInv, [RemoteNext]_remoteVars PROVE RemoteInv'
  OBVIOUS
<1> USE DEF RemoteInv
<1>1. CASE InstanceStarts
  <2>1. RemoteType'
    BY <1>1 DEF InstanceStarts, RemoteType
  <2>2. AnsweredByItsOwn'
    BY <1>1 DEF InstanceStarts, AnsweredByItsOwn
  <2>3. Followed'
    BY <1>1 DEF InstanceStarts, Followed, Attached, RemoteType
  <2> QED BY <2>1, <2>2, <2>3
<1>2. CASE InstanceEnds
  <2>1. \A h \in Clients : /\ link'[h].phase = link[h].phase
                           /\ link'[h].instance = link[h].instance
                           /\ link'[h].far \in {link[h].far, 0}
                           /\ h \in Over("tcp") => link'[h].far = link[h].far
    BY <1>2 DEF InstanceEnds, RemoteType, Over
  <2>2. RemoteType'
    BY <1>2, <2>1 DEF InstanceEnds, RemoteType, RemoteSessions
  <2>3. AnsweredByItsOwn'
    BY <1>2, <2>1 DEF InstanceEnds, AnsweredByItsOwn, Over
  <2>4. link'[Host] = link[Host]
    BY <1>2, ClientsAndTabs DEF InstanceEnds, Local
  <2>5. Followed'
    BY <1>2, <2>4 DEF InstanceEnds, Followed
  <2> QED BY <2>2, <2>3, <2>5
<1>3. ASSUME NEW s \in Streams, ReleaseLease(s) PROVE RemoteInv'
  BY <1>3 DEF ReleaseLease, RemoteType, AnsweredByItsOwn, Followed, Attached
<1>4. ASSUME NEW h \in Clients, Describe(h) PROVE RemoteInv'
  <2>1. PICK n \in Nat, i \in Nat :
          link' = [link EXCEPT ![h] = [phase |-> "pinned", instance |-> i, far |-> n]]
    BY <1>4, ClientsAndTabs DEF Describe, RemoteType, RemoteSessions
  <2>2. RemoteType'
    BY <1>4, <2>1 DEF Describe, RemoteType, RemoteSessions, NoAnswer
  <2>3. AnsweredByItsOwn'
    BY <1>4, <2>1 DEF Describe, AnsweredByItsOwn, RemoteType, NoAnswer, Over
  <2>4. h \notin streams /\ link[h].phase = "out"
    BY <1>4 DEF Describe, Followed
  <2>5. Followed'
    BY <1>4, <2>1, <2>4 DEF Describe, Followed, RemoteType, Attached, Over
  <2> QED BY <2>2, <2>3, <2>5
<1>5. ASSUME NEW h \in Clients, Attach(h) PROVE RemoteInv'
  <2>1. link[h].phase = "pinned" /\ h \notin streams
    BY <1>5 DEF Attach, Followed, Attached
  <2>2. CASE Served(h)
    <3>1. /\ link' = [link EXCEPT ![h].phase = "attached"] /\ AnswerTo(h)
          /\ streams' = streams \cup {h} /\ leases' = leases \cup {h}
      BY <1>5, <2>2 DEF Attach
    <3>2. /\ up # 0 /\ link[h].instance = up
          /\ h \in Over("tcp") => accepting /\ link[h].far = gateway
      BY <2>2, ServedPinned
    <3>3. answered' \in [Clients -> Nat \X Nat] /\ AnsweredByItsOwn'
      <4>1. \A k \in Clients : /\ link'[k].instance = link[k].instance
                               /\ k # Host => link'[k].far = link[k].far
                               /\ k # h => (link[k].phase = "out" => link'[k].phase = "out")
        BY <3>1 DEF RemoteType
      <4> QED BY <2>2, <3>1, <4>1, AnswersOwn
    <3>4. RemoteType'
      <4>1. link' \in [Clients -> RemoteSessions]
        BY <3>1, SessionType
      <4> QED BY <1>5, <3>1, <3>3, <4>1, ClientsAndTabs DEF Attach, RemoteType
    <3>5. Followed'
      BY <1>5, <2>1, <3>1, <3>2, ClientsAndTabs DEF Attach, Followed, RemoteType, Attached, Over
    <3> QED BY <3>3, <3>4, <3>5
  <2>3. CASE ~Served(h)
    <3>1. link' = [link EXCEPT ![h] = NoSession] /\ UNCHANGED <<streams, leases, answered>>
      BY <1>5, <2>3 DEF Attach
    <3>2. RemoteType'
      BY <1>5, <3>1, SessionType DEF Attach, RemoteType
    <3>3. AnsweredByItsOwn'
      BY <3>1 DEF AnsweredByItsOwn, RemoteType, NoSession, Over
    <3>4. Followed'
      BY <1>5, <2>1, <3>1 DEF Attach, Followed, RemoteType, Attached, NoSession, Over
    <3> QED BY <3>2, <3>3, <3>4
  <2> QED BY <2>2, <2>3
<1>6. ASSUME NEW h \in Clients, Request(h) PROVE RemoteInv'
  <2>1. answered' \in [Clients -> Nat \X Nat] /\ AnsweredByItsOwn'
    BY <1>6, AnswersOwn DEF Request
  <2> QED BY <1>6, <2>1 DEF Request, RemoteType, Followed, Attached
<1>7. ASSUME NEW h \in Clients, LeaseEnds(h) PROVE RemoteInv'
  <2>1. link' = [link EXCEPT ![h].phase = "done"]
    BY <1>7 DEF LeaseEnds
  <2>2. RemoteType'
    <3>1. link' \in [Clients -> RemoteSessions]
      BY <2>1, SessionType
    <3> QED BY <1>7, <3>1 DEF LeaseEnds, RemoteType
  <2>3. AnsweredByItsOwn'
    BY <1>7, <2>1 DEF LeaseEnds, AnsweredByItsOwn, RemoteType, Attached, Over
  <2>4. Followed'
    BY <1>7, <2>1 DEF LeaseEnds, Followed, RemoteType, Attached, Over
  <2> QED BY <2>2, <2>3, <2>4
<1>8. ASSUME NEW h \in Clients, Break(h) PROVE RemoteInv'
  <2>1. \A k \in Clients : /\ link'[k].phase = link[k].phase
                           /\ link'[k].instance = link[k].instance
                           /\ link'[k].far \in {link[k].far, 0}
                           /\ k = Host \/ k \in Over("tcp") => link'[k].far = link[k].far
    BY <1>8, ClientsAndTabs DEF Break, RemoteType, Over, Local
  <2>2. link' \in [Clients -> RemoteSessions]
    BY <1>8, SessionType DEF Break, RemoteType
  <2>3. streams' \subseteq streams
    BY <1>8 DEF Break
  <2>4. RemoteType'
    BY <1>8, <2>2, <2>3 DEF Break, RemoteType
  <2>5. AnsweredByItsOwn'
    BY <1>8, <2>1 DEF Break, AnsweredByItsOwn, Over
  <2>6. Followed'
    BY <1>8, <2>1, <2>3, ClientsAndTabs DEF Break, Followed, Attached, Over
  <2> QED BY <2>4, <2>5, <2>6
<1>9. ASSUME NEW w \in Windows, OpenBridge(w) PROVE RemoteInv'
  <2> w \in Clients /\ w # Host
    BY RemoteAssumption DEF Clients
  <2>1. CASE link' = [link EXCEPT ![w].phase = "shown"] /\ Served(w) /\ AnswerTo(w)
             /\ UNCHANGED streams
    <3>1. answered' \in [Clients -> Nat \X Nat] /\ AnsweredByItsOwn'
      <4>1. \A k \in Clients : /\ link'[k].instance = link[k].instance
                               /\ k # Host => link'[k].far = link[k].far
                               /\ k # w => (link[k].phase = "out" => link'[k].phase = "out")
        BY <2>1 DEF RemoteType
      <4> QED BY <2>1, <4>1, AnswersOwn
    <3>2. RemoteType'
      BY <1>9, <2>1, <3>1, SessionType DEF OpenBridge, RemoteType
    <3>3. Followed'
      BY <1>9, <2>1, ClientsAndTabs DEF OpenBridge, Followed, RemoteType, Attached, Over
    <3> QED BY <3>1, <3>2, <3>3
  <2>2. CASE link' = [link EXCEPT ![w] = NoSession] /\ streams' = streams \ {w}
             /\ UNCHANGED answered
    <3>1. RemoteType'
      BY <1>9, <2>2, SessionType DEF OpenBridge, RemoteType
    <3>2. AnsweredByItsOwn'
      BY <2>2 DEF AnsweredByItsOwn, RemoteType, NoSession, Over
    <3>3. Tab(w) \notin streams
      BY <1>9 DEF OpenBridge, Followed
    <3>4. Followed'
      BY <1>9, <2>2, <3>3, ClientsAndTabs
         DEF OpenBridge, Followed, RemoteType, Attached, NoSession, Over
    <3> QED BY <3>1, <3>2, <3>4
  <2> QED BY <1>9, <2>1, <2>2 DEF OpenBridge
<1>10. ASSUME NEW w \in Windows, OpenTab(w) PROVE RemoteInv'
  <2>1. w \in Clients /\ up # 0
    BY <1>10, ServedPinned, ClientsAndTabs DEF OpenTab
  <2>2. answered' \in [Clients -> Nat \X Nat] /\ AnsweredByItsOwn'
    BY <1>10, <2>1, AnswersOwn DEF OpenTab
  <2>3. RemoteType'
    BY <1>10, <2>2, ClientsAndTabs DEF OpenTab, RemoteType
  <2>4. Followed'
    BY <1>10, <2>1, ClientsAndTabs DEF OpenTab, Followed, Attached, Over
  <2> QED BY <2>2, <2>3, <2>4
<1>11. ASSUME NEW w \in Windows, CloseTab(w) PROVE RemoteInv'
  BY <1>11 DEF CloseTab, RemoteType, AnsweredByItsOwn, Followed, Attached, Over
<1>12. ASSUME NEW w \in Windows, CloseDashboard(w) PROVE RemoteInv'
  <2>1. /\ link' = [link EXCEPT ![w] = NoSession] /\ w \in Clients
        /\ streams' = streams \ {w, Tab(w)} /\ w # Host
    BY <1>12, RemoteAssumption DEF CloseDashboard, Carried, Clients
  <2>2. RemoteType'
    BY <1>12, <2>1, SessionType, ZenonT(60) DEF CloseDashboard, RemoteType
  <2>3. AnsweredByItsOwn'
    BY <1>12, <2>1 DEF CloseDashboard, AnsweredByItsOwn, RemoteType, NoSession, Over
  <2>4. Followed'
    BY <1>12, <2>1, ClientsAndTabs DEF CloseDashboard, Followed, RemoteType, Attached, NoSession, Over
  <2> QED BY <2>2, <2>3, <2>4
<1>13. CASE StartGateway
  <2> Host \in Clients
    BY ClientsAndTabs
  <2>1. /\ ~accepting /\ gateway' = gateway + 1 /\ accepting'
        /\ link' = [link EXCEPT ![Host].far = gateway'] /\ gateway' \in Nat /\ gateway' # 0
    BY <1>13 DEF StartGateway, Followed, RemoteType
  <2>2. answered' \in [Clients -> Nat \X Nat] /\ AnsweredByItsOwn'
    <3>1. \A k \in Clients : /\ link'[k].instance = link[k].instance
                             /\ k # Host => link'[k].far = link[k].far
                             /\ k # Host => (link[k].phase = "out" => link'[k].phase = "out")
      BY <2>1 DEF RemoteType
    <3> QED BY <1>13, <3>1, AnswersOwn DEF StartGateway
  <2>3. RemoteType'
    <3>1. link' \in [Clients -> RemoteSessions]
      BY <2>1, SessionType
    <3> QED BY <1>13, <2>1, <2>2, <3>1 DEF StartGateway, RemoteType
  <2>4. Followed'
    BY <1>13, <2>1, ClientsAndTabs DEF StartGateway, Followed, RemoteType, Attached, Over
  <2> QED BY <2>2, <2>3, <2>4
<1>14. CASE CloseGateway
  <2>1. \A w \in Over("tcp") : w \notin streams'
    BY <1>14 DEF CloseGateway, Carried
  <2>2. Followed'
    BY <1>14, <2>1 DEF CloseGateway, Followed, Attached, Over
  <2> QED BY <1>14, <2>2 DEF CloseGateway, RemoteType, AnsweredByItsOwn, Over
<1>15. CASE CloseHost
  <2>1. Host \in Clients
    BY ClientsAndTabs
  <2>2. RemoteType'
    BY <1>15, <2>1, SessionType DEF CloseHost, RemoteType
  <2>3. AnsweredByItsOwn'
    BY <1>15 DEF CloseHost, AnsweredByItsOwn, RemoteType, NoSession, Over
  <2>4. Followed'
    BY <1>15, <2>1, ClientsAndTabs, RemoteAssumption
       DEF CloseHost, Followed, RemoteType, Attached, NoSession, Over
  <2> QED BY <2>2, <2>3, <2>4
<1>16. CASE UNCHANGED remoteVars
  BY <1>16 DEF remoteVars, RemoteType, AnsweredByItsOwn, Followed, Attached, Over
<1> QED
  BY <1>1, <1>2, <1>3, <1>4, <1>5, <1>6, <1>7, <1>8, <1>9, <1>10, <1>11, <1>12, <1>13,
     <1>14, <1>15, <1>16 DEF RemoteNext, GatewayFollows, StopGateway

\* The invariant of remote dashboards holds in every reachable state.
LEMMA RemoteHolds == RemoteSpec => []RemoteInv
BY RemoteInitInv, RemoteNextInv, PTL DEF RemoteSpec

\* What a window shows comes from the instance it met, over the gateway its string
\* names, whatever was restarted or dialled anew on the way.
THEOREM OwnAnswers == RemoteSpec => []AnsweredByItsOwn
<1>1. RemoteInv => AnsweredByItsOwn
  BY DEF RemoteInv
<1> QED BY <1>1, RemoteHolds, PTL

\* Once everybody has noticed what they had to, whoever is still open is of the backend
\* that runs, and the backend counts as viewers exactly those that are there.
THEOREM LossesTold == RemoteSpec => []LossIsTold
<1>1. ASSUME RemoteInv PROVE LossIsTold
  <2> USE DEF RemoteInv
  <2>1. SUFFICES ASSUME Noticed
                 PROVE  /\ \A h \in Clients : Attached(h) => link[h].instance = up /\ h \in leases
                        /\ \A w \in Over("tcp") : Attached(w) => accepting /\ link[w].far = gateway
                        /\ accepting => link[Host].instance = up
                        /\ \A s \in leases : \/ s \in Clients /\ Attached(s)
                                             \/ \E w \in Windows : s = Tab(w) /\ Attached(w)
    BY DEF LossIsTold
  <2>2. \A h \in Clients : Attached(h) => h \in streams /\ link[h].instance = up /\ h \in leases
    BY <1>1, <2>1 DEF Noticed, Followed
  <2>3. \A w \in Over("tcp") : Attached(w) => accepting /\ link[w].far = gateway
    BY <1>1, <2>2, ClientsAndTabs DEF Followed, Over
  <2>4. accepting => Attached(Host)
    BY <1>1, <2>1 DEF Noticed, MustClose, Followed, Attached
  <2>5. ASSUME NEW s \in leases
        PROVE  \/ s \in Clients /\ Attached(s)
               \/ \E w \in Windows : s = Tab(w) /\ Attached(w)
    <3>1. s \in streams /\ s \in Streams
      BY <1>1, <2>1 DEF Noticed, RemoteType
    <3>2. CASE s \in Clients
      BY <1>1, <3>1, <3>2 DEF Followed
    <3>3. ASSUME NEW w \in Windows, s = Tab(w) PROVE Attached(w)
      BY <1>1, <2>1, <3>1, <3>3 DEF Noticed, Followed, Attached
    <3> QED BY <3>1, <3>2, <3>3 DEF Streams
  <2> QED BY <2>2, <2>3, <2>4, <2>5, ClientsAndTabs
<1> QED BY <1>1, RemoteHolds, PTL

-----------------------------------------------------------------------------
(* A message read in pieces. *)

\* What the agent's store shows, what was captured and what arrived are pieces of the
\* harness's own formats, and only Claude Code names requests.
Own(S) ==
  \A p \in S : /\ p.at \in Nat /\ p.clean \in BOOLEAN /\ p.format \in Formats
               /\ p.format \in OpenCodeFormats <=> message.harness = "opencode"

MessageInv ==
  /\ message.request \in BOOLEAN /\ (message.request => message.harness = "claude-code")
  /\ Own(shown) /\ Own(kept) /\ Own(arrived)

\* Pieces are added one by one, and only moved on.
LEMMA MessageHolds == NativeMessageSpec => []MessageInv
<1>1. NativeMessageInit => MessageInv
  BY DEF NativeMessageInit, MessageInv, Own
<1>2. MessageInv /\ [NativeMessageNext]_messageVars => MessageInv'
  <2> SUFFICES ASSUME MessageInv, [NativeMessageNext]_messageVars PROVE MessageInv'
    OBVIOUS
  <2>1. ASSUME NEW p \in Pieces PROVE p.at \in Nat /\ p.clean \in BOOLEAN /\ p.format \in Formats
    BY MessageAssumption DEF Pieces
  <2>2. ASSUME NEW p \in Pieces, AppendLine(p) PROVE MessageInv'
    BY <2>1, <2>2 DEF AppendLine, MessageInv, Own, OpenCodeFormats
  <2>3. ASSUME NEW p \in Pieces, ReviseRow(p) PROVE MessageInv'
    BY <2>1, <2>3 DEF ReviseRow, MessageInv, Own
  <2>4. CASE CaptureMessage
    BY <2>4 DEF CaptureMessage, MessageInv, Own
  <2>5. ASSUME NEW p, DeliverPiece(p) PROVE MessageInv'
    BY <2>5 DEF DeliverPiece, MessageInv, Own
  <2>6. CASE UNCHANGED messageVars
    BY <2>6 DEF messageVars, MessageInv, Own
  <2> QED BY <2>2, <2>3, <2>4, <2>5, <2>6 DEF NativeMessageNext
<1> QED BY <1>1, <1>2, PTL DEF NativeMessageSpec

\* Whatever evidence arrived, in whatever order, and however the hashes break ties
\* (Process, sameEvidenceUsage): only a usage on which all that count agree is confirmed,
\* it is confirmed unless a doubtful row interferes, and no duplicate tells another usage.
THEOREM AgreementConfirmed == NativeMessageSpec => []ConfirmsWhatIsAgreed
<1>1. ASSUME MessageInv, NEW s \in Selectable(Candidates)
      PROVE  /\ Confirms(s, Candidates) => Agreed(Voices) /\ s \in Voices
             /\ Agreed(Voices) /\ ~DoubtfulSecond => Confirms(s, Candidates)
             /\ \A p \in Candidates :
                  Disposition(p, s, Candidates) = "duplicate" => SameUsage(p, s)
  <2> DEFINE G == Candidates
             later == {p \in G : p.format = "opencode-v2"}
             clean == {p \in G : p.clean}
  <2>1. /\ \A p \in G : /\ p.at \in Nat /\ p.clean \in BOOLEAN
                        /\ p.format \in Formats
                        /\ p.format \in OpenCodeFormats <=> message.harness = "opencode"
        /\ message.request \in BOOLEAN /\ (message.request => message.harness = "claude-code")
    BY <1>1 DEF MessageInv, Own, Candidates
  <2>2. \A p \in G : Disposition(p, s, G) = "duplicate" =>
          ~Conflicts(s, G) /\ p.clean /\ ~(p.at < s.at) /\ p.format = s.format
    BY DEF Disposition
  <2>3. s \in IF later # {} THEN LastOf(later) ELSE IF clean # {} THEN LastOf(clean) ELSE LastOf(G)
    BY <1>1 DEF Selectable
  <2>4. Voices = IF {p \in clean : p.format = "opencode-v2"} # {} THEN {p \in clean : p.format = "opencode-v2"}
                 ELSE IF message.request THEN LastOf(clean) ELSE clean
    BY DEF Voices
  <2>5. CASE later # {}
    <3>1. s \in later /\ ~message.request /\ message.harness = "opencode"
      BY <2>1, <2>3, <2>5 DEF LastOf, OpenCodeFormats
    <3>2. \A p \in G : Overruled(s, p) <=> p.format # "opencode-v2"
      BY <2>1, <3>1 DEF Overruled, OpenCodeFormats
    <3>3. Conflicts(s, G) <=> \E p \in later : p.clean /\ ~SameUsage(p, s)
      BY <3>1, <3>2 DEF Conflicts, Revises
    <3>4. Confirms(s, G) => Agreed(Voices) /\ s \in Voices
      BY <2>4, <3>1, <3>3 DEF Confirms, Agreed, SameUsage
    <3>5. Agreed(Voices) /\ ~DoubtfulSecond => Confirms(s, G)
      BY <2>4, <3>1, <3>3 DEF Confirms, Agreed, DoubtfulSecond
    <3>6. \A p \in G : Disposition(p, s, G) = "duplicate" => SameUsage(p, s)
      BY <2>2, <3>1, <3>3
    <3> QED BY <3>4, <3>5, <3>6
  <2>6. CASE later = {} /\ clean # {}
    <3>1. s \in clean /\ \A p \in clean : p.at <= s.at
      BY <2>3, <2>6 DEF LastOf
    <3>2. Voices = IF message.request THEN {p \in clean : p.at = s.at} ELSE clean
      <4>1. Voices = IF message.request THEN LastOf(clean) ELSE clean
        BY <2>4, <2>6
      <4>2. LastOf(clean) = {p \in clean : p.at = s.at}
        BY <2>1, <3>1 DEF LastOf
      <4> QED BY <4>1, <4>2
    <3>3. Conflicts(s, G) <=> \E p \in clean : ~SameUsage(p, s) /\ ~(message.request /\ p.at # s.at)
      BY <2>6, <3>1 DEF Conflicts, Revises, Overruled
    <3>4. Confirms(s, G) => Agreed(Voices) /\ s \in Voices
      BY <3>1, <3>2, <3>3 DEF Confirms, Agreed, SameUsage
    <3>5. Agreed(Voices) => Confirms(s, G)
      BY <3>1, <3>2, <3>3 DEF Confirms, Agreed
    <3>6. \A p \in G : Disposition(p, s, G) = "duplicate" => SameUsage(p, s)
      BY <2>1, <2>2, <3>1, <3>3
    <3> QED BY <3>4, <3>5, <3>6
  <2>7. CASE later = {} /\ clean = {}
    <3>1. s \in G
      BY <2>3, <2>7 DEF LastOf
    <3>2. Voices = {}
      BY <2>4, <2>7 DEF LastOf
    <3> QED BY <2>2, <2>7, <3>1, <3>2 DEF Confirms, Agreed
  <2> QED BY <2>5, <2>6, <2>7
<1>2. MessageInv => ConfirmsWhatIsAgreed
  BY <1>1 DEF ConfirmsWhatIsAgreed
<1> QED BY <1>2, MessageHolds, PTL

-----------------------------------------------------------------------------
(* Resetting a store. *)

FilePairs == [main : Nat, wal : Nat]

CommandSet ==
  [at : {"new", "asking", "locking", "moving", "start", "attached", "declined", "failed"},
   reset : SUBSET Stores, target : Places, file : 1..2]

ResetType ==
  /\ files \in [Stores -> [Places -> FilePairs]]
  /\ startup \in [Servers -> Commands \cup {NoOne}]
  /\ writer \in [Stores -> Commands \cup {NoOne}]
  /\ owner \in [Servers -> Commands \cup {NoOne}]
  /\ command \in [Commands -> CommandSet]
  /\ created \in [Stores -> Nat]

Resetting == {"asking", "locking", "moving"}

\* A command that is at a reset, or about to start a backend, holds the startup lock of
\* its token database, which nobody owns; only one that moves files is a writer.
LocksHold(c) ==
  /\ command[c].at \in Resetting \cup {"start"} => startup[ServerOf[c]] = c /\ owner[ServerOf[c]] = NoOne
  /\ command[c].at = "moving" => writer[NextStore(c)] = c
  /\ \A r \in Stores : writer[r] = c => command[c].at = "moving" /\ r = NextStore(c)
  /\ command[c].at \in Resetting =>
       command[c].reset # {} /\ command[c].reset \subseteq {Collector, ServerOf[c]}

\* The token database to be reset is the older one until it is moved; a move has a
\* place of its own, and takes the WAL before the database.
MovesClear(c) ==
  /\ command[c].at \in Resetting /\ ServerOf[c] \in command[c].reset =>
       Older(files[ServerOf[c]]["live"].main)
  /\ command[c].at = "moving" =>
       /\ command[c].target \in {"bak", c}
       /\ files[NextStore(c)][command[c].target].main = 0
       /\ command[c].file = 2 => files[NextStore(c)]["live"].wal = 0

\* Every database is somewhere, and a WAL is beside its own.
Whole(r) ==
  /\ \A id \in 1..created[r] : \E p \in Places : files[r][p].main = id
  /\ files[r]["live"].wal # 0 => files[r]["live"].wal = files[r]["live"].main

ResetInv ==
  /\ ResetType /\ \A c \in Commands : LocksHold(c) /\ MovesClear(c)
  /\ \A r \in Stores : Whole(r)
  /\ \A x \in wrong : x[1] = Collector

\* The stores of an older release, with nobody at them, satisfy the invariant.
LEMMA ResetInitInv == ResetInit => ResetInv
<1> SUFFICES ASSUME ResetInit PROVE ResetInv
  OBVIOUS
<1>1. PICK wal \in [Stores -> {0, 1}] :
         files = [r \in Stores |-> [p \in Places |->
                    IF p = "live" THEN [main |-> 1, wal |-> wal[r]] ELSE [main |-> 0, wal |-> 0]]]
  BY DEF ResetInit
<1>2. \A r \in Stores, p \in Places :
        files[r][p] = IF p = "live" THEN [main |-> 1, wal |-> wal[r]] ELSE [main |-> 0, wal |-> 0]
  BY <1>1
<1>3. ResetType
  <2>1. files \in [Stores -> [Places -> FilePairs]]
    <3>1. \A r \in Stores : wal[r] \in Nat
      OBVIOUS
    <3>2. \A r \in Stores, p \in Places :
            (IF p = "live" THEN [main |-> 1, wal |-> wal[r]] ELSE [main |-> 0, wal |-> 0]) \in FilePairs
      BY <3>1 DEF FilePairs
    <3> QED BY <1>1, <3>2
  <2>2. "live" \in Places
    BY DEF Places
  <2> QED BY <2>1, <2>2 DEF ResetInit, ResetType, CommandSet
<1>4. \A c \in Commands : LocksHold(c) /\ MovesClear(c)
  BY ResetAssumption DEF ResetInit, LocksHold, MovesClear, Resetting
<1>5. \A r \in Stores : Whole(r)
  <2>1. "live" \in Places
    BY DEF Places
  <2> QED BY <1>2, <2>1 DEF ResetInit, Whole
<1> QED BY <1>3, <1>4, <1>5 DEF ResetInit, ResetInv

\* What a step must leave to a command it is not a step of.
LEMMA OtherHolds ==
  ASSUME ResetInv, NEW d \in Commands, command'[d] = command[d],
         startup[ServerOf[d]] = d =>
           /\ startup'[ServerOf[d]] = d
           /\ owner[ServerOf[d]] = NoOne => owner'[ServerOf[d]] = NoOne
           /\ files'[ServerOf[d]]["live"].main = files[ServerOf[d]]["live"].main,
         \A r \in Stores : writer'[r] = d <=> writer[r] = d,
         \A r \in Stores : writer[r] = d => files'[r] = files[r]
  PROVE  (LocksHold(d) /\ MovesClear(d))'
<1>1. LocksHold(d) /\ MovesClear(d) /\ ServerOf[d] \in Servers /\ command[d].reset \subseteq Stores
  BY ResetAssumption DEF ResetInv, ResetType, CommandSet
<1>2. NextStore(d)' = NextStore(d) /\ NextStore(d) \in Stores
  BY <1>1 DEF NextStore, Stores
<1>3. LocksHold(d)'
  BY <1>1, <1>2 DEF LocksHold
<1>4. MovesClear(d)'
  BY <1>1, <1>2 DEF LocksHold, MovesClear, Resetting
<1> QED BY <1>3, <1>4

\* A step of a command that moves no file keeps the invariant if it holds of the command.
LEMMA QuietHolds ==
  ASSUME ResetInv, NEW c \in Commands, command' \in [Commands -> CommandSet],
         \A d \in Commands \ {c} : command'[d] = command[d],
         startup' \in [Servers -> Commands \cup {NoOne}], writer' \in [Stores -> Commands \cup {NoOne}],
         \A s \in Servers : startup[s] \in Commands \ {c} => startup'[s] = startup[s],
         \A r \in Stores, d \in Commands \ {c} : writer'[r] = d <=> writer[r] = d,
         UNCHANGED <<files, owner, created, wrong>>,
         LocksHold(c)', MovesClear(c)'
  PROVE  ResetInv'
<1>1. ResetType'
  BY DEF ResetInv, ResetType
<1>2. ASSUME NEW d \in Commands \ {c} PROVE (LocksHold(d) /\ MovesClear(d))'
  BY ResetAssumption, OtherHolds
<1>3. \A r \in Stores : Whole(r)'
  BY DEF ResetInv, Whole
<1>4. \A d \in Commands : (LocksHold(d) /\ MovesClear(d))'
  BY <1>2
<1> QED BY <1>1, <1>3, <1>4 DEF ResetInv

\* A command leaves every lock it held, and is at no reset.
LEMMA StopFacts ==
  ASSUME ResetInv, NEW c \in Commands, NEW how \in {"attached", "declined", "failed"}, Stops(c, how)
  PROVE  /\ command' \in [Commands -> CommandSet] /\ command'[c].at = how
         /\ \A d \in Commands \ {c} : command'[d] = command[d]
         /\ startup' \in [Servers -> Commands \cup {NoOne}]
         /\ writer' \in [Stores -> Commands \cup {NoOne}]
         /\ \A s \in Servers : startup[s] # c => startup'[s] = startup[s]
         /\ \A r \in Stores : writer'[r] = IF writer[r] = c THEN NoOne ELSE writer[r]
<1>1. /\ command \in [Commands -> CommandSet] /\ startup \in [Servers -> Commands \cup {NoOne}]
      /\ writer \in [Stores -> Commands \cup {NoOne}]
  BY DEF ResetInv, ResetType
<1>2. [command[c] EXCEPT !.at = how, !.reset = {}, !.target = "live"] \in CommandSet
  <2>1. command[c] \in CommandSet
    BY <1>1
  <2>2. "live" \in Places
    BY DEF Places
  <2> QED BY ONLY <2>1, <2>2, how \in {"attached", "declined", "failed"} DEF CommandSet
<1>3. command' = [command EXCEPT ![c] = [command[c] EXCEPT !.at = how, !.reset = {}, !.target = "live"]]
  BY <1>1 DEF Stops
<1>4. [command[c] EXCEPT !.at = how, !.reset = {}, !.target = "live"].at = how
  BY <1>1 DEF CommandSet
<1>5. /\ startup' = [s \in Servers |-> IF startup[s] = c THEN NoOne ELSE startup[s]]
      /\ writer' = [r \in Stores |-> IF writer[r] = c THEN NoOne ELSE writer[r]]
  BY DEF Stops, Release
<1> HIDE DEF CommandSet
<1> DEFINE new == [command[c] EXCEPT !.at = how, !.reset = {}, !.target = "live"]
<1> HIDE DEF new
<1>6. command' = [command EXCEPT ![c] = new] /\ new \in CommandSet /\ new.at = how
  BY <1>2, <1>3, <1>4 DEF new
<1>7. command' \in [Commands -> CommandSet] /\ command'[c].at = how
      /\ \A d \in Commands \ {c} : command'[d] = command[d]
  BY <1>1, <1>6
<1> QED BY <1>1, <1>5, <1>7

\* Stopping keeps the invariant.
LEMMA StopHolds ==
  ASSUME ResetInv, NEW c \in Commands, NEW how \in {"attached", "declined", "failed"}, Stops(c, how),
         UNCHANGED <<files, owner, created, wrong>>
  PROVE  ResetInv'
<1>1. /\ command' \in [Commands -> CommandSet] /\ command'[c].at = how
      /\ \A d \in Commands \ {c} : command'[d] = command[d]
      /\ startup' \in [Servers -> Commands \cup {NoOne}]
      /\ writer' \in [Stores -> Commands \cup {NoOne}]
      /\ \A s \in Servers : startup[s] # c => startup'[s] = startup[s]
      /\ \A r \in Stores : writer'[r] = IF writer[r] = c THEN NoOne ELSE writer[r]
  BY StopFacts
<1>2. LocksHold(c)' /\ MovesClear(c)'
  BY <1>1, ResetAssumption DEF LocksHold, MovesClear, Resetting
<1>3. \A r \in Stores, d \in Commands \ {c} : writer'[r] = d <=> writer[r] = d
  BY <1>1, ResetAssumption
<1>4. \A s \in Servers : startup[s] \in Commands \ {c} => startup'[s] = startup[s]
  BY <1>1
<1> QED BY <1>1, <1>2, <1>3, <1>4, QuietHolds

\* Inspecting, and attaching.
LEMMA LaunchHolds ==
  ASSUME ResetInv, NEW c \in Commands, Launch(c)
  PROVE  ResetInv'
<1> DEFINE s == ServerOf[c]
           older == {r \in {Collector, s} : Older(files[r]["live"].main)}
           attached == [command[c] EXCEPT !.at = "attached"]
           found == [command[c] EXCEPT !.at = IF older = {} THEN "start" ELSE "asking", !.reset = older]
<1>1. /\ s \in Servers /\ s \in Stores /\ Collector \in Stores
      /\ command[c] \in CommandSet /\ command[c].at = "new" /\ startup[s] = NoOne
      /\ command \in [Commands -> CommandSet] /\ startup \in [Servers -> Commands \cup {NoOne}]
      /\ writer \in [Stores -> Commands \cup {NoOne}] /\ LocksHold(c)
  BY ResetAssumption DEF ResetInv, ResetType, Launch, StartupFree, Stores
<1>2. \A r \in Stores : writer[r] # c
  BY <1>1 DEF LocksHold
<1>3. UNCHANGED <<files, owner, created, wrong, writer>>
  BY DEF Launch
<1>4. CASE owner[s] # NoOne
  <2>1. attached \in CommandSet /\ attached.at = "attached"
    BY <1>1 DEF CommandSet
  <2> HIDE DEF attached
  <2>2. command' = [command EXCEPT ![c] = attached] /\ UNCHANGED startup
    BY <1>1, <1>4 DEF Launch, attached
  <2>3. command' \in [Commands -> CommandSet] /\ command'[c].at = "attached"
        /\ \A d \in Commands \ {c} : command'[d] = command[d]
    BY <1>1, <2>1, <2>2
  <2>4. LocksHold(c)' /\ MovesClear(c)'
    BY <1>2, <1>3, <2>3 DEF LocksHold, MovesClear, Resetting
  <2> QED BY <1>1, <1>3, <2>2, <2>3, <2>4, QuietHolds
<1>5. CASE owner[s] = NoOne
  <2>1. /\ found \in CommandSet /\ found.at \in {"asking", "start"} /\ found.reset = older
        /\ found.at = "asking" => older # {}
    <3>1. older \in SUBSET Stores
      BY <1>1
    <3> HIDE DEF older
    <3> QED BY <1>1, <3>1 DEF CommandSet
  <2>2. /\ older \subseteq {Collector, s}
        /\ s \in older => Older(files[s]["live"].main)
    OBVIOUS
  <2> HIDE DEF found, older
  <2>3. command' = [command EXCEPT ![c] = found] /\ startup' = [startup EXCEPT ![s] = c]
    BY <1>1, <1>5 DEF Launch, found, older
  <2>4. command' \in [Commands -> CommandSet] /\ command'[c] = found
        /\ \A d \in Commands \ {c} : command'[d] = command[d]
    BY <1>1, <2>1, <2>3
  <2>5. /\ startup' \in [Servers -> Commands \cup {NoOne}] /\ startup'[s] = c
        /\ \A t \in Servers : startup[t] \in Commands \ {c} => startup'[t] = startup[t]
    BY <1>1, <2>3, ResetAssumption
  <2>6. LocksHold(c)'
    BY <1>2, <1>3, <1>5, <2>1, <2>2, <2>4, <2>5 DEF LocksHold, Resetting
  <2>7. MovesClear(c)'
    BY <1>3, <2>1, <2>2, <2>4 DEF MovesClear
  <2> QED BY <1>1, <1>3, <2>4, <2>5, <2>6, <2>7, QuietHolds
<1> QED BY <1>4, <1>5

\* A command at a reset has a store to reset.
LEMMA StoreToReset ==
  ASSUME ResetInv, NEW c \in Commands, command[c].at \in Resetting
  PROVE  /\ NextStore(c) \in command[c].reset /\ NextStore(c) \in Stores
         /\ NextStore(c) \in {Collector, ServerOf[c]} /\ Collector # ServerOf[c]
         /\ command[c] \in CommandSet /\ ServerOf[c] \in Servers
         /\ startup[ServerOf[c]] = c /\ owner[ServerOf[c]] = NoOne
<1>1. ServerOf[c] \in Servers /\ Collector \notin Servers
  BY ResetAssumption
<1>2. command[c] \in CommandSet /\ LocksHold(c)
  BY DEF ResetInv, ResetType
<1>3. /\ command[c].reset # {} /\ command[c].reset \subseteq {Collector, ServerOf[c]}
      /\ startup[ServerOf[c]] = c /\ owner[ServerOf[c]] = NoOne
  BY <1>2 DEF LocksHold
<1>4. NextStore(c) \in command[c].reset
  BY <1>3 DEF NextStore
<1> QED BY <1>1, <1>2, <1>3, <1>4 DEF Stores

\* Confirming and taking the lock of a store.
LEMMA LockingHolds ==
  ASSUME ResetInv, NEW c \in Commands, Confirm(c) \/ Lock(c)
  PROVE  ResetInv'
<1>1. /\ command[c].at \in Resetting /\ LocksHold(c) /\ MovesClear(c)
      /\ command \in [Commands -> CommandSet] /\ startup \in [Servers -> Commands \cup {NoOne}]
      /\ writer \in [Stores -> Commands \cup {NoOne}]
  BY DEF ResetInv, ResetType, Confirm, Lock, Resetting
<1>2. /\ NextStore(c) \in command[c].reset /\ NextStore(c) \in Stores
      /\ NextStore(c) \in {Collector, ServerOf[c]}
      /\ command[c] \in CommandSet /\ ServerOf[c] \in Servers
      /\ startup[ServerOf[c]] = c /\ owner[ServerOf[c]] = NoOne
  BY <1>1, StoreToReset
<1>3. CASE Confirm(c)
  <2> DEFINE new == [command[c] EXCEPT !.at = "locking"]
  <2>1. new \in CommandSet /\ new.at = "locking" /\ new.reset = command[c].reset
    BY <1>2 DEF CommandSet
  <2> HIDE DEF new
  <2>2. command' = [command EXCEPT ![c] = new] /\ UNCHANGED <<files, startup, writer, owner, created, wrong>>
        /\ command[c].at = "asking"
    BY <1>1, <1>3 DEF Confirm, new
  <2>3. command' \in [Commands -> CommandSet] /\ command'[c] = new
        /\ \A d \in Commands \ {c} : command'[d] = command[d]
    BY <1>1, <2>1, <2>2
  <2>4. LocksHold(c)' /\ MovesClear(c)'
    BY <1>1, <1>2, <2>1, <2>2, <2>3 DEF LocksHold, MovesClear, Resetting
  <2> QED BY <1>1, <2>2, <2>3, <2>4, QuietHolds
<1>4. CASE Lock(c)
  <2> DEFINE r == NextStore(c)
             place == Available(r, c)
             new == [command[c] EXCEPT !.at = "moving", !.target = place, !.file = 1]
  <2>1. CASE Stops(c, "failed")
    BY <1>4, <2>1, StopHolds DEF Lock
  <2>2. CASE ~Stops(c, "failed")
    <3>1. /\ command[c].at = "locking" /\ writer[r] = NoOne /\ place # "none"
          /\ writer' = [writer EXCEPT ![r] = c]
          /\ UNCHANGED <<files, startup, owner, created, wrong>>
      BY <1>4, <2>2 DEF Lock
    <3>2. command' = [command EXCEPT ![c] = new]
      BY <1>1, <1>4, <2>2 DEF Lock
    <3>3. place \in {"bak", c} /\ files[r][place] = [main |-> 0, wal |-> 0]
      BY <3>1 DEF Available
    <3>4. place \in Places
      BY <3>3 DEF Places
    <3> HIDE DEF r, place
    <3>5. new \in CommandSet /\ new.at = "moving" /\ new.reset = command[c].reset
          /\ new.target = place /\ new.file = 1
      <4>1. 1 \in 1..2 /\ command[c] \in CommandSet
        BY <1>2
      <4> QED BY ONLY <3>4, <4>1 DEF CommandSet, new
    <3> HIDE DEF new
    <3>6. command' \in [Commands -> CommandSet] /\ command'[c] = new
          /\ \A d \in Commands \ {c} : command'[d] = command[d]
      BY <1>1, <3>2, <3>5
    <3>7. NextStore(c)' = r
      BY <3>5, <3>6 DEF NextStore, r
    <3>8. /\ writer' \in [Stores -> Commands \cup {NoOne}] /\ writer'[r] = c
          /\ \A q \in Stores : q # r => writer'[q] = writer[q]
          /\ \A q \in Stores, d \in Commands \ {c} : writer'[q] = d <=> writer[q] = d
      BY <1>1, <1>2, <3>1, ResetAssumption DEF r
    <3>9. \A q \in Stores : writer[q] # c
      BY <1>1, <3>1 DEF LocksHold
    <3>10. LocksHold(c)'
      BY <1>1, <1>2, <3>1, <3>5, <3>6, <3>7, <3>8, <3>9 DEF LocksHold, Resetting
    <3>11. MovesClear(c)'
      BY <1>1, <3>1, <3>3, <3>5, <3>6, <3>7 DEF MovesClear, Resetting
    <3> QED BY <1>1, <3>1, <3>6, <3>8, <3>10, <3>11, QuietHolds
  <2> QED BY <2>1, <2>2
<1> QED BY <1>3, <1>4

\* Changing one of the two files of a database.
LEMMA FieldChanged ==
  ASSUME NEW a \in FilePairs, NEW x
  PROVE  /\ [a EXCEPT !["main"] = x] = [main |-> x, wal |-> a.wal]
         /\ [a EXCEPT !["wal"] = x] = [main |-> a.main, wal |-> x]
<1>1. [a EXCEPT !["main"] = x] = [a EXCEPT !.main = x] /\ [a EXCEPT !["wal"] = x] = [a EXCEPT !.wal = x]
  BY DEF FilePairs
<1>2. [a EXCEPT !.main = x] = [main |-> x, wal |-> a.wal] /\ [a EXCEPT !.wal = x] = [main |-> a.main, wal |-> x]
  BY DEF FilePairs
<1> QED BY <1>1, <1>2

\* One rename, of the WAL or of the database.
LEMMA Rename ==
  ASSUME NEW f \in {"main", "wal"}, NEW r \in Stores, NEW target \in Places, target # "live",
         files \in [Stores -> [Places -> FilePairs]],
         files' = [files EXCEPT ![r] = [@ EXCEPT !["live"][f] = 0, ![target][f] = files[r]["live"][f]]]
  PROVE  /\ files' \in [Stores -> [Places -> FilePairs]]
         /\ \A q \in Stores \ {r} : files'[q] = files[q]
         /\ \A p \in Places \ {"live", target} : files'[r][p] = files[r][p]
         /\ f = "main" =>
              /\ files'[r]["live"] = [main |-> 0, wal |-> files[r]["live"].wal]
              /\ files'[r][target] = [main |-> files[r]["live"].main, wal |-> files[r][target].wal]
         /\ f = "wal" =>
              /\ files'[r]["live"] = [main |-> files[r]["live"].main, wal |-> 0]
              /\ files'[r][target] = [main |-> files[r][target].main, wal |-> files[r]["live"].wal]
<1> DEFINE live == [files[r]["live"] EXCEPT ![f] = 0]
           aside == [files[r][target] EXCEPT ![f] = files[r]["live"][f]]
<1>1. "live" \in Places
  BY DEF Places
<1>2. files[r] \in [Places -> FilePairs] /\ files[r]["live"] \in FilePairs /\ files[r][target] \in FilePairs
  BY <1>1
<1>3. /\ f = "main" =>
           /\ live = [main |-> 0, wal |-> files[r]["live"].wal]
           /\ aside = [main |-> files[r]["live"].main, wal |-> files[r][target].wal]
      /\ f = "wal" =>
           /\ live = [main |-> files[r]["live"].main, wal |-> 0]
           /\ aside = [main |-> files[r][target].main, wal |-> files[r]["live"].wal]
  <2>1. ASSUME NEW a \in FilePairs, NEW x
        PROVE  /\ [a EXCEPT !["main"] = x] = [main |-> x, wal |-> a.wal]
               /\ [a EXCEPT !["wal"] = x] = [main |-> a.main, wal |-> x]
    BY FieldChanged
  <2>2. CASE f = "main"
    <3>1. live = [files[r]["live"] EXCEPT !["main"] = 0]
          /\ aside = [files[r][target] EXCEPT !["main"] = files[r]["live"]["main"]]
      BY <2>2
    <3> QED BY <1>2, <2>1, <2>2, <3>1
  <2>3. CASE f = "wal"
    <3>1. live = [files[r]["live"] EXCEPT !["wal"] = 0]
          /\ aside = [files[r][target] EXCEPT !["wal"] = files[r]["live"]["wal"]]
      BY <2>3
    <3> QED BY <1>2, <2>1, <2>3, <3>1
  <2> QED BY <2>2, <2>3
<1>4. live \in FilePairs /\ aside \in FilePairs
  BY <1>2, <1>3 DEF FilePairs
<1>5. files' = [files EXCEPT ![r] = [files[r] EXCEPT !["live"] = live, ![target] = aside]]
  BY <1>1, <1>2
<1> HIDE DEF live, aside, FilePairs
<1>6. /\ [files[r] EXCEPT !["live"] = live, ![target] = aside] \in [Places -> FilePairs]
      /\ [files[r] EXCEPT !["live"] = live, ![target] = aside]["live"] = live
      /\ [files[r] EXCEPT !["live"] = live, ![target] = aside][target] = aside
      /\ \A p \in Places \ {"live", target} :
           [files[r] EXCEPT !["live"] = live, ![target] = aside][p] = files[r][p]
  BY <1>1, <1>2, <1>4
<1> DEFINE new == [files[r] EXCEPT !["live"] = live, ![target] = aside]
<1> HIDE DEF new
<1>7. /\ files' \in [Stores -> [Places -> FilePairs]] /\ files'[r] = new
      /\ \A q \in Stores \ {r} : files'[q] = files[q]
  BY <1>5, <1>6 DEF new
<1> QED BY <1>3, <1>6, <1>7 DEF new

\* What a mover knows of the store it moves.
LEMMA MoverFacts ==
  ASSUME ResetInv, NEW c \in Commands, command[c].at = "moving", NEW r, r = NextStore(c)
  PROVE  /\ r \in Stores /\ r \in command[c].reset /\ r \in {Collector, ServerOf[c]}
         /\ ServerOf[c] \in Servers /\ Collector \notin Servers
         /\ startup[ServerOf[c]] = c /\ owner[ServerOf[c]] = NoOne /\ writer[r] = c
         /\ \A q \in Stores : writer[q] = c => q = r
         /\ command[c] \in CommandSet /\ command[c].target \in Places /\ command[c].target # "live"
         /\ command[c].file \in 1..2
         /\ files[r][command[c].target].main = 0
         /\ command[c].file = 2 => files[r]["live"].wal = 0
         /\ r # Collector => Older(files[r]["live"].main)
         /\ command[c].reset \subseteq {Collector, ServerOf[c]}
         /\ ServerOf[c] \in command[c].reset => Older(files[ServerOf[c]]["live"].main)
<1>1. command[c].at \in Resetting
  BY DEF Resetting
<1>2. /\ r \in command[c].reset /\ r \in Stores /\ r \in {Collector, ServerOf[c]}
      /\ command[c] \in CommandSet /\ ServerOf[c] \in Servers
      /\ startup[ServerOf[c]] = c /\ owner[ServerOf[c]] = NoOne
  BY <1>1, StoreToReset
<1>3. LocksHold(c) /\ MovesClear(c)
  BY DEF ResetInv
<1>4. /\ writer[r] = c /\ (\A q \in Stores : writer[q] = c => q = r)
      /\ command[c].reset \subseteq {Collector, ServerOf[c]}
  BY <1>1, <1>3 DEF LocksHold
<1>5. /\ command[c].target \in {"bak", c}
      /\ files[r][command[c].target].main = 0
      /\ command[c].file = 2 => files[r]["live"].wal = 0
      /\ ServerOf[c] \in command[c].reset => Older(files[ServerOf[c]]["live"].main)
  BY <1>1, <1>3 DEF MovesClear
<1>6. command[c].target \in Places /\ command[c].target # "live" /\ command[c].file \in 1..2
  BY <1>5, ResetAssumption DEF Places, ResetInv, ResetType, CommandSet
<1> QED BY <1>2, <1>4, <1>5, <1>6, ResetAssumption

\* Moving the WAL.
LEMMA MoveWalHolds ==
  ASSUME ResetInv, NEW c \in Commands, MoveFile(c), command[c].file = 1
  PROVE  ResetInv'
<1> DEFINE r == NextStore(c)
           target == command[c].target
           new == [command[c] EXCEPT !.file = 2]
<1>1. command[c].at = "moving"
  BY DEF MoveFile
<1>2. /\ r \in Stores /\ r \in command[c].reset
      /\ startup[ServerOf[c]] = c /\ owner[ServerOf[c]] = NoOne /\ writer[r] = c
      /\ \A q \in Stores : writer[q] = c => q = r
      /\ command[c] \in CommandSet /\ target \in Places /\ target # "live"
      /\ files[r][target].main = 0
  BY <1>1, MoverFacts
<1>3. /\ files \in [Stores -> [Places -> FilePairs]] /\ command \in [Commands -> CommandSet]
      /\ LocksHold(c) /\ MovesClear(c) /\ Whole(r)
  BY <1>2 DEF ResetInv, ResetType
<1>4. Companions[1] = "wal" /\ Len(Companions) = 2
  BY DEF Companions
<1>5. /\ files' = IF files[r]["live"]["wal"] = 0 THEN files
                  ELSE [files EXCEPT ![r] = [@ EXCEPT !["live"]["wal"] = 0, ![target]["wal"] = files[r]["live"]["wal"]]]
      /\ wrong' = wrong /\ UNCHANGED <<writer, startup, owner, created>>
      /\ command' = [command EXCEPT ![c] = [command[c] EXCEPT !.file = command[c].file + 1]]
  BY <1>3, <1>4 DEF MoveFile
<1>6. new \in CommandSet /\ new.at = "moving" /\ new.reset = command[c].reset /\ new.target = target
      /\ new.file = 2
  <2>1. 2 \in 1..2 /\ command[c] \in CommandSet
    BY <1>2
  <2> QED BY ONLY <1>1, <2>1 DEF CommandSet, new, target
<1> HIDE DEF new
<1>7. command' = [command EXCEPT ![c] = new]
  BY <1>5 DEF new
<1>8. command' \in [Commands -> CommandSet] /\ command'[c] = new
      /\ \A d \in Commands \ {c} : command'[d] = command[d]
  BY <1>3, <1>6, <1>7
<1>9. "live" \in Places
  BY DEF Places
<1> HIDE DEF r, target
<1>10. /\ files' \in [Stores -> [Places -> FilePairs]]
       /\ \A q \in Stores \ {r} : files'[q] = files[q]
       /\ \A p \in Places : files'[r][p].main = files[r][p].main
       /\ files'[r]["live"].wal = 0
  <2>1. CASE files[r]["live"]["wal"] = 0
    <3>1. files[r]["live"] \in FilePairs
      BY <1>2, <1>3, <1>9
    <3>2. files[r]["live"].wal = 0
      BY <2>1, <3>1 DEF FilePairs
    <3> QED BY <1>3, <1>5, <2>1, <3>2
  <2>2. CASE files[r]["live"]["wal"] # 0
    <3>1. files' = [files EXCEPT ![r] = [@ EXCEPT !["live"]["wal"] = 0, ![target]["wal"] = files[r]["live"]["wal"]]]
      BY <1>5, <2>2
    <3>2. /\ files' \in [Stores -> [Places -> FilePairs]]
          /\ \A q \in Stores \ {r} : files'[q] = files[q]
          /\ \A p \in Places \ {"live", target} : files'[r][p] = files[r][p]
          /\ files'[r]["live"] = [main |-> files[r]["live"].main, wal |-> 0]
          /\ files'[r][target] = [main |-> files[r][target].main, wal |-> files[r]["live"].wal]
      BY <1>2, <1>3, <3>1, Rename, ZenonT(60)
    <3> QED BY <3>2
  <2> QED BY <2>1, <2>2
<1>11. NextStore(c)' = r
  BY <1>6, <1>8 DEF NextStore, r
<1>12. ResetType'
  BY <1>5, <1>8, <1>10 DEF ResetInv, ResetType
<1>13. LocksHold(c)'
  BY <1>1, <1>3, <1>5, <1>6, <1>8, <1>11 DEF LocksHold, Resetting, r
<1>14. MovesClear(c)'
  <2>1. ServerOf[c] \in Stores
    BY ResetAssumption DEF Stores
  <2>2. files'[ServerOf[c]]["live"].main = files[ServerOf[c]]["live"].main
    BY <1>9, <1>10, <2>1
  <2> QED BY <1>1, <1>2, <1>3, <1>6, <1>8, <1>10, <1>11, <2>2 DEF MovesClear, Resetting, target
<1>15. ASSUME NEW d \in Commands \ {c} PROVE (LocksHold(d) /\ MovesClear(d))'
  <2>1. ServerOf[d] \in Stores
    BY ResetAssumption DEF Stores
  <2>2. files'[ServerOf[d]]["live"].main = files[ServerOf[d]]["live"].main
    BY <1>9, <1>10, <2>1
  <2>3. \A q \in Stores : writer[q] = d => files'[q] = files[q]
    BY <1>2, <1>10
  <2> QED BY <1>5, <1>8, <2>2, <2>3, OtherHolds
<1>16. ASSUME NEW q \in Stores PROVE Whole(q)'
  <2>1. Whole(q)
    BY DEF ResetInv
  <2>2. CASE q # r
    BY <1>5, <1>10, <2>1, <2>2 DEF Whole
  <2>3. CASE q = r
    BY <1>5, <1>10, <2>1, <2>3 DEF Whole
  <2> QED BY <2>2, <2>3
<1>17. \A d \in Commands : (LocksHold(d) /\ MovesClear(d))'
  BY <1>13, <1>14, <1>15
<1> QED BY <1>5, <1>12, <1>16, <1>17 DEF ResetInv

\* Moving the database, which ends the reset of the store.
LEMMA MoveMainHolds ==
  ASSUME ResetInv, NEW c \in Commands, MoveFile(c), command[c].file = 2
  PROVE  ResetInv'
<1> DEFINE r == NextStore(c)
           target == command[c].target
           left == command[c].reset \ {r}
           new == [command[c] EXCEPT !.reset = left, !.target = "live", !.file = 1,
                                     !.at = IF left = {} THEN "start" ELSE "locking"]
           main == files[r]["live"].main
<1>1. command[c].at = "moving"
  BY DEF MoveFile
<1>2. /\ r \in Stores /\ r \in command[c].reset /\ r \in {Collector, ServerOf[c]}
      /\ ServerOf[c] \in Servers /\ Collector \notin Servers
      /\ startup[ServerOf[c]] = c /\ owner[ServerOf[c]] = NoOne /\ writer[r] = c
      /\ \A q \in Stores : writer[q] = c => q = r
      /\ command[c] \in CommandSet /\ target \in Places /\ target # "live"
      /\ files[r][target].main = 0 /\ files[r]["live"].wal = 0
      /\ r # Collector => Older(main)
      /\ command[c].reset \subseteq {Collector, ServerOf[c]}
      /\ ServerOf[c] \in command[c].reset => Older(files[ServerOf[c]]["live"].main)
  BY <1>1, MoverFacts
<1>3. /\ files \in [Stores -> [Places -> FilePairs]] /\ command \in [Commands -> CommandSet]
      /\ writer \in [Stores -> Commands \cup {NoOne}] /\ Whole(r) /\ created \in [Stores -> Nat]
      /\ \A x \in wrong : x[1] = Collector
  BY <1>2 DEF ResetInv, ResetType
<1>4. Companions[2] = "main" /\ Len(Companions) = 2 /\ "live" \in Places
  BY DEF Companions, Places
<1>5. /\ files' = IF files[r]["live"]["main"] = 0 THEN files
                  ELSE [files EXCEPT ![r] = [@ EXCEPT !["live"]["main"] = 0, ![target]["main"] = files[r]["live"]["main"]]]
      /\ writer' = [writer EXCEPT ![r] = NoOne] /\ UNCHANGED <<startup, owner, created>>
      /\ command' = [command EXCEPT ![c] = new]
      /\ wrong' = IF main # 0 /\ ~Older(main) THEN wrong \cup {<<r, main>>} ELSE wrong
  <2>1. /\ files' = IF files[r]["live"]["main"] = 0 THEN files
                    ELSE [files EXCEPT ![r] = [@ EXCEPT !["live"]["main"] = 0, ![target]["main"] = files[r]["live"]["main"]]]
        /\ wrong' = IF main # 0 /\ ~Older(main) THEN wrong \cup {<<r, main>>} ELSE wrong
        /\ UNCHANGED <<startup, owner, created>>
    BY <1>4 DEF MoveFile
  <2>2. writer' = [writer EXCEPT ![r] = NoOne]
    BY <1>4 DEF MoveFile
  <2>3. command' = [command EXCEPT ![c] = new]
    <3>0. ~(command[c].file < Len(Companions))
      BY <1>4
    <3>1. command' = [command EXCEPT ![c].reset = left, ![c].target = "live", ![c].file = 1,
                                     ![c].at = IF left = {} THEN "start" ELSE "locking"]
      BY <3>0, Zenon DEF MoveFile
    <3> HIDE DEF left
    <3> QED BY <1>3, <3>1
  <2> QED BY <2>1, <2>2, <2>3
<1>6. /\ new \in CommandSet /\ new.at = (IF left = {} THEN "start" ELSE "locking") /\ new.reset = left
      /\ left \subseteq {Collector, ServerOf[c]} \ {r}
  <2>1. 1 \in 1..2 /\ command[c] \in CommandSet /\ left \in SUBSET Stores
    BY <1>2 DEF CommandSet
  <2>2. left \subseteq {Collector, ServerOf[c]} \ {r}
    BY <1>2
  <2> HIDE DEF left
  <2> QED BY ONLY <1>4, <2>1, <2>2 DEF CommandSet, new
<1> HIDE DEF new, left
<1>7. command' \in [Commands -> CommandSet] /\ command'[c] = new
      /\ \A d \in Commands \ {c} : command'[d] = command[d]
  BY <1>3, <1>5, <1>6
<1> HIDE DEF r, target
<1>8. /\ files' \in [Stores -> [Places -> FilePairs]]
      /\ \A q \in Stores \ {r} : files'[q] = files[q]
      /\ \A p \in Places \ {"live", target} : files'[r][p].main = files[r][p].main
      /\ files'[r][target].main = main
      /\ files'[r]["live"].wal = 0
  <2>1. files[r]["live"] \in FilePairs
    BY <1>2, <1>3, <1>4
  <2>2. CASE files[r]["live"]["main"] = 0
    <3>1. main = 0
      BY <2>1, <2>2 DEF FilePairs
    <3>2. files' = files
      BY <1>5, <2>2
    <3> QED BY <1>2, <1>3, <3>1, <3>2
  <2>3. CASE files[r]["live"]["main"] # 0
    <3> HIDE DEF main
    <3>1. files' = [files EXCEPT ![r] = [@ EXCEPT !["live"]["main"] = 0, ![target]["main"] = files[r]["live"]["main"]]]
      BY <1>5, <2>3
    <3>2. /\ files' \in [Stores -> [Places -> FilePairs]]
          /\ \A q \in Stores \ {r} : files'[q] = files[q]
          /\ \A p \in Places \ {"live", target} : files'[r][p] = files[r][p]
          /\ files'[r]["live"] = [main |-> 0, wal |-> files[r]["live"].wal]
          /\ files'[r][target] = [main |-> files[r]["live"].main, wal |-> files[r][target].wal]
      <4>1. r \in Stores /\ target \in Places /\ target # "live" /\ "main" \in {"main", "wal"}
        BY <1>2
      <4>2. files \in [Stores -> [Places -> FilePairs]]
        BY <1>3
      <4> QED BY <3>1, <4>1, <4>2, Rename, ZenonT(60)
    <3> QED BY <1>2, <3>2 DEF main
  <2> QED BY <2>2, <2>3
<1>9. /\ writer' \in [Stores -> Commands \cup {NoOne}] /\ writer'[r] = NoOne
      /\ \A q \in Stores \ {r} : writer'[q] = writer[q]
  BY <1>2, <1>3, <1>5
<1>10. ResetType'
  BY <1>5, <1>7, <1>8, <1>9 DEF ResetInv, ResetType
<1>11. LocksHold(c)'
  <2>1. \A q \in Stores : writer'[q] # c
    BY <1>2, <1>9, ResetAssumption
  <2> QED BY <1>2, <1>5, <1>6, <1>7, <2>1 DEF LocksHold, Resetting
<1>12. MovesClear(c)'
  <2>1. ServerOf[c] \in Stores
    BY <1>2 DEF Stores
  <2>2. ServerOf[c] \in left => ServerOf[c] # r /\ ServerOf[c] \in command[c].reset
    BY <1>6 DEF left
  <2> QED BY <1>2, <1>6, <1>7, <1>8, <2>1, <2>2 DEF MovesClear, Resetting
<1>13. ASSUME NEW d \in Commands \ {c} PROVE (LocksHold(d) /\ MovesClear(d))'
  <2>1. ServerOf[d] \in Stores /\ ServerOf[d] \in Servers
    BY ResetAssumption DEF Stores
  <2>2. startup[ServerOf[d]] = d => files'[ServerOf[d]]["live"].main = files[ServerOf[d]]["live"].main
    BY <1>2, <1>8, <2>1
  <2>3. \A q \in Stores : writer[q] = d => files'[q] = files[q]
    BY <1>2, <1>8
  <2>4. \A q \in Stores : writer'[q] = d <=> writer[q] = d
    BY <1>2, <1>9, ResetAssumption
  <2> QED BY <1>5, <1>7, <2>2, <2>3, <2>4, OtherHolds
<1>14. ASSUME NEW q \in Stores PROVE Whole(q)'
  <2>1. Whole(q)
    BY DEF ResetInv
  <2>2. CASE q # r
    BY <1>5, <1>8, <2>1, <2>2 DEF Whole
  <2>3. CASE q = r
    <3>1. ASSUME NEW id \in 1..created[r] PROVE \E p \in Places : files'[r][p].main = id
      <4>1. PICK p \in Places : files[r][p].main = id
        BY <1>3 DEF Whole
      <4>2. id # 0
        BY <1>2, <1>3
      <4>3. CASE p = "live"
        BY <1>2, <1>8, <4>1, <4>3
      <4>4. CASE p # "live"
        BY <1>2, <1>8, <4>1, <4>2, <4>4
      <4> QED BY <4>3, <4>4
    <3> QED BY <1>5, <1>8, <2>3, <3>1 DEF Whole
  <2> QED BY <2>2, <2>3
<1>15. \A x \in wrong' : x[1] = Collector
  BY <1>2, <1>3, <1>5
<1>16. \A d \in Commands : (LocksHold(d) /\ MovesClear(d))'
  BY <1>11, <1>12, <1>13
<1> QED BY <1>10, <1>14, <1>15, <1>16 DEF ResetInv

\* Opening a store: a database that is created finds no WAL that is not its own.
LEMMA OpenFacts ==
  ASSUME ResetInv, NEW r \in Stores, Create(r)
  PROVE  /\ Opened(r) \in [Stores -> [Places -> FilePairs]]
         /\ \A q \in Stores \ {r} : Opened(r)[q] = files[q]
         /\ \A p \in Places \ {"live"} : Opened(r)[r][p] = files[r][p]
         /\ Opened(r)[r]["live"].wal = Opened(r)[r]["live"].main
         /\ files[r]["live"].wal \in {0, Opened(r)[r]["live"].main}
         /\ created' \in [Stores -> Nat]
         /\ \A q \in Stores \ {r} : created'[q] = created[q]
         /\ \A id \in 1..created'[r] : \E p \in Places : Opened(r)[r][p].main = id
<1> DEFINE live == files[r]["live"]
           id == IF live.main = 0 THEN created[r] + 1 ELSE live.main
           wal == IF live.wal = 0 THEN id ELSE live.wal
           new == [main |-> id, wal |-> wal]
<1>1. /\ files \in [Stores -> [Places -> FilePairs]] /\ created \in [Stores -> Nat]
      /\ Whole(r) /\ "live" \in Places
  BY DEF ResetInv, ResetType, Places
<1>2. live \in FilePairs
  BY <1>1
<1>3. live.main \in Nat /\ live.wal \in Nat /\ created[r] \in Nat
  BY <1>1, <1>2 DEF FilePairs
<1>4. /\ id \in Nat /\ wal = id /\ live.wal \in {0, id}
      /\ live.main = 0 => id = created[r] + 1
      /\ live.main # 0 => id = live.main
  BY <1>1, <1>3 DEF Whole
<1>5. new \in FilePairs /\ new.main = id /\ new.wal = id
  BY <1>4 DEF FilePairs
<1>6. Opened(r) = [files EXCEPT ![r] = [files[r] EXCEPT !["live"] = new]]
  BY <1>1 DEF Opened
<1> HIDE DEF new, id, wal, FilePairs
<1>7. /\ Opened(r) \in [Stores -> [Places -> FilePairs]] /\ Opened(r)[r]["live"] = new
      /\ \A q \in Stores \ {r} : Opened(r)[q] = files[q]
      /\ \A p \in Places \ {"live"} : Opened(r)[r][p] = files[r][p]
  <2> DEFINE place == [files[r] EXCEPT !["live"] = new]
  <2>1. place \in [Places -> FilePairs] /\ place["live"] = new
        /\ \A p \in Places \ {"live"} : place[p] = files[r][p]
    BY <1>1, <1>5
  <2> HIDE DEF place
  <2>2. Opened(r) = [files EXCEPT ![r] = place]
    BY <1>6 DEF place
  <2> QED BY <1>1, <2>1, <2>2
<1>8. created' = [created EXCEPT ![r] = IF live.main = 0 THEN created[r] + 1 ELSE created[r]]
  BY DEF Create
<1>9. /\ created' \in [Stores -> Nat]
      /\ \A q \in Stores \ {r} : created'[q] = created[q]
      /\ created'[r] = IF live.main = 0 THEN created[r] + 1 ELSE created[r]
  BY <1>1, <1>3, <1>8
<1>10. ASSUME NEW n \in 1..created'[r] PROVE \E p \in Places : Opened(r)[r][p].main = n
  <2>1. CASE n \in 1..created[r]
    <3>1. PICK p \in Places : files[r][p].main = n
      BY <1>1, <2>1 DEF Whole
    <3>2. CASE p = "live"
      <4>1. id = n
        BY <1>3, <1>4, <2>1, <3>1, <3>2
      <4> QED BY <1>1, <1>5, <1>7, <4>1
    <3>3. CASE p # "live"
      BY <1>7, <3>1, <3>3
    <3> QED BY <3>2, <3>3
  <2>2. CASE n \notin 1..created[r]
    <3> HIDE DEF live
    <3>1. live.main = 0 /\ n = created[r] + 1
      <4>1. CASE live.main = 0
        <5>1. created'[r] = created[r] + 1
          BY <1>9, <4>1
        <5>2. n \in 1..created[r] + 1
          BY <5>1
        <5> QED BY <1>3, <2>2, <4>1, <5>2
      <4>2. CASE live.main # 0
        BY <1>9, <2>2, <4>2
      <4> QED BY <4>1, <4>2
    <3> QED BY <1>1, <1>4, <1>5, <1>7, <3>1
  <2> QED BY <2>1, <2>2
<1> QED BY <1>4, <1>5, <1>7, <1>9, <1>10

\* The backend starts, and opens its database.
LEMMA StartHolds ==
  ASSUME ResetInv, NEW c \in Commands, StartBackend(c)
  PROVE  ResetInv'
<1> DEFINE s == ServerOf[c]
<1>1. /\ s \in Servers /\ s \in Stores /\ Collector \notin Servers /\ NoOne \notin Commands
      /\ ServerOf \in [Commands -> Servers]
  BY ResetAssumption DEF Stores
<1>2. /\ command[c].at = "start" /\ writer[s] = NoOne /\ UNCHANGED wrong
      /\ LocksHold(c)
  BY DEF StartBackend, ResetInv
<1>3. startup[s] = c
  BY <1>2 DEF LocksHold
<1>4. CASE Stops(c, "failed") /\ UNCHANGED <<files, owner, created>>
  BY <1>2, <1>4, StopHolds
<1>5. CASE ~(Stops(c, "failed") /\ UNCHANGED <<files, owner, created>>)
  <2>1. /\ Stops(c, "attached") /\ owner' = [owner EXCEPT ![s] = c]
        /\ files' = Opened(s) /\ Create(s)
    BY <1>5 DEF StartBackend
  <2>2. /\ command' \in [Commands -> CommandSet] /\ command'[c].at = "attached"
        /\ \A d \in Commands \ {c} : command'[d] = command[d]
        /\ startup' \in [Servers -> Commands \cup {NoOne}]
        /\ writer' \in [Stores -> Commands \cup {NoOne}]
        /\ \A t \in Servers : startup[t] # c => startup'[t] = startup[t]
        /\ \A r \in Stores : writer'[r] = IF writer[r] = c THEN NoOne ELSE writer[r]
    BY <2>1, StopFacts
  <2>3. /\ files' \in [Stores -> [Places -> FilePairs]]
        /\ \A q \in Stores \ {s} : files'[q] = files[q]
        /\ files'[s]["live"].wal = files'[s]["live"].main
        /\ created' \in [Stores -> Nat]
        /\ \A q \in Stores \ {s} : created'[q] = created[q]
        /\ \A id \in 1..created'[s] : \E p \in Places : files'[s][p].main = id
    BY <1>1, <2>1, OpenFacts
  <2>4. owner' \in [Servers -> Commands \cup {NoOne}] /\ \A t \in Servers \ {s} : owner'[t] = owner[t]
    BY <1>1, <2>1 DEF ResetInv, ResetType
  <2>5. ResetType'
    BY <2>2, <2>3, <2>4 DEF ResetType
  <2>6. LocksHold(c)' /\ MovesClear(c)'
    BY <1>1, <2>2 DEF LocksHold, MovesClear, Resetting
  <2>7. ASSUME NEW d \in Commands \ {c} PROVE (LocksHold(d) /\ MovesClear(d))'
    <3>1. ServerOf[d] \in Servers /\ ServerOf[d] \in Stores
      BY <1>1 DEF Stores
    <3>2. startup[ServerOf[d]] = d =>
            /\ startup'[ServerOf[d]] = d
            /\ owner'[ServerOf[d]] = owner[ServerOf[d]]
            /\ files'[ServerOf[d]]["live"].main = files[ServerOf[d]]["live"].main
      BY <1>3, <2>2, <2>3, <2>4, <3>1
    <3>3. \A r \in Stores : writer'[r] = d <=> writer[r] = d
      BY <1>1, <2>2
    <3>4. \A r \in Stores : writer[r] = d => files'[r] = files[r]
      BY <1>1, <1>2, <2>3
    <3> QED BY <2>2, <3>2, <3>3, <3>4, OtherHolds
  <2>8. ASSUME NEW q \in Stores PROVE Whole(q)'
    <3>1. Whole(q)
      BY DEF ResetInv
    <3> QED BY <2>3, <3>1 DEF Whole
  <2>9. \A d \in Commands : (LocksHold(d) /\ MovesClear(d))'
    BY <2>6, <2>7
  <2> QED BY <1>2, <2>5, <2>8, <2>9 DEF ResetInv
<1> QED BY <1>4, <1>5

\* A capture opens the collector database, and a backend ends.
LEMMA BackendsHold ==
  ASSUME ResetInv, NEW s \in Servers, Capture(s) \/ BackendEnds(s)
  PROVE  ResetInv'
<1>1. /\ s \in Stores /\ Collector \in Stores /\ Collector \notin Servers /\ NoOne \notin Commands
      /\ ServerOf \in [Commands -> Servers] /\ "live" \in Places
      /\ \A d \in Commands : ServerOf[d] \in Servers /\ ServerOf[d] \in Stores
  BY ResetAssumption DEF Stores, Places
<1>2. /\ UNCHANGED <<startup, writer, command, wrong>>
      /\ files \in [Stores -> [Places -> FilePairs]] /\ owner \in [Servers -> Commands \cup {NoOne}]
      /\ created \in [Stores -> Nat]
      /\ \A d \in Commands : LocksHold(d) /\ MovesClear(d)
  BY DEF Capture, BackendEnds, ResetInv, ResetType
<1>3. CASE Capture(s)
  <2>1. writer[Collector] = NoOne /\ UNCHANGED owner /\ Create(Collector)
    BY <1>3 DEF Capture
  <2> DEFINE open == Opened(Collector)
  <2>2. /\ open \in [Stores -> [Places -> FilePairs]]
        /\ \A q \in Stores \ {Collector} : open[q] = files[q]
        /\ open[Collector]["live"].wal = open[Collector]["live"].main
        /\ files[Collector]["live"].wal \in {0, open[Collector]["live"].main}
        /\ created' \in [Stores -> Nat]
        /\ \A q \in Stores \ {Collector} : created'[q] = created[q]
        /\ \A id \in 1..created'[Collector] : \E p \in Places : open[Collector][p].main = id
    BY <1>1, <2>1, OpenFacts
  <2>3. \/ files' = open
        \/ files' = [open EXCEPT ![Collector]["live"].wal =
                       IF files[Collector]["live"].wal \notin {0, open[Collector]["live"].main} THEN @ ELSE 0]
    BY <1>3 DEF Capture
  <2> HIDE DEF open
  <2>4. /\ files' \in [Stores -> [Places -> FilePairs]]
        /\ \A q \in Stores \ {Collector} : files'[q] = files[q]
        /\ files'[Collector]["live"].wal \in {0, files'[Collector]["live"].main}
        /\ \A p \in Places : files'[Collector][p].main = open[Collector][p].main
    <3>1. CASE files' = open
      BY <2>2, <3>1
    <3>2. CASE files' # open
      <4> DEFINE new == [open[Collector]["live"] EXCEPT !.wal = 0]
      <4>1. open[Collector]["live"] \in FilePairs
        BY <1>1, <2>2
      <4>2. new \in FilePairs /\ new.main = open[Collector]["live"].main /\ new.wal = 0
        BY <4>1 DEF FilePairs
      <4>3. files' = [open EXCEPT ![Collector] = [open[Collector] EXCEPT !["live"] = new]]
        BY <2>2, <2>3, <3>2
      <4> HIDE DEF new, FilePairs
      <4> QED BY <1>1, <2>2, <4>2, <4>3
    <3> QED BY <3>1, <3>2
  <2>5. ASSUME NEW d \in Commands PROVE (LocksHold(d) /\ MovesClear(d))'
    <3>1. files'[ServerOf[d]]["live"].main = files[ServerOf[d]]["live"].main
      BY <1>1, <2>4
    <3>2. \A r \in Stores : writer[r] = d => files'[r] = files[r]
      BY <1>1, <2>1, <2>4
    <3> QED BY <1>2, <2>1, <3>1, <3>2, OtherHolds
  <2>6. ASSUME NEW q \in Stores PROVE Whole(q)'
    <3>1. Whole(q)
      BY DEF ResetInv
    <3>2. CASE q # Collector
      BY <2>2, <2>4, <3>1, <3>2, ZenonT(60) DEF Whole
    <3>3. CASE q = Collector
      BY <2>2, <2>4, <3>3 DEF Whole
    <3> QED BY <3>2, <3>3
  <2>7. ResetType'
    BY <1>2, <2>1, <2>2, <2>4 DEF ResetInv, ResetType
  <2> QED BY <1>2, <2>5, <2>6, <2>7 DEF ResetInv
<1>4. CASE BackendEnds(s)
  <2>1. owner[s] # NoOne /\ owner' = [owner EXCEPT ![s] = NoOne] /\ UNCHANGED created
        /\ (files' = files \/ files' = [files EXCEPT ![s]["live"].wal = 0])
    BY <1>4 DEF BackendEnds
  <2>2. /\ files' \in [Stores -> [Places -> FilePairs]]
        /\ \A q \in Stores \ {s} : files'[q] = files[q]
        /\ \A p \in Places : files'[s][p].main = files[s][p].main
        /\ files'[s]["live"].wal \in {0, files[s]["live"].wal}
    <3>1. CASE files' = files
      BY <1>2, <3>1
    <3>2. CASE files' # files
      <4> DEFINE new == [files[s]["live"] EXCEPT !.wal = 0]
      <4>1. files[s]["live"] \in FilePairs
        BY <1>1, <1>2
      <4>2. new \in FilePairs /\ new.main = files[s]["live"].main /\ new.wal = 0
        BY <4>1 DEF FilePairs
      <4>3. files' = [files EXCEPT ![s] = [files[s] EXCEPT !["live"] = new]]
        BY <2>1, <3>2
      <4> HIDE DEF new, FilePairs
      <4> QED BY <1>1, <1>2, <4>2, <4>3
    <3> QED BY <3>1, <3>2
  <2>3. ASSUME NEW d \in Commands PROVE (LocksHold(d) /\ MovesClear(d))'
    <3>1. files'[ServerOf[d]]["live"].main = files[ServerOf[d]]["live"].main
      BY <1>1, <2>2
    <3>2. writer[s] # d
      <4> SUFFICES ASSUME writer[s] = d PROVE FALSE
        OBVIOUS
      <4>1. command[d].at = "moving" /\ s = NextStore(d)
        BY <1>1, <1>2 DEF LocksHold
      <4>2. s = ServerOf[d] /\ owner[ServerOf[d]] = NoOne
        BY <1>1, <4>1, MoverFacts
      <4> QED BY <2>1, <4>2
    <3>3. \A r \in Stores : writer[r] = d => files'[r] = files[r]
      BY <2>2, <3>2
    <3>4. owner[ServerOf[d]] = NoOne => owner'[ServerOf[d]] = NoOne
      BY <1>1, <1>2, <2>1
    <3> QED BY <1>2, <3>1, <3>3, <3>4, OtherHolds
  <2>4. ASSUME NEW q \in Stores PROVE Whole(q)'
    <3>1. Whole(q)
      BY DEF ResetInv
    <3>2. CASE q # s
      BY <2>1, <2>2, <3>1, <3>2 DEF Whole
    <3>3. CASE q = s
      BY <1>1, <2>1, <2>2, <3>1, <3>3 DEF Whole
    <3> QED BY <3>2, <3>3
  <2>5. ResetType'
    BY <1>2, <2>1, <2>2 DEF ResetInv, ResetType
  <2> QED BY <1>2, <2>3, <2>4, <2>5 DEF ResetInv
<1> QED BY <1>3, <1>4

\* The invariant of resets holds in every reachable state.
LEMMA ResetHolds == ResetSpec => []ResetInv
<1>1. ResetInv /\ [ResetNext]_resetVars => ResetInv'
  <2> SUFFICES ASSUME ResetInv, [ResetNext]_resetVars PROVE ResetInv'
    OBVIOUS
  <2>1. CASE UNCHANGED resetVars
    BY <2>1 DEF resetVars, ResetInv, ResetType, LocksHold, MovesClear, NextStore, Whole
  <2>2. ASSUME NEW c \in Commands, Launch(c) \/ Confirm(c) \/ Lock(c) \/ StartBackend(c) PROVE ResetInv'
    BY <2>2, LaunchHolds, LockingHolds, StartHolds
  <2>3. ASSUME NEW c \in Commands, Decline(c) \/ LockTimesOut(c) \/ Dies(c) PROVE ResetInv'
    BY <2>3, StopHolds DEF Decline, LockTimesOut, Dies
  <2>4. ASSUME NEW c \in Commands, MoveFile(c) PROVE ResetInv'
    <3>1. command[c].file \in 1..2
      BY <2>4, MoverFacts DEF MoveFile
    <3>2. command[c].file = 1 \/ command[c].file = 2
      BY <3>1
    <3> QED BY <2>4, <3>2, MoveWalHolds, MoveMainHolds
  <2>5. ASSUME NEW s \in Servers, Capture(s) \/ BackendEnds(s) PROVE ResetInv'
    BY <2>5, BackendsHold
  <2> QED BY <2>1, <2>2, <2>3, <2>4, <2>5 DEF ResetNext
<1> QED BY ResetInitInv, <1>1, PTL DEF ResetSpec

\* Whatever was interrupted or raced, each database is still somewhere, none finds the
\* WAL of another beside it, and no token database was moved aside that no older release
\* wrote (localstorage.Reset, moveAside, available), for any commands and databases.
THEOREM DatabasesKept == ResetSpec => []NothingLost
<1>1. ResetInv => NothingLost
  BY DEF ResetInv, Whole, NothingLost
<1> QED BY <1>1, ResetHolds, PTL

-----------------------------------------------------------------------------
(* The counters of a record. *)

\* The counters a reading may hold.
Optionals == Int \cup {Missing}

\* The records a parser works on: what the agent wrote, or what became of it.
Records == [harness : {"codex", "claude-code", "pi", "opencode"}, input : Optionals, output : Optionals,
            reasoning : Optionals, read : Optionals, write : Optionals, total : Optionals]
\* None of its counters is negative.
NotNegative(v) == v = Missing \/ v >= 0
Clean(u) ==
  /\ u \in Records
  /\ NotNegative(u.input) /\ NotNegative(u.output) /\ NotNegative(u.reasoning)
  /\ NotNegative(u.read) /\ NotNegative(u.write) /\ NotNegative(u.total)

\* A counter that is not there counts for nothing (TokenComponentSum).
LEMMA OrZeroIs ==
  ASSUME NEW v \in Optionals
  PROVE  OrZero(v) \in Int /\ (v = Missing => OrZero(v) = 0) /\ (v # Missing => v \in Int /\ OrZero(v) = v)
  BY UsageAssumption DEF OrZero, Optionals

\* The sum of five counters, of four and of two (TokenComponentSum).
LEMMA SumOfFive ==
  ASSUME NEW a \in Optionals, NEW b \in Optionals, NEW c \in Optionals, NEW d \in Optionals, NEW e \in Optionals
  PROVE  ComponentSum(<<a, b, c, d, e>>) = OrZero(a) + OrZero(b) + OrZero(c) + OrZero(d) + OrZero(e)
  BY DEF ComponentSum

\* The same of four counters.
LEMMA SumOfFour ==
  ASSUME NEW a \in Optionals, NEW b \in Optionals, NEW c \in Optionals, NEW d \in Optionals
  PROVE  ComponentSum(<<a, b, c, d>>) = OrZero(a) + OrZero(b) + OrZero(c) + OrZero(d)
  BY OrZeroIs DEF ComponentSum

\* And of two.
LEMMA SumOfTwo ==
  ASSUME NEW a \in Optionals, NEW b \in Optionals
  PROVE  ComponentSum(<<a, b>>) = OrZero(a) + OrZero(b)
  BY OrZeroIs DEF ComponentSum

\* What a parser promises of the counters it reads (parseEvidence).
Sound(u, r) ==
  r.usable =>
    /\ \A i \in DOMAIN Components(r.counts) : NotNegative(Components(r.counts)[i])
    /\ Fits(Components(r.counts))
    /\ ~r.doubtful => ComponentSum(Components(r.counts)) = Used(u)

\* Clean counters that fit, and agree when they are not doubtful, are sound.
LEMMA CleanIsSound ==
  ASSUME NEW u, NEW k, Clean(k), NEW doubtful, Fits(Components(k)),
         ~doubtful => ComponentSum(Components(k)) = Used(u)
  PROVE  Sound(u, Usable(k, doubtful))
  BY DEF Sound, Usable, Components, Clean

\* A record that is not usable promises nothing.
LEMMA UnusableIsSound ==
  ASSUME NEW u
  PROVE  Sound(u, Unusable)
  BY DEF Sound, Unusable

\* The sum of the components of a record.
LEMMA SumOfRecord ==
  ASSUME NEW u, u \in Records
  PROVE  ComponentSum(Components(u)) =
           OrZero(u.input) + OrZero(u.output) + OrZero(u.reasoning) + OrZero(u.read) + OrZero(u.write)
  BY SumOfFive DEF Components, Records

\* Clamping leaves a clean record, which is the record itself unless a counter was
\* negative (nonNegative).
LEMMA ClampedIsClean ==
  ASSUME NEW u, u \in Records
  PROVE  /\ Clean(Clamped(u)) /\ (~Negative(u) => Clamped(u) = u)
         /\ Clamped(u).harness = u.harness
         /\ u.input = Missing <=> Clamped(u).input = Missing
         /\ u.write = Missing <=> Clamped(u).write = Missing
         /\ u.read = Missing <=> Clamped(u).read = Missing
<1>1. ASSUME NEW v \in Optionals
      PROVE  Clamp(v) \in Optionals /\ NotNegative(Clamp(v)) /\ (v = Missing <=> Clamp(v) = Missing)
  BY UsageAssumption DEF Clamp, NotNegative, Optionals
<1> DEFINE i == Clamp(u.input)
           o == Clamp(u.output)
           r == Clamp(u.reasoning)
           rd == Clamp(u.read)
           w == Clamp(u.write)
           t == Clamp(u.total)
<1>2. Clamped(u) = [u EXCEPT !.input = i, !.output = o, !.reasoning = r, !.read = rd, !.write = w, !.total = t]
  BY DEF Clamped
<1>3. /\ i \in Optionals /\ o \in Optionals /\ r \in Optionals
      /\ rd \in Optionals /\ w \in Optionals /\ t \in Optionals
      /\ NotNegative(i) /\ NotNegative(o) /\ NotNegative(r) /\ NotNegative(rd) /\ NotNegative(w) /\ NotNegative(t)
      /\ u.input = Missing <=> i = Missing
      /\ u.write = Missing <=> w = Missing
      /\ u.read = Missing <=> rd = Missing
  BY <1>1 DEF Records
<1> HIDE DEF i, o, r, rd, w, t
<1>4. /\ Clamped(u) \in Records
      /\ Clamped(u).harness = u.harness
      /\ Clamped(u).input = i /\ Clamped(u).output = o /\ Clamped(u).reasoning = r
      /\ Clamped(u).read = rd /\ Clamped(u).write = w /\ Clamped(u).total = t
  BY <1>2, <1>3 DEF Records
<1>5. QED BY <1>3, <1>4 DEF Clean, Negative

\* Taking the reasoning out of the output keeps the record clean and their sum
\* (exclusive output).
LEMMA OutputOnlyKeeps ==
  ASSUME NEW u, Clean(u), ReasoningFits(u)
  PROVE  /\ Clean(OutputOnly(u))
         /\ OutputOnly(u).harness = u.harness /\ OutputOnly(u).input = u.input
         /\ OutputOnly(u).read = u.read /\ OutputOnly(u).write = u.write
         /\ OutputOnly(u).reasoning = u.reasoning
         /\ OrZero(OutputOnly(u).output) + OrZero(u.reasoning) = OrZero(u.output)
<1> DEFINE o == IF u.reasoning = Missing THEN u.output ELSE u.output - u.reasoning
<1>1. OutputOnly(u) = [u EXCEPT !.output = o]
  BY DEF OutputOnly
<1>2. o \in Optionals /\ NotNegative(o) /\ OrZero(o) + OrZero(u.reasoning) = OrZero(u.output)
  <2>0. u.output \in Optionals /\ u.reasoning \in Optionals /\ NotNegative(u.output) /\ NotNegative(u.reasoning)
    BY DEF Clean, Records
  <2>1. CASE u.reasoning = Missing
    BY <2>0, <2>1, OrZeroIs
  <2>2. CASE u.reasoning # Missing
    BY <2>0, <2>2, UsageAssumption DEF ReasoningFits, OrZero, NotNegative, Optionals
  <2>3. QED BY <2>1, <2>2
<1> HIDE DEF o
<1>3. OutputOnly(u) = [harness |-> u.harness, input |-> u.input, output |-> o, reasoning |-> u.reasoning,
                       read |-> u.read, write |-> u.write, total |-> u.total]
  BY <1>1 DEF Clean, Records
<1>4. QED BY <1>2, <1>3 DEF Clean, Records

\* Codex: counters are confirmed only when nothing was clamped on the way.
LEMMA CodexSound ==
  ASSUME NEW u, u \in Records, u.harness = "codex", u.write = Missing
  PROVE  Sound(u, CodexReading(u))
<1> DEFINE c == Clamped(u)
           o == OutputOnly(c)
           e == InputOnly(o)
           k == Clamped(e)
<1>1. CASE ~(ReasoningFits(c) /\ Fits(Components(k)))
  BY <1>1, UnusableIsSound DEF CodexReading
<1>2. CASE ReasoningFits(c) /\ Fits(Components(k))
  <2>1. CodexReading(u) = Usable(k, Negative(u) \/ Negative(e))
    BY <1>2 DEF CodexReading
  <2>2. Clean(c) /\ (~Negative(u) => c = u) /\ c.write = Missing /\ c.harness = "codex"
    BY ClampedIsClean
  <2>3. /\ Clean(o) /\ o.input = c.input /\ o.read = c.read /\ o.write = Missing /\ o.reasoning = c.reasoning
        /\ OrZero(o.output) + OrZero(c.reasoning) = OrZero(c.output)
    BY <1>2, <2>2, OutputOnlyKeeps
  <2> HIDE DEF c, o
  <2> DEFINE i == IF o.input = Missing \/ o.read = Missing THEN o.input ELSE o.input - o.read
  <2>4. i \in Optionals
    BY <2>3 DEF Clean, Records, Optionals
  <2>5. e = [o EXCEPT !.input = i]
    BY DEF InputOnly
  <2> HIDE DEF i
  <2>6. e = [harness |-> o.harness, input |-> i, output |-> o.output, reasoning |-> o.reasoning,
             read |-> o.read, write |-> o.write, total |-> o.total]
    BY <2>3, <2>5 DEF Clean, Records
  <2>7. e \in Records
    BY <2>3, <2>4, <2>6 DEF Clean, Records
  <2> HIDE DEF e
  <2>8. Clean(k) /\ (~Negative(e) => k = e)
    BY <2>7, ClampedIsClean
  <2>9. ASSUME ~(Negative(u) \/ Negative(e))
        PROVE  ComponentSum(Components(k)) = Used(u)
    <3>1. c = u /\ k = e
      BY <2>2, <2>8, <2>9
    <3>2. ComponentSum(Components(e)) =
            OrZero(i) + OrZero(o.output) + OrZero(u.reasoning) + OrZero(u.read) + OrZero(Missing)
      BY <2>3, <2>6, <2>7, <3>1, SumOfRecord
    <3>3. OrZero(o.output) + OrZero(u.reasoning) = OrZero(u.output) /\ OrZero(Missing) = 0
      BY <2>3, <3>1 DEF OrZero
    <3>4. /\ u.input \in Optionals /\ u.read \in Optionals /\ u.output \in Optionals /\ u.reasoning \in Optionals
          /\ o.output \in Optionals
      BY <2>3 DEF Records, Clean
    <3>5. OrZero(i) + OrZero(u.read) = OrZero(IF u.input = Missing THEN u.read ELSE u.input)
      BY <2>3, <3>1, <3>4, UsageAssumption DEF i, OrZero, Optionals
    <3>6. Used(u) = OrZero(IF u.input = Missing THEN u.read ELSE u.input) + OrZero(u.output)
      BY <3>4, SumOfTwo DEF Used
    <3>7. /\ OrZero(i) \in Int /\ OrZero(o.output) \in Int /\ OrZero(u.reasoning) \in Int /\ OrZero(u.read) \in Int
      BY <2>4, <3>4, OrZeroIs
    <3>8. QED BY <3>1, <3>2, <3>3, <3>5, <3>6, <3>7
  <2> HIDE DEF k
  <2>10. QED BY <1>2, <2>1, <2>8, <2>9, CleanIsSound
<1>3. QED BY <1>1, <1>2

\* Dropping the reasoning that does not fit leaves a clean record.
LEMMA WithoutReasoningKeeps ==
  ASSUME NEW u, Clean(u)
  PROVE  /\ Clean(WithoutReasoning(u)) /\ WithoutReasoning(u).reasoning = Missing
         /\ WithoutReasoning(u).input = u.input /\ WithoutReasoning(u).output = u.output
         /\ WithoutReasoning(u).read = u.read /\ WithoutReasoning(u).write = u.write
         /\ WithoutReasoning(u).total = u.total
  BY DEF Clean, Records, WithoutReasoning, Optionals, NotNegative

\* What Claude and pi make of clamped counters: the reasoning out of the output, or
\* no reasoning.
Exclusive(c) == IF ReasoningFits(c) THEN OutputOnly(c) ELSE WithoutReasoning(c)

\* Either way, output and reasoning together are what the output was.
LEMMA ExclusiveKeeps ==
  ASSUME NEW c, Clean(c)
  PROVE  /\ Clean(Exclusive(c))
         /\ Exclusive(c).input = c.input /\ Exclusive(c).read = c.read /\ Exclusive(c).write = c.write
         /\ OrZero(Exclusive(c).output) + OrZero(Exclusive(c).reasoning) = OrZero(c.output)
<1>1. CASE ReasoningFits(c)
  <2> HIDE DEF Clean
  <2>1. QED BY <1>1, OutputOnlyKeeps DEF Exclusive
<1>2. CASE ~ReasoningFits(c)
  <2>1. Exclusive(c) = WithoutReasoning(c)
    BY <1>2 DEF Exclusive
  <2>2. c.output \in Optionals
    BY DEF Clean, Records
  <2>3. OrZero(c.output) \in Int /\ OrZero(Missing) = 0
    BY <2>2, OrZeroIs DEF OrZero
  <2>4. QED BY <2>1, <2>3, WithoutReasoningKeeps
<1>3. QED BY <1>1, <1>2

\* Claude: confirmed counters add up to the total, where one is told.
LEMMA ClaudeSound ==
  ASSUME NEW u, u \in Records, u.harness = "claude-code"
  PROVE  Sound(u, ClaudeReading(u))
<1> DEFINE c == Clamped(u)
           k == Exclusive(c)
           consistent == c.total = Missing \/ c.total = ComponentSum(Components(k))
<1>0. ClaudeReading(u) = IF Fits(Components(k))
                         THEN Usable(k, Negative(u) \/ ~ReasoningFits(c) \/ ~consistent) ELSE Unusable
  BY DEF ClaudeReading, Exclusive
<1>1. CASE ~Fits(Components(k))
  BY <1>0, <1>1, UnusableIsSound
<1>2. CASE Fits(Components(k))
  <2>1. Clean(c) /\ (~Negative(u) => c = u)
    BY ClampedIsClean
  <2> HIDE DEF c
  <2>2. /\ Clean(k) /\ k.input = c.input /\ k.read = c.read /\ k.write = c.write
        /\ OrZero(k.output) + OrZero(k.reasoning) = OrZero(c.output)
    BY <2>1, ExclusiveKeeps
  <2> HIDE DEF k
  <2>3. ASSUME ~Negative(u), consistent
        PROVE  ComponentSum(Components(k)) = Used(u)
    <3>1. c = u
      BY <2>1, <2>3
    <3>2. CASE u.total # Missing
      BY <2>3, <3>1, <3>2 DEF Used
    <3>3. CASE u.total = Missing
      <4>1. Used(u) = ComponentSum(<<u.input, u.output, u.read, u.write>>)
        BY <3>3 DEF Used
      <4>2. Used(u) = OrZero(u.input) + OrZero(u.output) + OrZero(u.read) + OrZero(u.write)
        BY <4>1, SumOfFour DEF Records
      <4>3. ComponentSum(Components(k)) =
              OrZero(u.input) + OrZero(k.output) + OrZero(k.reasoning) + OrZero(u.read) + OrZero(u.write)
        BY <2>2, <3>1, SumOfRecord DEF Clean
      <4>4. OrZero(u.input) \in Int /\ OrZero(u.read) \in Int /\ OrZero(u.write) \in Int
            /\ OrZero(k.output) \in Int /\ OrZero(k.reasoning) \in Int
        BY <2>2, OrZeroIs DEF Clean, Records
      <4>5. QED BY <2>2, <3>1, <4>2, <4>3, <4>4
    <3>4. QED BY <3>2, <3>3
  <2> HIDE DEF consistent
  <2>4. QED BY <1>0, <1>2, <2>2, <2>3, CleanIsSound
<1>3. QED BY <1>1, <1>2

\* Pi: also when an older version counted the cache in the input.
LEMMA PiSound ==
  ASSUME NEW u, u \in Records, u.harness = "pi"
  PROVE  Sound(u, PiReading(u))
<1> DEFINE c == Clamped(u)
           x == Exclusive(c)
           counted == <<c.input, c.output, c.read, c.write>>
           cached == ComponentSum(<<c.read, c.write>>)
           i == IF LegacyPi(c) THEN x.input - cached ELSE x.input
           k == [x EXCEPT !.input = i]
           consistent == c.total = Missing \/ LegacyPi(c) \/ c.total = ComponentSum(counted)
<1>0. PiReading(u) = IF Fits(counted)
                     THEN Usable(k, Negative(u) \/ ~consistent \/ ~ReasoningFits(c)) ELSE Unusable
  BY DEF PiReading, Exclusive
<1>1. CASE ~Fits(counted)
  BY <1>0, <1>1, UnusableIsSound
<1>2. CASE Fits(counted)
  <2>1. Clean(c) /\ (~Negative(u) => c = u)
    BY ClampedIsClean
  <2> HIDE DEF c
  <2>2. /\ Clean(x) /\ x.input = c.input /\ x.read = c.read /\ x.write = c.write
        /\ OrZero(x.output) + OrZero(x.reasoning) = OrZero(c.output)
    BY <2>1, ExclusiveKeeps
  <2> HIDE DEF x
  <2>3. /\ c.input \in Optionals /\ c.output \in Optionals /\ c.read \in Optionals /\ c.write \in Optionals
        /\ x.output \in Optionals /\ x.reasoning \in Optionals
        /\ NotNegative(c.input) /\ NotNegative(c.read) /\ NotNegative(c.write)
    BY <2>1, <2>2 DEF Clean, Records
  <2>4. /\ OrZero(c.input) \in Int /\ OrZero(c.output) \in Int /\ OrZero(c.read) \in Int /\ OrZero(c.write) \in Int
        /\ OrZero(x.output) \in Int /\ OrZero(x.reasoning) \in Int
    BY <2>3, OrZeroIs
  <2>5. /\ ComponentSum(counted) = OrZero(c.input) + OrZero(c.output) + OrZero(c.read) + OrZero(c.write)
        /\ cached = OrZero(c.read) + OrZero(c.write)
        /\ ComponentSum(<<c.input, c.output>>) = OrZero(c.input) + OrZero(c.output)
    BY <2>3, SumOfTwo, SumOfFour
  <2>6. OrZero(c.read) >= 0 /\ OrZero(c.write) >= 0
    BY <2>3, OrZeroIs DEF NotNegative
  <2>7. LegacyPi(c) => /\ c.total = ComponentSum(<<c.input, c.output>>) /\ c.total # Missing
                       /\ c.input # Missing /\ c.input >= cached
    BY DEF LegacyPi
  <2> HIDE DEF counted, cached
  <2>8. /\ i \in Optionals /\ NotNegative(i)
        /\ LegacyPi(c) => OrZero(i) = OrZero(c.input) - cached
        /\ ~LegacyPi(c) => i = c.input
    <3>1. CASE LegacyPi(c)
      <4>1. c.input \in Int /\ OrZero(c.input) = c.input /\ cached \in Int
        BY <2>3, <2>4, <2>5, <2>7, <3>1, OrZeroIs
      <4>2. i = c.input - cached /\ c.input - cached \in Int
        BY <2>2, <3>1, <4>1
      <4>3. QED BY <2>7, <3>1, <4>1, <4>2, OrZeroIs, UsageAssumption DEF Optionals, NotNegative
    <3>2. CASE ~LegacyPi(c)
      BY <2>2, <2>3, <3>2
    <3>3. QED BY <3>1, <3>2
  <2> HIDE DEF i
  <2>9. Clean(k) /\ k.input = i /\ k.output = x.output /\ k.reasoning = x.reasoning /\ k.read = c.read
        /\ k.write = c.write
    BY <2>2, <2>8 DEF Clean, Records
  <2> HIDE DEF k
  <2>10. ComponentSum(Components(k)) = OrZero(i) + OrZero(c.output) + OrZero(c.read) + OrZero(c.write)
    <3>1. ComponentSum(Components(k)) =
            OrZero(i) + OrZero(x.output) + OrZero(x.reasoning) + OrZero(c.read) + OrZero(c.write)
      BY <2>9, SumOfRecord DEF Clean
    <3>2. OrZero(i) \in Int
      BY <2>8, OrZeroIs
    <3>3. QED BY <2>2, <2>4, <3>1, <3>2
  <2>11. Fits(Components(k))
    <3>1. ComponentSum(Components(k)) <= ComponentSum(counted)
      <4>1. CASE LegacyPi(c)
        BY <2>4, <2>5, <2>6, <2>8, <2>10, <4>1
      <4>2. CASE ~LegacyPi(c)
        BY <2>4, <2>5, <2>8, <2>10, <4>2
      <4>3. QED BY <4>1, <4>2
    <3>2. ComponentSum(Components(k)) \in Int /\ ComponentSum(counted) \in Int
      BY <2>4, <2>5, <2>8, <2>10, OrZeroIs
    <3>3. QED BY <1>2, <3>1, <3>2, UsageAssumption DEF Fits
  <2>12. ASSUME ~Negative(u), consistent
         PROVE  ComponentSum(Components(k)) = Used(u)
    <3>1. c = u
      BY <2>1, <2>12
    <3>2. CASE LegacyPi(c)
      <4>1. Used(u) = u.total
        BY <2>7, <3>1, <3>2 DEF Used
      <4>2. QED BY <2>4, <2>5, <2>7, <2>8, <2>10, <3>1, <3>2, <4>1
    <3>3. CASE ~LegacyPi(c)
      <4>1. Used(u) = ComponentSum(counted)
        BY <2>12, <3>1, <3>3 DEF Used, counted
      <4>2. QED BY <2>4, <2>5, <2>8, <2>10, <3>1, <3>3, <4>1
    <3>4. QED BY <3>2, <3>3
  <2> HIDE DEF consistent
  <2>13. QED BY <1>0, <1>2, <2>9, <2>11, <2>12, CleanIsSound
<1>3. QED BY <1>1, <1>2

\* OpenCode: reasoning is a counter of its own, and no reasoning is none used.
LEMMA OpenCodeSound ==
  ASSUME NEW u, u \in Records, u.harness = "opencode"
  PROVE  Sound(u, OpenCodeReading(u))
<1> DEFINE c == Clamped(u)
           r == OrZero(c.reasoning)
           k == [c EXCEPT !.reasoning = r]
<1>0. OpenCodeReading(u) = IF Fits(Components(c)) THEN Usable(k, Negative(u)) ELSE Unusable
  BY DEF OpenCodeReading
<1>1. CASE ~Fits(Components(c))
  BY <1>0, <1>1, UnusableIsSound
<1>2. CASE Fits(Components(c))
  <2>1. Clean(c) /\ (~Negative(u) => c = u)
    BY ClampedIsClean
  <2> HIDE DEF c
  <2>2. r \in Optionals /\ NotNegative(r) /\ OrZero(r) = r
    <3>1. c.reasoning \in Optionals /\ NotNegative(c.reasoning)
      BY <2>1 DEF Clean, Records
    <3>2. r \in Int /\ r >= 0
      BY <3>1, OrZeroIs DEF NotNegative
    <3>3. QED BY <3>2, UsageAssumption DEF Optionals, NotNegative, OrZero
  <2> HIDE DEF r
  <2>3. /\ Clean(k) /\ k.input = c.input /\ k.output = c.output /\ k.reasoning = r /\ k.read = c.read
        /\ k.write = c.write
    BY <2>1, <2>2 DEF Clean, Records
  <2> HIDE DEF k
  <2>4. ComponentSum(Components(k)) = ComponentSum(Components(c))
    BY <2>1, <2>2, <2>3, SumOfRecord DEF Clean, r
  <2>5. Fits(Components(k))
    BY <1>2, <2>4 DEF Fits
  <2>6. ~Negative(u) => ComponentSum(Components(k)) = Used(u)
    BY <2>1, <2>4 DEF Used
  <2>7. QED BY <1>0, <1>2, <2>3, <2>5, <2>6, CleanIsSound
<1>3. QED BY <1>1, <1>2

\* Whatever integers an agent writes into its counters, missing, negative,
\* contradictory or excessive, no published counter is negative, their sum fits, and
\* confirmed counters add up to what the agent used (parseEvidence and the parsers).
THEOREM CountersHold == NativeSpec => []CountersSound
<1>1. ASSUME NativeInit
      PROVE  CountersSound
  <2>1. usage \in Records
    BY <1>1, UsageAssumption DEF NativeInit, Records, Optionals, Optional
  <2>2. usage.harness = "codex" => usage.write = Missing
    BY <1>1 DEF NativeInit
  <2>3. Sound(usage, CountersOf(usage))
    <3>1. CASE ~AnyPresent(usage)
      BY <3>1, UnusableIsSound DEF CountersOf
    <3>2. CASE AnyPresent(usage)
      <4>1. CASE usage.harness = "codex"
        BY <2>1, <2>2, <3>2, <4>1, CodexSound DEF CountersOf
      <4>2. CASE usage.harness = "claude-code"
        BY <2>1, <3>2, <4>2, ClaudeSound DEF CountersOf
      <4>3. CASE usage.harness = "pi"
        BY <2>1, <3>2, <4>3, PiSound DEF CountersOf
      <4>4. CASE usage.harness = "opencode"
        BY <2>1, <3>2, <4>4, OpenCodeSound DEF CountersOf
      <4>5. QED BY <2>1, <4>1, <4>2, <4>3, <4>4 DEF Records
    <3>3. QED BY <3>1, <3>2
  <2>4. QED BY <2>3 DEF Sound, CountersSound, NotNegative
<1>2. CountersSound /\ [FALSE]_usage => CountersSound'
  BY DEF CountersSound
<1>3. QED BY <1>1, <1>2, PTL DEF NativeSpec

-----------------------------------------------------------------------------
(* Codex sessions that fork: their rollouts. *)

\* A set of naturals has a least element.
LEMMA LeastOf ==
  ASSUME NEW S \in SUBSET Nat, S # {}
  PROVE  \E k \in S : \A j \in S : k <= j
<1>1. PICK k \in S : \A j \in S : ~(<<j, k>> \in OpToRel(<, Nat))
  BY NatLessThanWellFounded, WFMin
<1>2. \A j \in S : ~(j < k)
  BY <1>1 DEF OpToRel
<1>3. \A j \in S : k <= j
  BY <1>2
<1>4. QED BY <1>3

\* The usage events of a rollout.
UsageEvents == [turn : Sessions \X Nat, total : Nat, detail : {"whole", "bare"}, use : Sessions \X Nat]

ReplayType ==
  /\ rollout \in [Sessions -> Seq(UsageEvents)]
  /\ claim \in [Sessions -> [fork : BOOLEAN, parent : Sessions \cup {NoParent, "unstarted"}]]
  /\ records \in [Sessions -> Nat]

\* Sessions start in order, a fork after its parent, and hold nothing before.
SessionSound(s) ==
  /\ ~Started(s) => rollout[s] = << >> /\ records[s] = 0 /\ ~claim[s].fork
  /\ Started(s) => \A t \in Sessions : t < s => Started(t)
  /\ Started(s) /\ claim[s].parent # NoParent => claim[s].parent \in Sessions /\ claim[s].parent < s
  /\ records[s] <= Len(rollout[s]) + 1 /\ Len(rollout[s]) <= MaxEvents

\* An event says what was used by which session and in which of its turns, now or
\* before; what a session has of others, it has by forking.
EventSound(s, i) ==
  /\ rollout[s][i].use[2] \in DOMAIN rollout[rollout[s][i].use[1]]
  /\ rollout[rollout[s][i].use[1]][rollout[s][i].use[2]] = rollout[s][i]
  /\ rollout[s][i].use[1] = s => rollout[s][i].use[2] <= i
  /\ rollout[s][i].use[1] # s => claim[s].fork
  /\ rollout[s][i].turn[1] <= s
  /\ rollout[s][i].turn[1] = s => rollout[s][i].turn[2] <= i
  /\ rollout[s][i].total >= 1

\* Within a rollout, what is shown again follows what it repeats, and the counters
\* of a turn, or of a session that is no fork, only grow.
PairSound(s, i, j) ==
  /\ rollout[s][i].use = rollout[s][j].use => rollout[s][i + 1].use = rollout[s][i].use
  /\ rollout[s][i].turn = rollout[s][j].turn => rollout[s][i].total <= rollout[s][j].total
  /\ ~claim[s].fork => rollout[s][i].total < rollout[s][j].total \/ rollout[s][i].use = rollout[s][j].use

RolloutSound(s) ==
  /\ \A i \in DOMAIN rollout[s] : EventSound(s, i)
  /\ \A i, j \in DOMAIN rollout[s] : i < j => PairSound(s, i, j)

\* The inductive invariant.
ReplayInv == ReplayType /\ \A s \in Sessions : SessionSound(s) /\ RolloutSound(s)

\* Before the first session nothing has been written.
LEMMA ReplayInitInv == ReplayInit => ReplayInv
<1> SUFFICES ASSUME ReplayInit PROVE ReplayInv
  OBVIOUS
<1>1. ReplayType
  BY DEF ReplayInit, ReplayType, NotStarted
<1>2. ASSUME NEW s \in Sessions PROVE SessionSound(s) /\ RolloutSound(s)
  <2>1. rollout[s] = << >> /\ records[s] = 0 /\ ~Started(s) /\ ~claim[s].fork
    BY DEF ReplayInit, Started, NotStarted
  <2>2. DOMAIN rollout[s] = {} /\ Len(rollout[s]) = 0
    BY <2>1
  <2>3. SessionSound(s)
    BY <2>1, <2>2, ReplayAssumption DEF SessionSound
  <2>4. QED BY <2>2, <2>3 DEF RolloutSound
<1>3. QED BY <1>1, <1>2 DEF ReplayInv

\* A session that starts leaves the others' soundness.
LEMMA StartSessionInv ==
  ASSUME ReplayInv, NEW s \in Sessions, StartSession(s)
  PROVE  ReplayInv'
<1> USE ReplayAssumption
<1>1. PICK c \in Ancestries :
        /\ c.parent # NoParent => c.fork /\ Started(c.parent)
        /\ claim' = [claim EXCEPT ![s] = c]
  BY DEF StartSession
<1>2. ~Started(s) /\ (\A t \in Sessions : t < s => Started(t)) /\ rollout' = rollout /\ records' = records
  BY DEF StartSession, MayStart
<1>3. claim'[s] = c /\ \A t \in Sessions \ {s} : claim'[t] = claim[t]
  BY <1>1 DEF ReplayInv, ReplayType
<1>4. rollout[s] = << >> /\ records[s] = 0
  BY <1>2 DEF ReplayInv, SessionSound
<1>5. c # NotStarted
  BY <1>1 DEF NotStarted, Ancestries
<1>6. \A t \in Sessions : Started(t)' <=> t = s \/ Started(t)
  BY <1>3, <1>5 DEF Started, NotStarted
<1>7. \A t \in Sessions : Started(t) => t < s
  BY <1>2 DEF ReplayInv, SessionSound
<1>8. ReplayType'
  BY <1>1, <1>2 DEF ReplayInv, ReplayType, Ancestries
<1>9. ASSUME NEW t \in Sessions PROVE SessionSound(t)'
  <2>1. CASE t = s
    <3>1. c.parent # NoParent => c.parent \in Sessions /\ c.parent < s
      BY <1>1, <1>2, <1>7 DEF Ancestries
    <3>2. QED BY <2>1, <3>1, <1>2, <1>3, <1>4, <1>6 DEF SessionSound
  <2>2. CASE t # s
    <3>1. SessionSound(t)
      BY DEF ReplayInv
    <3>2. QED BY <2>2, <3>1, <1>2, <1>3, <1>6 DEF SessionSound
  <2>3. QED BY <2>1, <2>2
<1>10. ASSUME NEW t \in Sessions PROVE RolloutSound(t)'
  <2>1. RolloutSound(t)
    BY DEF ReplayInv
  <2>2. CASE t = s
    BY <2>2, <1>2, <1>4 DEF RolloutSound
  <2>3. CASE t # s
    BY <2>1, <2>3, <1>2, <1>3 DEF RolloutSound, EventSound, PairSound
  <2>4. QED BY <2>2, <2>3
<1>11. QED BY <1>8, <1>9, <1>10 DEF ReplayInv

\* A fork starts with what its parent has, which stays the parent's.
LEMMA ForkSessionInv ==
  ASSUME ReplayInv, NEW s \in Sessions, NEW p \in Sessions \ {s}, ForkSession(s, p)
  PROVE  ReplayInv'
<1> USE ReplayAssumption
<1>1. PICK parent \in {p, NoParent} : claim' = [claim EXCEPT ![s] = [fork |-> TRUE, parent |-> parent]]
  BY DEF ForkSession
<1>2. PICK n \in 1..Len(rollout[p]) : rollout' = [rollout EXCEPT ![s] = SubSeq(rollout[p], 1, n)]
  BY DEF ForkSession
<1>3. /\ ~Started(s) /\ (\A t \in Sessions : t < s => Started(t)) /\ Started(p) /\ records' = records
      /\ rollout[s] = << >> /\ records[s] = 0
  BY DEF ForkSession, MayStart, ReplayInv, SessionSound
<1>4. p < s
  BY <1>3 DEF ReplayInv, SessionSound
<1>5. rollout[p] \in Seq(UsageEvents) /\ Len(rollout[p]) \in Nat
  BY DEF ReplayInv, ReplayType
<1>6. /\ SubSeq(rollout[p], 1, n) \in Seq(UsageEvents) /\ Len(SubSeq(rollout[p], 1, n)) = n
      /\ \A i \in 1..n : SubSeq(rollout[p], 1, n)[i] = rollout[p][i]
  <2> HIDE DEF UsageEvents
  <2>1. QED BY <1>5
<1>7. /\ rollout'[s] = SubSeq(rollout[p], 1, n) /\ claim'[s] = [fork |-> TRUE, parent |-> parent]
      /\ \A t \in Sessions \ {s} : rollout'[t] = rollout[t] /\ claim'[t] = claim[t]
  BY <1>1, <1>2 DEF ReplayInv, ReplayType
<1>8. DOMAIN rollout'[s] = 1..n /\ Len(rollout'[s]) = n /\ \A i \in 1..n : rollout'[s][i] = rollout[p][i]
  <2> HIDE DEF UsageEvents
  <2>1. QED BY <1>6, <1>7
<1>9. \A t \in Sessions : Started(t)' <=> t = s \/ Started(t)
  BY <1>7 DEF Started, NotStarted
<1>10. ReplayType'
  <2> HIDE DEF UsageEvents
  <2>1. rollout' \in [Sessions -> Seq(UsageEvents)]
    BY <1>2, <1>6 DEF ReplayInv, ReplayType
  <2>2. claim' \in [Sessions -> [fork : BOOLEAN, parent : Sessions \cup {NoParent, "unstarted"}]]
    BY <1>1 DEF ReplayInv, ReplayType
  <2>3. QED BY <2>1, <2>2, <1>3 DEF ReplayInv, ReplayType, UsageEvents
<1>11. ASSUME NEW t \in Sessions PROVE SessionSound(t)'
  <2>1. CASE t = s
    <3>1. n <= MaxEvents
      BY <1>5 DEF ReplayInv, SessionSound
    <3>2. QED BY <2>1, <3>1, <1>3, <1>4, <1>7, <1>8, <1>9 DEF SessionSound
  <2>2. CASE t # s
    <3>1. SessionSound(t)
      BY DEF ReplayInv
    <3>2. QED BY <2>2, <3>1, <1>3, <1>7, <1>9 DEF SessionSound
  <2>3. QED BY <2>1, <2>2
\* What any event says of others' rollouts, it still says.
<1>12. ASSUME NEW t \in Sessions, NEW i \in DOMAIN rollout[t]
       PROVE  /\ rollout[t][i].use[1] \in Sessions \ {s} /\ rollout[t][i].turn[1] \in Sessions
              /\ rollout'[rollout[t][i].use[1]] = rollout[rollout[t][i].use[1]]
  <2>1. EventSound(t, i)
    BY DEF ReplayInv, RolloutSound
  <2>2. rollout[t][i] \in UsageEvents
    <3> HIDE DEF UsageEvents
    <3>1. QED BY DEF ReplayInv, ReplayType
  <2>3. rollout[t][i].use[1] # s
    <3>1. DOMAIN rollout[s] = {}
      BY <1>3
    <3>2. QED BY <2>1, <3>1 DEF EventSound
  <2>4. QED BY <2>2, <2>3, <1>7 DEF UsageEvents
<1>13. ASSUME NEW t \in Sessions \ {s} PROVE RolloutSound(t)'
  <2>1. RolloutSound(t)
    BY DEF ReplayInv
  <2>2. rollout'[t] = rollout[t] /\ claim'[t] = claim[t]
    BY <1>7
  <2>3. ASSUME NEW i \in DOMAIN rollout[t] PROVE EventSound(t, i)'
    <3>1. EventSound(t, i)
      BY <2>1 DEF RolloutSound
    <3>2. /\ rollout[t][i].use[2] \in DOMAIN rollout'[rollout[t][i].use[1]]
          /\ rollout'[rollout[t][i].use[1]][rollout[t][i].use[2]] = rollout[t][i]
      <4>1. rollout'[rollout[t][i].use[1]] = rollout[rollout[t][i].use[1]]
        BY <1>12
      <4>2. /\ rollout[t][i].use[2] \in DOMAIN rollout[rollout[t][i].use[1]]
            /\ rollout[rollout[t][i].use[1]][rollout[t][i].use[2]] = rollout[t][i]
        BY <3>1 DEF EventSound
      <4>3. QED BY <4>1, <4>2
    <3>3. rollout'[t][i] = rollout[t][i]
      BY <2>2
    <3>4. QED BY <2>2, <3>1, <3>2, <3>3 DEF EventSound
  <2>4. ASSUME NEW i \in DOMAIN rollout[t], NEW j \in DOMAIN rollout[t], i < j PROVE PairSound(t, i, j)'
    <3>1. PairSound(t, i, j)
      BY <2>1, <2>4 DEF RolloutSound
    <3>2. QED BY <2>2, <3>1 DEF PairSound
  <2>5. QED BY <2>2, <2>3, <2>4 DEF RolloutSound
<1>14. RolloutSound(s)'
  <2>1. RolloutSound(p) /\ DOMAIN rollout[p] = 1..Len(rollout[p])
    BY <1>5 DEF ReplayInv
  <2>2. ASSUME NEW i \in 1..n PROVE EventSound(s, i)'
    <3>1. i \in DOMAIN rollout[p] /\ EventSound(p, i)
      BY <2>1 DEF RolloutSound
    <3>2. rollout'[s][i] = rollout[p][i] /\ claim'[s].fork
      BY <1>7, <1>8
    <3>3. /\ rollout[p][i].use[1] # s
          /\ rollout'[rollout[p][i].use[1]] = rollout[rollout[p][i].use[1]]
      BY <3>1, <1>12
    <3>4. rollout[p][i].turn[1] < s /\ rollout[p][i].turn[1] <= s
      <4>1. rollout[p][i].turn[1] <= p
        BY <3>1 DEF EventSound
      <4>2. rollout[p][i].turn[1] \in Sessions
        BY <3>1, <1>12
      <4>3. QED BY <4>1, <4>2, <1>4
    <3>5. /\ rollout[p][i].use[2] \in DOMAIN rollout'[rollout[p][i].use[1]]
          /\ rollout'[rollout[p][i].use[1]][rollout[p][i].use[2]] = rollout[p][i]
          /\ rollout[p][i].total >= 1
      BY <3>1, <3>3 DEF EventSound
    <3>6. rollout[p][i].turn[1] # s
      <4>1. rollout[p][i].turn[1] \in Sessions
        BY <3>1, <1>12
      <4>2. QED BY <4>1, <3>4
    <3>7. QED BY <3>2, <3>3, <3>4, <3>5, <3>6 DEF EventSound
  <2>3. ASSUME NEW i \in 1..n, NEW j \in 1..n, i < j PROVE PairSound(s, i, j)'
    <3>1. PairSound(p, i, j)
      BY <2>1, <2>3 DEF RolloutSound
    <3>2. /\ rollout'[s][i] = rollout[p][i] /\ rollout'[s][j] = rollout[p][j] /\ claim'[s].fork
          /\ rollout'[s][i + 1] = rollout[p][i + 1]
      <4>1. i + 1 \in 1..n
        BY <2>3
      <4>2. QED BY <4>1, <1>7, <1>8
    <3>3. QED BY <3>1, <3>2 DEF PairSound
  <2>4. QED BY <1>8, <2>2, <2>3 DEF RolloutSound
<1>15. QED BY <1>10, <1>11, <1>13, <1>14 DEF ReplayInv

\* What makes an event a sound continuation of a rollout.
Continues(s, e) ==
  LET n == Len(rollout[s]) + 1 IN
  /\ e \in UsageEvents
  /\ e.use = <<s, n>> \/ (rollout[s] # << >> /\ e = Newest(s))
  /\ e.turn = <<s, n>> \/ (rollout[s] # << >> /\ e.turn = Newest(s).turn)
  /\ e.total >= 1
  /\ e # Newest(s) /\ rollout[s] # << >> =>
       \/ e.total > Newest(s).total
       \/ claim[s].fork /\ e.turn = <<s, n>>

\* Such an event keeps what is known of rollouts.
LEMMA ContinuesInv ==
  ASSUME ReplayInv, NEW s \in Sessions, Started(s), Len(rollout[s]) < MaxEvents, NEW e, Continues(s, e),
         rollout' = [rollout EXCEPT ![s] = Append(@, e)], claim' = claim, records' = records
  PROVE  ReplayInv'
<1> USE ReplayAssumption
<1>0. Len(rollout[s]) \in Nat
  BY DEF ReplayInv, ReplayType
<1> PICK m \in Nat : m = Len(rollout[s])
  BY <1>0
<1> PICK n \in Nat : n = m + 1
  OBVIOUS
<1>1. rollout[s] \in Seq(UsageEvents) /\ Len(rollout[s]) = m /\ e \in UsageEvents /\ n = m + 1
  BY DEF ReplayInv, ReplayType, Continues
<1>2. /\ Append(rollout[s], e) \in Seq(UsageEvents) /\ Len(Append(rollout[s], e)) = n
      /\ \A i \in 1..m : Append(rollout[s], e)[i] = rollout[s][i]
      /\ Append(rollout[s], e)[n] = e
  <2> HIDE DEF UsageEvents
  <2>1. QED BY <1>1
<1>3. /\ rollout'[s] = Append(rollout[s], e) /\ \A t \in Sessions \ {s} : rollout'[t] = rollout[t]
  BY DEF ReplayInv, ReplayType
<1>4. /\ DOMAIN rollout'[s] = 1..n /\ DOMAIN rollout[s] = 1..m /\ Len(rollout'[s]) = n
      /\ rollout'[s][n] = e /\ \A i \in DOMAIN rollout[s] : rollout'[s][i] = rollout[s][i]
  <2> HIDE DEF UsageEvents
  <2>1. QED BY <1>1, <1>2, <1>3
<1>5. \A t \in Sessions : /\ DOMAIN rollout[t] \subseteq DOMAIN rollout'[t]
                          /\ \A i \in DOMAIN rollout[t] : rollout'[t][i] = rollout[t][i]
  BY <1>3, <1>4
<1>6. ReplayType'
  <2> HIDE DEF UsageEvents
  <2>1. rollout' \in [Sessions -> Seq(UsageEvents)]
    BY <1>2 DEF ReplayInv, ReplayType
  <2>2. QED BY <2>1 DEF ReplayInv, ReplayType, UsageEvents
<1>7. ASSUME NEW t \in Sessions PROVE SessionSound(t)'
  <2>1. SessionSound(t) /\ (Started(t)' <=> Started(t))
    BY DEF ReplayInv, Started
  <2>2. CASE t = s
    <3>1. records[s] \in Nat
      BY DEF ReplayInv, ReplayType
    <3>2. QED BY <2>1, <2>2, <3>1, <1>1, <1>4 DEF SessionSound, Started
  <2>3. CASE t # s
    BY <2>1, <2>3, <1>3 DEF SessionSound, Started
  <2>4. QED BY <2>2, <2>3
<1>8. ASSUME NEW t \in Sessions, NEW i \in DOMAIN rollout[t] PROVE EventSound(t, i) /\ EventSound(t, i)'
  <2>1. EventSound(t, i)
    BY DEF ReplayInv, RolloutSound
  <2>2. rollout[t][i] \in UsageEvents
    <3> HIDE DEF UsageEvents
    <3>1. QED BY DEF ReplayInv, ReplayType
  <2>3. rollout[t][i].use[1] \in Sessions
    BY <2>2 DEF UsageEvents
  <2>4. /\ rollout[t][i].use[2] \in DOMAIN rollout'[rollout[t][i].use[1]]
        /\ rollout'[rollout[t][i].use[1]][rollout[t][i].use[2]] = rollout[t][i]
    BY <2>1, <2>3, <1>5 DEF EventSound
  <2>5. rollout'[t][i] = rollout[t][i] /\ claim'[t] = claim[t]
    BY <1>5
  <2>6. QED BY <2>1, <2>4, <2>5 DEF EventSound
<1>9. EventSound(s, n)'
  <2>1. CASE e.use = <<s, n>>
    <3>1. /\ n \in DOMAIN rollout'[s] /\ rollout'[s][n] = e /\ n <= n
          /\ e.use[1] = s /\ e.use[2] = n
      BY <2>1, <1>1, <1>4
    <3>2. e.turn[1] <= s /\ (e.turn[1] = s => e.turn[2] <= n) /\ e.total >= 1
      <4>1. CASE e.turn = <<s, n>>
        BY <4>1, <1>1 DEF Continues
      <4>2. CASE e.turn # <<s, n>>
        <5>1. m \in DOMAIN rollout[s] /\ e.turn = rollout[s][m].turn
          BY <4>2, <1>1, <1>4 DEF Continues, Newest, Last
        <5>2. EventSound(s, m)
          BY <5>1, <1>8
        <5>3. e.turn[1] \in Sessions /\ e.turn[2] \in Nat
          BY <1>1 DEF UsageEvents
        <5>4. QED BY <5>1, <5>2, <5>3, <1>1 DEF EventSound, Continues
      <4>3. QED BY <4>1, <4>2
    <3>3. QED BY <3>1, <3>2 DEF EventSound
  <2>2. CASE e.use # <<s, n>>
    <3>1. m \in DOMAIN rollout[s] /\ e = rollout[s][m]
      BY <2>2, <1>1, <1>4 DEF Continues, Newest, Last
    <3>2. EventSound(s, m)'
      BY <3>1, <1>8
    <3>3. rollout'[s][n] = rollout'[s][m]
      BY <3>1, <1>4
    <3>4. e.use[2] \in Nat /\ e.turn[2] \in Nat /\ e.turn[1] \in Sessions
      BY <1>1 DEF UsageEvents
    <3>5. m <= n /\ rollout'[s][n] = e /\ e.use[2] \in Nat /\ e.turn[2] \in Nat
      BY <3>4, <1>1, <1>4
    <3>6. rollout'[s][m] = e
      BY <3>3, <3>5
    <3>7. (e.use[1] = s => e.use[2] <= n) /\ (e.turn[1] = s => e.turn[2] <= n)
      <4>1. (e.use[1] = s => e.use[2] <= m) /\ (e.turn[1] = s => e.turn[2] <= m)
        BY <3>2, <3>6 DEF EventSound
      <4>2. QED BY <4>1, <3>5
    <3>8. QED BY <3>2, <3>5, <3>6, <3>7 DEF EventSound
  <2>3. QED BY <2>1, <2>2
<1>10. ASSUME NEW t \in Sessions, NEW i \in DOMAIN rollout[t], NEW j \in DOMAIN rollout[t], i < j
       PROVE  PairSound(t, i, j) /\ PairSound(t, i, j)'
  <2>1. PairSound(t, i, j)
    BY <1>10 DEF ReplayInv, RolloutSound
  <2>2. i + 1 \in DOMAIN rollout[t]
    <3>1. rollout[t] \in Seq(UsageEvents)
      BY DEF ReplayInv, ReplayType
    <3> HIDE DEF UsageEvents
    <3>2. QED BY <1>10, <3>1
  <2>3. QED BY <2>1, <2>2, <1>5 DEF PairSound
<1>11. ASSUME NEW i \in DOMAIN rollout[s] PROVE PairSound(s, i, n)'
  <2>1. m \in DOMAIN rollout[s] /\ Newest(s) = rollout[s][m] /\ i \in Nat /\ i <= m /\ n = m + 1
    BY <1>1, <1>4 DEF Newest, Last
  <2>2. EventSound(s, i) /\ rollout[s][i] \in UsageEvents /\ rollout[s][m] \in UsageEvents
    <3> HIDE DEF UsageEvents
    <3>1. QED BY <1>1, <1>8, <2>1
  <2>3. i < m => PairSound(s, i, m)
    BY <1>10, <2>1
  <2>4. rollout'[s][i] = rollout[s][i] /\ (i < m => rollout'[s][i + 1] = rollout[s][i + 1])
    BY <1>4, <2>1
  <2>5. rollout'[s][n] = e /\ (i = m => rollout'[s][i + 1] = e)
    BY <1>4, <2>1
  <2>6. rollout[s][i].turn # <<s, n>> /\ rollout[s][i].use # <<s, n>>
    <3>1. ASSUME rollout[s][i].turn = <<s, n>> PROVE FALSE
      <4>1. rollout[s][i].turn[1] = s /\ rollout[s][i].turn[2] = n
        BY <3>1
      <4>2. n <= i
        BY <4>1, <2>2 DEF EventSound
      <4>3. QED BY <4>2, <2>1
    <3>2. ASSUME rollout[s][i].use = <<s, n>> PROVE FALSE
      <4>1. rollout[s][i].use[1] = s /\ rollout[s][i].use[2] = n
        BY <3>2
      <4>2. n <= i
        BY <4>1, <2>2 DEF EventSound
      <4>3. QED BY <4>2, <2>1
    <3>3. QED BY <3>1, <3>2
  <2>7. rollout[s][i].total \in Nat /\ rollout[s][m].total \in Nat /\ e.total \in Nat
    BY <1>1, <2>2 DEF UsageEvents
  <2>8. rollout[s] # << >>
    BY <2>1
  <2>9. CASE e = Newest(s)
    BY <2>1, <2>3, <2>4, <2>5, <2>7, <2>9 DEF PairSound
  <2>10. CASE e # Newest(s)
    <3>1. e.use = <<s, n>>
      BY <2>10 DEF Continues
    <3>2. \/ e.total > Newest(s).total /\ (e.turn = <<s, n>> \/ e.turn = Newest(s).turn)
          \/ claim[s].fork /\ e.turn = <<s, n>>
      BY <2>10, <2>8 DEF Continues
    <3>3. rollout[s][i].use # e.use /\ (e.turn = <<s, n>> => rollout[s][i].turn # e.turn)
      BY <2>6, <3>1
    <3>4. rollout[s][i].use = rollout[s][m].use => rollout[s][i].total = rollout[s][m].total
      <4>1. EventSound(s, m)
        BY <2>1, <1>8
      <4>2. QED BY <2>2, <4>1 DEF EventSound
    <3>5. ~claim[s].fork => rollout[s][i].total <= rollout[s][m].total
      BY <2>1, <2>3, <2>7, <3>4 DEF PairSound
    <3>6. rollout[s][i].turn = rollout[s][m].turn => rollout[s][i].total <= rollout[s][m].total
      BY <2>1, <2>3, <2>7 DEF PairSound
    <3>7. rollout[s][i].turn = e.turn => rollout[s][i].total <= e.total
      BY <2>1, <2>7, <3>2, <3>3, <3>6
    <3>8. ~claim[s].fork => rollout[s][i].total < e.total
      BY <2>1, <2>7, <3>2, <3>5
    <3>9. claim'[s] = claim[s] /\ rollout'[s][i] = rollout[s][i] /\ rollout'[s][n] = e
      BY <2>4, <2>5
    <3>10. QED BY <3>3, <3>7, <3>8, <3>9 DEF PairSound
  <2>11. QED BY <2>9, <2>10
<1>12. ASSUME NEW t \in Sessions PROVE RolloutSound(t)'
  <2>1. CASE t = s
    <3> SUFFICES RolloutSound(s)'
      BY <2>1
    <3>1. DOMAIN rollout[s] = 1..(n - 1)
      BY <1>1, <1>4
    <3>2. \A i \in 1..n : i \in DOMAIN rollout[s] \/ i = n
      BY <3>1, <1>1
    <3>3. \A i, j \in 1..n : i < j => i \in DOMAIN rollout[s]
      BY <3>1, <1>1
    <3>4. QED BY <3>2, <3>3, <1>4, <1>8, <1>9, <1>10, <1>11 DEF RolloutSound
  <2>2. CASE t # s
    <3>1. DOMAIN rollout'[t] = DOMAIN rollout[t]
      BY <2>2, <1>3
    <3>2. QED BY <3>1, <1>8, <1>10 DEF RolloutSound
  <2>3. QED BY <2>1, <2>2
<1>13. QED BY <1>6, <1>7, <1>12 DEF ReplayInv

\* What the host adds continues a rollout, unless it repeats its counters in a new turn.
LEMMA ConsumeInv ==
  ASSUME ReplayInv, NEW s \in Sessions, NEW detail \in {"whole", "bare"}, Consume(s, detail)
  PROVE  ReplayInv'
<1>1. PICK turn \in {NewTurn(s)} \cup (IF rollout[s] = << >> THEN {} ELSE {Newest(s).turn}),
           before \in {0} \cup (IF rollout[s] = << >> THEN {} ELSE {Newest(s).total}) :
        /\ before = 0 /\ rollout[s] # << >> => claim[s].fork /\ turn = NewTurn(s)
        /\ rollout' = [rollout EXCEPT ![s] = Append(@,
             [turn |-> turn, total |-> before + 1, detail |-> detail, use |-> NewTurn(s)])]
  BY DEF Consume
<1> DEFINE e == [turn |-> turn, total |-> before + 1, detail |-> detail, use |-> NewTurn(s)]
<1>2. Started(s) /\ Len(rollout[s]) < MaxEvents /\ claim' = claim /\ records' = records
  BY DEF Consume
<1>3. NewTurn(s) = <<s, Len(rollout[s]) + 1>> /\ NewTurn(s) \in Sessions \X Nat
  BY DEF NewTurn, ReplayInv, ReplayType
<1>4. rollout[s] # << >> => Newest(s) \in UsageEvents
  <2>1. rollout[s] \in Seq(UsageEvents)
    BY DEF ReplayInv, ReplayType
  <2> HIDE DEF UsageEvents
  <2>2. rollout[s] # << >> => Len(rollout[s]) \in DOMAIN rollout[s]
    BY <2>1
  <2>3. QED BY <2>1, <2>2 DEF Newest, Last
<1>5. turn \in Sessions \X Nat /\ before \in Nat /\ (rollout[s] # << >> => Newest(s).total \in Nat)
  BY <1>3, <1>4 DEF UsageEvents
<1>6. e \in UsageEvents
  BY <1>3, <1>5 DEF UsageEvents
<1>7. rollout[s] # << >> => before + 1 > Newest(s).total \/ (claim[s].fork /\ turn = NewTurn(s))
  <2>1. rollout[s] # << >> => before = 0 \/ before = Newest(s).total
    OBVIOUS
  <2>2. rollout[s] # << >> /\ before = 0 => claim[s].fork /\ turn = NewTurn(s)
    BY <1>1
  <2>3. QED BY <2>1, <2>2, <1>5
<1>8. Continues(s, e)
  BY <1>1, <1>3, <1>5, <1>6, <1>7 DEF Continues
<1>9. rollout' = [rollout EXCEPT ![s] = Append(@, e)]
  BY <1>1
<1> HIDE DEF e
<1>10. QED BY <1>2, <1>8, <1>9, ContinuesInv

\* Counters repeated in their turn.
LEMMA RepeatInv ==
  ASSUME ReplayInv, ~RepeatsAcross, NEW s \in Sessions, Repeat(s)
  PROVE  ReplayInv'
<1>1. PICK turn \in {Newest(s).turn} : rollout' = [rollout EXCEPT ![s] = Append(@, [Newest(s) EXCEPT !.turn = turn])]
  BY DEF Repeat
<1>2. rollout[s] # << >> /\ Len(rollout[s]) < MaxEvents /\ claim' = claim /\ records' = records
  BY DEF Repeat
<1>3. Started(s)
  BY <1>2 DEF ReplayInv, SessionSound
<1>4. Newest(s) \in UsageEvents /\ Newest(s).total >= 1
  <2>1. rollout[s] \in Seq(UsageEvents)
    BY DEF ReplayInv, ReplayType
  <2>2. Len(rollout[s]) \in DOMAIN rollout[s]
    <3> HIDE DEF UsageEvents
    <3>1. QED BY <1>2, <2>1
  <2>3. EventSound(s, Len(rollout[s]))
    BY <2>2 DEF ReplayInv, RolloutSound
  <2> HIDE DEF UsageEvents
  <2>4. QED BY <2>1, <2>2, <2>3 DEF Newest, Last, EventSound
<1>5. [Newest(s) EXCEPT !.turn = turn] = Newest(s)
  BY <1>4 DEF UsageEvents
<1>6. Continues(s, Newest(s))
  BY <1>2, <1>4 DEF Continues
<1>7. rollout' = [rollout EXCEPT ![s] = Append(@, Newest(s))]
  BY <1>1, <1>5
<1>8. QED BY <1>2, <1>3, <1>6, <1>7, ContinuesInv

\* Evidence that arrives changes no rollout.
LEMMA ArriveInv ==
  ASSUME ReplayInv, NEW s \in Sessions, Arrive(s)
  PROVE  ReplayInv'
<1>1. rollout' = rollout /\ claim' = claim /\ Started(s) /\ records[s] <= Len(rollout[s])
  BY DEF Arrive
<1>2. records' = [records EXCEPT ![s] = @ + 1]
  BY DEF Arrive
<1>3. ReplayType'
  BY <1>1, <1>2 DEF ReplayInv, ReplayType
<1>4. ASSUME NEW t \in Sessions PROVE SessionSound(t)'
  <2>1. SessionSound(t) /\ records[t] \in Nat /\ Len(rollout[t]) \in Nat
    BY DEF ReplayInv, ReplayType
  <2>2. CASE t = s
    BY <1>1, <1>2, <1>3, <2>1, <2>2 DEF SessionSound, Started, ReplayInv, ReplayType
  <2>3. CASE t # s
    BY <1>1, <1>2, <2>1, <2>3 DEF SessionSound, Started, ReplayInv, ReplayType
  <2>4. QED BY <2>2, <2>3
<1>5. ASSUME NEW t \in Sessions PROVE RolloutSound(t)'
  <2>1. RolloutSound(t)
    BY DEF ReplayInv
  <2>2. QED BY <1>1, <2>1 DEF RolloutSound, EventSound, PairSound
<1>6. QED BY <1>3, <1>4, <1>5 DEF ReplayInv

\* The invariant of the sessions and their rollouts is inductive.
LEMMA ReplayNextInv ==
  ASSUME ~RepeatsAcross
  PROVE  ReplayInv /\ [ReplayNext]_replayVars => ReplayInv'
<1> SUFFICES ASSUME ReplayInv, [ReplayNext]_replayVars PROVE ReplayInv'
  OBVIOUS
<1>1. ASSUME NEW s \in Sessions, StartSession(s) PROVE ReplayInv'
  BY <1>1, StartSessionInv
<1>2. ASSUME NEW s \in Sessions, NEW p \in Sessions \ {s}, ForkSession(s, p) PROVE ReplayInv'
  BY <1>2, ForkSessionInv
<1>3. ASSUME NEW s \in Sessions, NEW detail \in {"whole", "bare"}, Consume(s, detail) PROVE ReplayInv'
  BY <1>3, ConsumeInv
<1>4. ASSUME NEW s \in Sessions, Repeat(s) PROVE ReplayInv'
  BY <1>4, RepeatInv
<1>5. ASSUME NEW s \in Sessions, Arrive(s) PROVE ReplayInv'
  BY <1>5, ArriveInv
<1>6. CASE UNCHANGED replayVars
  BY <1>6 DEF replayVars, ReplayInv, ReplayType, SessionSound, RolloutSound, EventSound, PairSound, Started
<1>7. QED BY <1>1, <1>2, <1>3, <1>4, <1>5, <1>6 DEF ReplayNext

-----------------------------------------------------------------------------
(* Codex sessions that fork: what is made of the evidence. *)

\* Whatever holds at 0 and goes on holding, holds up to n.
LEMMA UpTo ==
  ASSUME NEW n \in Nat, NEW S, 0 \in S, \A i \in 1..n : i - 1 \in S => i \in S
  PROVE  0..n \subseteq S
<1> SUFFICES ASSUME {i \in 0..n : i \notin S} # {} PROVE FALSE
  OBVIOUS
<1>1. PICK k \in {i \in 0..n : i \notin S} : \A j \in {i \in 0..n : i \notin S} : k <= j
  <2>1. {i \in 0..n : i \notin S} \in SUBSET Nat
    OBVIOUS
  <2>2. QED BY <2>1, LeastOf
<1>2. k \in 1..n /\ k - 1 \in 0..n /\ k - 1 < k
  BY <1>1
<1>3. k - 1 \in S
  BY <1>1, <1>2
<1>4. QED BY <1>1, <1>2, <1>3

\* What holds of a session once it holds of all that started before, holds of all.
LEMMA OneAfterTheOther ==
  ASSUME NEW S, \A s \in Sessions : (\A t \in Sessions : t < s => t \in S) => s \in S
  PROVE  Sessions \subseteq S
<1> SUFFICES ASSUME {i \in Sessions : i \notin S} # {} PROVE FALSE
  OBVIOUS
<1>1. {i \in Sessions : i \notin S} \in SUBSET Nat
  BY ReplayAssumption
<1>2. PICK k \in {i \in Sessions : i \notin S} : \A j \in {i \in Sessions : i \notin S} : k <= j
  BY <1>1, LeastOf
<1>3. \A t \in Sessions : t < k => t \in S
  BY <1>1, <1>2, ReplayAssumption
<1>4. QED BY <1>2, <1>3

\* What is known before the first event, and how one event follows the other.
Beginning(problem, parental) ==
  [codes |-> << >>, turn |-> << >>, total |-> NothingShown,
   proofs |-> IF problem = "clear" THEN parental ELSE {}]

Chain(f, n, s, problem, parental) ==
  f = [i \in 0..n |-> IF i = 0 THEN Beginning(problem, parental)
                      ELSE Judge(s, problem, parental, f[i - 1], i)]

\* The events can be judged one after the other.
LEMMA ChainExists ==
  ASSUME NEW n \in Nat, NEW s, NEW problem, NEW parental
  PROVE  \E f : Chain(f, n, s, problem, parental)
<1> DEFINE S == {i \in 0..n : \E f : Chain(f, i, s, problem, parental)}
<1>1. 0 \in S
  <2>1. Chain([i \in 0..0 |-> Beginning(problem, parental)], 0, s, problem, parental)
    BY DEF Chain
  <2>2. QED BY <2>1
<1>2. ASSUME NEW m \in 1..n, m - 1 \in S PROVE m \in S
  <2>1. PICK f : Chain(f, m - 1, s, problem, parental)
    BY <1>2
  <2>2. \A i \in 0..(m - 1) : f[i] = IF i = 0 THEN Beginning(problem, parental)
                                   ELSE Judge(s, problem, parental, f[i - 1], i)
    BY <2>1 DEF Chain
  <2> DEFINE g == [i \in 0..m |-> IF i < m THEN f[i] ELSE Judge(s, problem, parental, f[m - 1], m)]
  <2>3. \A i \in 0..(m - 1) : g[i] = f[i]
    OBVIOUS
  <2>4. g[m] = Judge(s, problem, parental, f[m - 1], m)
    OBVIOUS
  <2>5. g = [i \in 0..m |-> g[i]]
    OBVIOUS
  <2> HIDE DEF g
  <2>6. ASSUME NEW i \in 0..m
        PROVE  g[i] = IF i = 0 THEN Beginning(problem, parental)
                      ELSE Judge(s, problem, parental, g[i - 1], i)
    <3>1. CASE i = m
      <4>1. m - 1 \in 0..(m - 1) /\ m # 0
        OBVIOUS
      <4>2. g[m - 1] = f[m - 1]
        BY <4>1, <2>3
      <4>3. QED BY <3>1, <4>1, <4>2, <2>4
    <3>2. CASE i # m /\ i # 0
      <4>1. i \in 0..(m - 1) /\ i - 1 \in 0..(m - 1)
        BY <3>2
      <4>2. g[i] = f[i] /\ g[i - 1] = f[i - 1]
        BY <4>1, <2>3
      <4>3. QED BY <3>2, <4>1, <4>2, <2>2
    <3>3. CASE i # m /\ i = 0
      <4>1. i \in 0..(m - 1)
        BY <3>3
      <4>2. QED BY <3>3, <4>1, <2>2, <2>3
    <3>4. QED BY <3>1, <3>2, <3>3
  <2>7. Chain(g, m, s, problem, parental)
    BY <2>5, <2>6 DEF Chain
  <2>8. QED BY <2>7
<1>3. 0..n \subseteq S
  <2> HIDE DEF S
  <2>1. QED BY <1>1, <1>2, UpTo
<1>4. n \in S
  BY <1>3
<1>5. QED BY <1>4

\* What Judged says of a session, in terms of such a chain.
LEMMA JudgedIs ==
  ASSUME NEW s, NEW problem, NEW parental, HowMany(s) \in Nat
  PROVE  \E f : /\ Chain(f, HowMany(s), s, problem, parental)
                /\ Judged(s, problem, parental) =
                     [problem |-> problem, codes |-> f[HowMany(s)].codes, proofs |-> f[HowMany(s)].proofs]
<1> DEFINE F == CHOOSE f : Chain(f, HowMany(s), s, problem, parental)
<1>1. Chain(F, HowMany(s), s, problem, parental)
  BY ChainExists
<1>2. Judged(s, problem, parental) =
        [problem |-> problem, codes |-> F[HowMany(s)].codes, proofs |-> F[HowMany(s)].proofs]
  BY DEF Judged, Chain, Beginning
<1> HIDE DEF F
<1>3. QED BY <1>1, <1>2

\* What becomes of a session, by what has become of others.
Outcome(f, s) ==
  LET p == claim[s].parent
      known == claim[s].fork /\ HasMetadata(p)
      problem == IF ~claim[s].fork THEN "clear"
                 ELSE IF ~known THEN "missing_parent"
                 ELSE IF f[p].problem # "clear" THEN "unresolved_parent" ELSE "clear"
  IN Judged(s, problem, IF known THEN f[p].proofs ELSE {})

Resolves(f, S) == f = [s \in S |-> Outcome(f, s)]

\* The parent whose evidence a session needs started before it.
LEMMA ParentBefore ==
  ASSUME ReplayInv, NEW s \in Sessions, claim[s].fork, HasMetadata(claim[s].parent)
  PROVE  Started(s) /\ claim[s].parent \in Sessions /\ claim[s].parent < s
BY DEF ReplayInv, SessionSound, HasMetadata

\* Nothing but the outcome of sessions that started before matters.
LEMMA OutcomeOfEarlier ==
  ASSUME ReplayInv, NEW s \in Sessions, NEW f, NEW g, \A t \in Sessions : t < s => f[t] = g[t]
  PROVE  Outcome(f, s) = Outcome(g, s)
<1>1. CASE claim[s].fork /\ HasMetadata(claim[s].parent)
  <2>1. f[claim[s].parent] = g[claim[s].parent]
    BY <1>1, ParentBefore
  <2>2. QED BY <2>1 DEF Outcome
<1>2. CASE ~(claim[s].fork /\ HasMetadata(claim[s].parent))
  BY <1>2 DEF Outcome
<1>3. QED BY <1>1, <1>2

\* Every session is resolved once its parent is.
LEMMA ResolvedIs ==
  ASSUME ReplayInv
  PROVE  \A s \in Sessions : Resolved[s] = Outcome(Resolved, s)
<1> PICK N \in Nat : Sessions = 1..N
  BY ReplayAssumption
<1> DEFINE S == {i \in 0..N : \E f : Resolves(f, 1..i)}
<1>1. 0 \in S
  <2>1. Resolves([s \in 1..0 |-> 0], 1..0)
    BY DEF Resolves
  <2>2. QED BY <2>1
<1>2. ASSUME NEW m \in 1..N, m - 1 \in S PROVE m \in S
  <2>1. PICK f : Resolves(f, 1..(m - 1))
    BY <1>2
  <2>2. \A s \in 1..(m - 1) : f[s] = Outcome(f, s)
    BY <2>1 DEF Resolves
  <2> DEFINE g == [s \in 1..m |-> IF s < m THEN f[s] ELSE Outcome(f, m)]
  <2>3. (\A s \in 1..(m - 1) : g[s] = f[s]) /\ g[m] = Outcome(f, m) /\ g = [s \in 1..m |-> g[s]]
    OBVIOUS
  <2> HIDE DEF g
  <2>4. ASSUME NEW s \in 1..m PROVE g[s] = Outcome(g, s)
    <3>1. s \in Sessions /\ \A t \in Sessions : t < s => f[t] = g[t]
      BY <2>3
    <3>2. Outcome(f, s) = Outcome(g, s)
      BY <3>1, OutcomeOfEarlier
    <3>3. CASE s = m
      BY <3>2, <3>3, <2>3
    <3>4. CASE s # m
      <4>1. s \in 1..(m - 1)
        BY <3>4
      <4>2. QED BY <4>1, <3>2, <2>2, <2>3
    <3>5. QED BY <3>3, <3>4
  <2>5. Resolves(g, 1..m)
    BY <2>3, <2>4 DEF Resolves
  <2>6. QED BY <2>5
<1>3. N \in S
  <2> HIDE DEF S
  <2>1. 0..N \subseteq S
    BY <1>1, <1>2, UpTo
  <2>2. QED BY <2>1
<1>4. \E f : Resolves(f, Sessions)
  BY <1>3
<1>5. Resolved = CHOOSE f : Resolves(f, Sessions)
  BY DEF Resolved, Resolves, Outcome
<1>6. Resolves(Resolved, Sessions)
  BY <1>4, <1>5
<1>7. QED BY <1>6 DEF Resolves

-----------------------------------------------------------------------------
(* One event against what is known before it. *)

Problems == {"clear", "missing_parent", "unresolved_parent"}
Repeated == {"known_duplicate", "stale_snapshot"}
Doubts == {"missing_parent", "unresolved_parent", "unverifiable_snapshot", "ambiguous_parent_fact",
           "uncertain_replay_boundary"}

\* What a session with all its events in sight knows after one of them, which
\* repeats a fact of another session;
IsCopy(s, seen, next, code, e) ==
  /\ code = "known_duplicate" /\ InheritedFacts(seen.proofs, s, e) # {}
  /\ next.turn = seen.turn /\ next.total = seen.total

\* or shows counters that were shown;
IsRepeat(s, seen, next, code, e) ==
  /\ code \in Repeated /\ e.detail = "whole"
  /\ Before(s, seen, e) # NothingShown /\ e.total <= Before(s, seen, e)
  /\ next.turn = e.turn /\ next.total = Before(s, seen, e)

\* or cannot be told from a copy;
IsDoubtful(s, problem, parental, seen, next, code, e) ==
  /\ code \in Doubts
  /\ problem = "clear" /\ e.detail = "whole" =>
       InheritedFacts(seen.proofs, s, e) # {} \/ MayBeCopied(s, parental, e)
  /\ next.turn = e.turn /\ next.total = IF e.detail = "whole" THEN e.total ELSE Before(s, seen, e)

\* or is new.
IsNew(s, problem, parental, seen, next, code, e) ==
  /\ code = "clear" /\ problem = "clear" /\ e.detail = "whole"
  /\ InheritedFacts(seen.proofs, s, e) = {} /\ ~MayBeCopied(s, parental, e)
  /\ Before(s, seen, e) = NothingShown \/ e.total > Before(s, seen, e)
  /\ next.turn = e.turn /\ next.total = e.total

\* The fact an event becomes.
Proof(s, i) == [print |-> Fingerprint(rollout[s][i]), fact |-> <<s, i>>]

Codes == {"clear"} \cup Repeated \cup Doubts

\* What Judge makes of an event.
Verdict(s, problem, parental, seen, i, next, code) ==
  /\ code \in Codes
  /\ next.codes = Append(seen.codes, code)
  /\ next.proofs = seen.proofs \cup (IF code = "clear" THEN {Proof(s, i)} ELSE {})
  /\ \/ IsCopy(s, seen, next, code, rollout[s][i])
     \/ IsRepeat(s, seen, next, code, rollout[s][i])
     \/ IsDoubtful(s, problem, parental, seen, next, code, rollout[s][i])
     \/ IsNew(s, problem, parental, seen, next, code, rollout[s][i])

\* The code of an event that is no copy: its counters were shown, it is in doubt, or it is new.
OwnVerdict(s, problem, parental, seen, code, e) ==
  \/ /\ code \in Repeated /\ e.detail = "whole"
     /\ Before(s, seen, e) # NothingShown /\ e.total <= Before(s, seen, e)
  \/ /\ code \in Doubts
     /\ problem = "clear" /\ e.detail = "whole" =>
          InheritedFacts(seen.proofs, s, e) # {} \/ MayBeCopied(s, parental, e)
  \/ /\ code = "clear" /\ problem = "clear" /\ e.detail = "whole"
     /\ InheritedFacts(seen.proofs, s, e) = {} /\ ~MayBeCopied(s, parental, e)
     /\ Before(s, seen, e) = NothingShown \/ e.total > Before(s, seen, e)

\* OwnCode gives such a code.
LEMMA OwnCodes ==
  ASSUME NEW s, NEW problem \in Problems, NEW parental, NEW seen, NEW e \in UsageEvents, seen.total \in Int
  PROVE  OwnVerdict(s, problem, parental, seen, OwnCode(s, problem, parental, seen, e), e)
<1> DEFINE code == OwnCode(s, problem, parental, seen, e)
           before == Before(s, seen, e)
           compared == e.detail = "whole" /\ before # NothingShown
           inherited == InheritedFacts(seen.proofs, s, e)
           copied == MayBeCopied(s, parental, e)
           late == IF problem # "clear" THEN problem
                   ELSE IF Fingerprint(e) = << >> THEN "unverifiable_snapshot"
                   ELSE IF inherited # {} THEN "ambiguous_parent_fact"
                   ELSE IF copied THEN "uncertain_replay_boundary" ELSE "clear"
<1>1. code = CASE compared /\ e.total = before -> "known_duplicate"
               [] compared /\ e.total < before -> "stale_snapshot"
               [] ~compared \/ e.total > before -> late
  BY DEF OwnCode
<1>2. before \in Int /\ e.total \in Nat /\ e.detail \in {"whole", "bare"}
  BY DEF Before, NothingShown, UsageEvents
<1>3. e.detail = "whole" <=> Fingerprint(e) # << >>
  <2>1. <<e.turn, e.total>> # << >>
    OBVIOUS
  <2>2. QED BY <2>1 DEF Fingerprint
<1>4. \/ late \in Doubts /\ (problem = "clear" /\ e.detail = "whole" => inherited # {} \/ copied)
      \/ late = "clear" /\ problem = "clear" /\ e.detail = "whole" /\ inherited = {} /\ ~copied
  <2> HIDE DEF inherited, copied
  <2>1. QED BY <1>3 DEF Doubts, Problems
<1> HIDE DEF code, before, late, inherited, copied
<1>5. \/ code \in Repeated /\ e.detail = "whole" /\ before # NothingShown /\ e.total <= before
      \/ code = late /\ (e.detail = "whole" => before = NothingShown \/ e.total > before)
  <2>1. CASE compared /\ e.total = before
    BY <2>1, <1>1, <1>2 DEF Repeated
  <2>2. CASE compared /\ e.total < before
    BY <2>2, <1>1, <1>2 DEF Repeated
  <2>3. CASE ~compared \/ e.total > before
    BY <2>3, <1>1, <1>2
  <2>4. QED BY <2>1, <2>2, <2>3, <1>2
<1>6. QED BY <1>4, <1>5 DEF OwnVerdict, code, before, inherited, copied

\* Judge gives a verdict.
LEMMA JudgeIs ==
  ASSUME NEW s, NEW i, NEW problem \in Problems, NEW parental, NEW seen,
         rollout[s][i] \in UsageEvents, seen.total \in Int
  PROVE  \E code \in Codes :
           Verdict(s, problem, parental, seen, i, Judge(s, problem, parental, seen, i), code)
<1> DEFINE e == rollout[s][i]
           inherited == InheritedFacts(seen.proofs, s, e)
           copy == Cardinality(inherited) = 1
           own == OwnCode(s, problem, parental, seen, e)
           code == IF copy THEN "known_duplicate" ELSE own
           before == Before(s, seen, e)
           next == Judge(s, problem, parental, seen, i)
           counted == ~copy /\ e.detail = "whole" /\ code \notin {"known_duplicate", "stale_snapshot"}
<1>1. /\ next.codes = Append(seen.codes, code)
      /\ next.turn = IF copy THEN seen.turn ELSE e.turn
      /\ next.total = IF counted THEN e.total ELSE IF copy THEN seen.total ELSE before
      /\ next.proofs = seen.proofs \cup (IF code = "clear" THEN {Proof(s, i)} ELSE {})
  BY DEF Judge, Proof
<1>2. copy => inherited # {}
  BY FS_EmptySet
<1> HIDE DEF next
<1>3. CASE copy
  <2>1. IsCopy(s, seen, next, code, e)
    BY <1>1, <1>2, <1>3 DEF IsCopy
  <2>2. code \in Codes
    BY <1>3 DEF Codes, Repeated
  <2>3. QED BY <1>1, <2>1, <2>2 DEF Verdict, next
<1>4. CASE ~copy
  <2>1. code = own /\ next.turn = e.turn
    BY <1>1, <1>4
  <2>2. OwnVerdict(s, problem, parental, seen, own, e)
    BY OwnCodes
  <2>3. next.total = IF e.detail = "whole" /\ own \notin Repeated THEN e.total ELSE before
    BY <1>1, <1>4, <2>1 DEF Repeated
  <2> HIDE DEF own, e, inherited, before
  <2>4. own \in Codes
    BY <2>2 DEF OwnVerdict, Codes
  <2>5. own \in Doubts => own \notin Repeated
    BY DEF Doubts, Repeated
  <2>6. own = "clear" => own \notin Repeated
    BY DEF Repeated
  <2>7. \/ IsRepeat(s, seen, next, own, e)
        \/ IsDoubtful(s, problem, parental, seen, next, own, e)
        \/ IsNew(s, problem, parental, seen, next, own, e)
    BY <2>1, <2>2, <2>3, <2>5, <2>6 DEF OwnVerdict, IsRepeat, IsDoubtful, IsNew, before
  <2>8. QED BY <1>1, <2>1, <2>4, <2>7 DEF Verdict, next, e
<1>5. QED BY <1>3, <1>4

-----------------------------------------------------------------------------
(* One session, event after event. *)

\* The facts of the parent a session names, if its evidence is there.
ParentalOf(s) ==
  IF claim[s].fork /\ HasMetadata(claim[s].parent) THEN Resolved[claim[s].parent].proofs ELSE {}

\* The problem of a session: none, unless it forked off one without evidence or with a problem.
LEMMA ProblemIs ==
  ASSUME ReplayInv, NEW s \in Sessions
  PROVE  /\ Resolved[s] = Judged(s, Resolved[s].problem, ParentalOf(s))
         /\ Resolved[s].problem \in Problems
         /\ Resolved[s].problem = "clear" <=>
              (claim[s].fork => /\ HasMetadata(claim[s].parent)
                                /\ Resolved[claim[s].parent].problem = "clear")
<1> DEFINE p == claim[s].parent
           known == claim[s].fork /\ HasMetadata(p)
           problem == IF ~claim[s].fork THEN "clear"
                      ELSE IF ~known THEN "missing_parent"
                      ELSE IF Resolved[p].problem # "clear" THEN "unresolved_parent" ELSE "clear"
<1>1. Resolved[s] = Judged(s, problem, ParentalOf(s))
  BY ResolvedIs DEF Outcome, ParentalOf
<1>2. problem \in Problems /\ (problem = "clear" <=> (claim[s].fork => HasMetadata(p) /\ Resolved[p].problem = "clear"))
  BY DEF Problems
<1> HIDE DEF problem
<1>3. Resolved[s].problem = problem
  BY <1>1 DEF Judged
<1>4. QED BY <1>1, <1>2, <1>3

\* What arrived stands in the rollout.
LEMMA ArrivedIs ==
  ASSUME ReplayInv, NEW s \in Sessions
  PROVE  /\ HowMany(s) \in Nat /\ Arrived(s) = 1..HowMany(s)
         /\ rollout[s] \in Seq(UsageEvents) /\ DOMAIN rollout[s] = 1..Len(rollout[s])
         /\ \A i \in Arrived(s) : /\ i \in DOMAIN rollout[s] /\ rollout[s][i] \in UsageEvents
                                  /\ rollout[s][i].total >= 1 /\ i \in 1..MaxEvents
<1>1. /\ records[s] \in Nat /\ records[s] <= Len(rollout[s]) + 1 /\ s # NoParent
      /\ rollout[s] \in Seq(UsageEvents) /\ Len(rollout[s]) \in Nat /\ Len(rollout[s]) <= MaxEvents
  BY ReplayAssumption DEF ReplayInv, ReplayType, SessionSound
<1>2. HowMany(s) \in Nat /\ HowMany(s) <= Len(rollout[s]) /\ Arrived(s) = 1..HowMany(s)
  BY <1>1 DEF HowMany, HasMetadata, Arrived
<1>3. DOMAIN rollout[s] = 1..Len(rollout[s])
  <2> HIDE DEF UsageEvents
  <2>1. QED BY <1>1
<1>4. ASSUME NEW i \in Arrived(s)
      PROVE  /\ i \in DOMAIN rollout[s] /\ rollout[s][i] \in UsageEvents
             /\ rollout[s][i].total >= 1 /\ i \in 1..MaxEvents
  <2>1. i \in DOMAIN rollout[s] /\ i \in 1..MaxEvents
    BY <1>1, <1>2, <1>3, ReplayAssumption
  <2>2. EventSound(s, i)
    BY <2>1 DEF ReplayInv, RolloutSound
  <2> HIDE DEF UsageEvents
  <2>3. QED BY <1>1, <2>1, <2>2 DEF EventSound
<1>5. QED BY <1>1, <1>2, <1>3, <1>4

\* What is known of a session after each of its events.
History(f, s) ==
  /\ f[0] = Beginning(Resolved[s].problem, ParentalOf(s))
  /\ \A i \in 0..HowMany(s) : f[i].total \in Int
  /\ \A i \in Arrived(s) :
       Verdict(s, Resolved[s].problem, ParentalOf(s), f[i - 1], i, f[i], Resolved[s].codes[i])
  /\ Resolved[s].proofs = f[HowMany(s)].proofs

\* Resolved says, of each session, what its history says.
LEMMA HistoryOf ==
  ASSUME ReplayInv, NEW s \in Sessions
  PROVE  \E f : History(f, s)
<1> DEFINE problem == Resolved[s].problem
           parental == ParentalOf(s)
<1> PICK n \in Nat : n = HowMany(s)
  BY ArrivedIs
<1>1. PICK f : /\ Chain(f, n, s, problem, parental)
               /\ Judged(s, problem, parental) = [problem |-> problem, codes |-> f[n].codes, proofs |-> f[n].proofs]
  BY JudgedIs
<1>2. problem \in Problems /\ Resolved[s].codes = f[n].codes /\ Resolved[s].proofs = f[n].proofs
  BY <1>1, ProblemIs
<1> HIDE DEF problem, parental
<1>3. \A i \in 0..n : f[i] = IF i = 0 THEN Beginning(problem, parental)
                             ELSE Judge(s, problem, parental, f[i - 1], i)
  BY <1>1 DEF Chain
<1>4. f[0] = Beginning(problem, parental) /\ \A i \in 1..n : f[i] = Judge(s, problem, parental, f[i - 1], i)
  BY <1>3
<1>5. ASSUME NEW i \in 1..n, f[i - 1].total \in Int
      PROVE  \E code \in Codes : Verdict(s, problem, parental, f[i - 1], i, f[i], code)
  <2>1. rollout[s][i] \in UsageEvents
    BY ArrivedIs
  <2>2. QED BY <1>2, <1>4, <1>5, <2>1, JudgeIs
<1>6. ASSUME NEW i \in 1..n, f[i - 1].total \in Int PROVE f[i].total \in Int
  <2>1. PICK code \in Codes : Verdict(s, problem, parental, f[i - 1], i, f[i], code)
    BY <1>5, <1>6
  <2>2. rollout[s][i].total \in Int
    <3>1. rollout[s][i] \in UsageEvents
      BY ArrivedIs
    <3>2. QED BY <3>1 DEF UsageEvents
  <2>3. Before(s, f[i - 1], rollout[s][i]) \in Int
    BY <1>6 DEF Before, NothingShown
  <2>4. QED BY <1>6, <2>1, <2>2, <2>3 DEF Verdict, IsCopy, IsRepeat, IsDoubtful, IsNew
<1>7. \A i \in 0..n : f[i].total \in Int
  <2> DEFINE S == {i \in 0..n : f[i].total \in Int}
  <2>1. 0 \in S
    BY <1>4 DEF Beginning, NothingShown
  <2>2. \A i \in 1..n : i - 1 \in S => i \in S
    BY <1>6
  <2> HIDE DEF S
  <2>3. 0..n \subseteq S
    BY <2>1, <2>2, UpTo
  <2>4. QED BY <2>3 DEF S
<1>8. \A i \in 1..n : \E code \in Codes : Verdict(s, problem, parental, f[i - 1], i, f[i], code)
  <2>1. ASSUME NEW i \in 1..n PROVE f[i - 1].total \in Int
    <3>1. i - 1 \in 0..n
      OBVIOUS
    <3>2. QED BY <3>1, <1>7
  <2>2. QED BY <2>1, <1>5
\* A code stays where it was put.
<1> DEFINE Kept(k) == /\ f[k].codes \in Seq(Codes) /\ Len(f[k].codes) = k
                      /\ \A i \in 1..k : f[k].codes[i] = f[i].codes[i]
<1>9. \A k \in 0..n : Kept(k)
  <2> DEFINE S == {k \in 0..n : Kept(k)}
  <2>1. 0 \in S
    <3>1. f[0].codes = << >>
      BY <1>4 DEF Beginning
    <3>2. f[0].codes \in Seq(Codes) /\ Len(f[0].codes) = 0
      <4> HIDE DEF Codes
      <4>1. QED BY <3>1
    <3>3. QED BY <3>2
  <2>2. ASSUME NEW k \in 1..n, k - 1 \in S PROVE k \in S
    <3>1. PICK code \in Codes : f[k].codes = Append(f[k - 1].codes, code)
      BY <1>8 DEF Verdict
    <3>2. Kept(k - 1)
      BY <2>2
    <3>3. f[k].codes \in Seq(Codes) /\ Len(f[k].codes) = k
      <4> HIDE DEF Codes
      <4>1. QED BY <3>1, <3>2
    <3>4. ASSUME NEW i \in 1..(k - 1) PROVE f[k].codes[i] = f[i].codes[i]
      <4> HIDE DEF Codes
      <4>1. f[k].codes[i] = f[k - 1].codes[i]
        BY <3>1, <3>2
      <4>2. QED BY <4>1, <3>2
    <3>5. Kept(k)
      BY <3>3, <3>4
    <3>6. QED BY <3>5
  <2> HIDE DEF S
  <2>3. 0..n \subseteq S
    BY <2>1, <2>2, UpTo
  <2>4. QED BY <2>3 DEF S
<1>10. ASSUME NEW i \in 1..n PROVE Verdict(s, problem, parental, f[i - 1], i, f[i], Resolved[s].codes[i])
  <2>1. PICK code \in Codes : Verdict(s, problem, parental, f[i - 1], i, f[i], code)
    BY <1>8
  <2>2. Kept(n) /\ Kept(i) /\ Kept(i - 1)
    <3>1. n \in 0..n /\ i \in 0..n /\ i - 1 \in 0..n
      OBVIOUS
    <3> HIDE DEF Kept
    <3>2. QED BY <3>1, <1>9
  <2>3. f[n].codes[i] = f[i].codes[i]
    BY <2>2
  <2>4. f[i].codes[i] = code
    <3>1. f[i].codes = Append(f[i - 1].codes, code) /\ f[i - 1].codes \in Seq(Codes) /\ Len(f[i - 1].codes) = i - 1
      BY <2>1, <2>2 DEF Verdict
    <3> HIDE DEF Codes, Kept
    <3>2. QED BY <3>1
  <2>5. QED BY <2>1, <2>3, <2>4, <1>2
<1>11. Arrived(s) = 1..n
  BY ArrivedIs
<1>12. History(f, s)
  BY <1>2, <1>4, <1>7, <1>10, <1>11 DEF History, problem, parental
<1>13. QED BY <1>12

\* A contribution is new.
LEMMA ClearIsNew ==
  ASSUME NEW s, NEW i, NEW problem, NEW parental, NEW seen, NEW next,
         Verdict(s, problem, parental, seen, i, next, "clear")
  PROVE  IsNew(s, problem, parental, seen, next, "clear", rollout[s][i])
BY DEF Verdict, IsCopy, IsRepeat, IsDoubtful, Repeated, Doubts

\* The proofs seen are those a session began with and those of its new events.
LEMMA ProofsSeen ==
  ASSUME ReplayInv, NEW s \in Sessions, NEW f, History(f, s), NEW i \in 0..HowMany(s)
  PROVE  /\ f[0].proofs \subseteq f[i].proofs
         /\ \A k \in 1..i : Resolved[s].codes[k] = "clear" => Proof(s, k) \in f[i].proofs
         /\ \A q \in f[i].proofs :
              q \in f[0].proofs \/ \E k \in 1..i : q = Proof(s, k) /\ Resolved[s].codes[k] = "clear"
<1> DEFINE Kept(k) ==
             /\ f[0].proofs \subseteq f[k].proofs
             /\ \A j \in 1..k : Resolved[s].codes[j] = "clear" => Proof(s, j) \in f[k].proofs
             /\ \A q \in f[k].proofs :
                  q \in f[0].proofs \/ \E j \in 1..k : q = Proof(s, j) /\ Resolved[s].codes[j] = "clear"
           S == {k \in 0..i : Kept(k)}
<1>1. i \in Nat /\ \A k \in 1..i : k \in Arrived(s)
  BY ArrivedIs
<1>2. 0 \in S
  BY <1>1
<1>3. ASSUME NEW k \in 1..i, k - 1 \in S PROVE k \in S
  <2>1. f[k].proofs = f[k - 1].proofs \cup (IF Resolved[s].codes[k] = "clear" THEN {Proof(s, k)} ELSE {})
    BY <1>1 DEF History, Verdict
  <2>2. Kept(k - 1)
    BY <1>3
  <2>3. \A j \in 1..k : j \in 1..(k - 1) \/ j = k
    OBVIOUS
  <2>4. Kept(k)
    BY <2>1, <2>2, <2>3
  <2>5. QED BY <2>4
<1> HIDE DEF S
<1>4. 0..i \subseteq S
  BY <1>1, <1>2, <1>3, UpTo
<1>5. i \in S
  BY <1>1, <1>4
<1>6. QED BY <1>5 DEF S

\* A fact stands for a complete event of its session, one that counts.
Stands(q, s) ==
  \E t \in Sessions : \E j \in Arrived(t) :
    t <= s /\ q = Proof(t, j) /\ Resolved[t].codes[j] = "clear" /\ rollout[t][j].detail = "whole"

\* Facts are of a session or of those it descends from.
LEMMA ProofsStand ==
  ASSUME ReplayInv
  PROVE  \A s \in Sessions : \A q \in Resolved[s].proofs : Stands(q, s)
<1> DEFINE S == {s \in Sessions : \A q \in Resolved[s].proofs : Stands(q, s)}
<1>1. ASSUME NEW s \in Sessions, \A t \in Sessions : t < s => t \in S PROVE s \in S
  <2>1. PICK f : History(f, s)
    BY HistoryOf
  <2>2. HowMany(s) \in 0..HowMany(s) /\ Arrived(s) = 1..HowMany(s)
    BY ArrivedIs
  <2>3. \A q \in Resolved[s].proofs :
          q \in f[0].proofs \/ \E k \in Arrived(s) : q = Proof(s, k) /\ Resolved[s].codes[k] = "clear"
    <3>1. Resolved[s].proofs = f[HowMany(s)].proofs
      BY <2>1 DEF History
    <3>2. QED BY <2>1, <2>2, <3>1, ProofsSeen
  <2>4. ASSUME NEW q \in f[0].proofs PROVE Stands(q, s)
    <3>1. q \in ParentalOf(s)
      BY <2>1 DEF History, Beginning
    <3> DEFINE p == claim[s].parent
    <3>2. claim[s].fork /\ HasMetadata(p) /\ q \in Resolved[p].proofs
      BY <3>1 DEF ParentalOf
    <3>3. p \in Sessions /\ p < s
      BY <3>2, ParentBefore
    <3>4. Stands(q, p)
      BY <3>2, <3>3, <1>1
    <3>5. \A t \in Sessions : t <= p => t <= s
      BY <3>3, ReplayAssumption
    <3>6. QED BY <3>4, <3>5 DEF Stands
  <2>5. ASSUME NEW k \in Arrived(s), Resolved[s].codes[k] = "clear" PROVE Stands(Proof(s, k), s)
    <3>1. Verdict(s, Resolved[s].problem, ParentalOf(s), f[k - 1], k, f[k], "clear")
      BY <2>1, <2>5 DEF History
    <3>2. rollout[s][k].detail = "whole"
      BY <3>1, ClearIsNew DEF IsNew
    <3>3. s <= s
      BY ReplayAssumption
    <3>4. QED BY <2>5, <3>2, <3>3 DEF Stands
  <2>6. QED BY <2>3, <2>4, <2>5
<1> HIDE DEF S
<1>2. Sessions \subseteq S
  BY <1>1, OneAfterTheOther
<1>3. QED BY <1>2 DEF S

\* What is compared with was shown: by a complete event before, of the same turn in a fork.
LEMMA TotalShown ==
  ASSUME ReplayInv, NEW s \in Sessions, NEW f, History(f, s), NEW i \in 0..HowMany(s),
         f[i].total # NothingShown
  PROVE  \E k \in 1..i : /\ rollout[s][k].detail = "whole" /\ rollout[s][k].total = f[i].total
                         /\ claim[s].fork => rollout[s][k].turn = f[i].turn
<1> DEFINE Shown(j) ==
             f[j].total # NothingShown =>
               \E k \in 1..j : /\ rollout[s][k].detail = "whole" /\ rollout[s][k].total = f[j].total
                               /\ claim[s].fork => rollout[s][k].turn = f[j].turn
           S == {j \in 0..i : Shown(j)}
<1>1. i \in Nat /\ \A k \in 1..i : k \in Arrived(s)
  BY ArrivedIs
<1>2. 0 \in S
  BY <1>1 DEF History, Beginning
<1>3. ASSUME NEW j \in 1..i, j - 1 \in S PROVE j \in S
  <2>1. Verdict(s, Resolved[s].problem, ParentalOf(s), f[j - 1], j, f[j], Resolved[s].codes[j])
    BY <1>1 DEF History
  <2>2. Shown(j - 1)
    BY <1>3
  <2>3. j \in 1..j /\ \A k \in 1..(j - 1) : k \in 1..j
    OBVIOUS
  <2>4. \/ f[j].turn = f[j - 1].turn /\ f[j].total = f[j - 1].total
        \/ f[j].turn = rollout[s][j].turn /\ f[j].total = Before(s, f[j - 1], rollout[s][j])
        \/ /\ rollout[s][j].detail = "whole" /\ f[j].turn = rollout[s][j].turn
           /\ f[j].total = rollout[s][j].total
    BY <2>1 DEF Verdict, IsCopy, IsRepeat, IsDoubtful, IsNew
  <2>5. Shown(j)
    <3>1. CASE f[j].turn = f[j - 1].turn /\ f[j].total = f[j - 1].total
      BY <2>2, <2>3, <3>1
    <3>2. CASE f[j].turn = rollout[s][j].turn /\ f[j].total = Before(s, f[j - 1], rollout[s][j])
      BY <2>2, <2>3, <3>2 DEF Before
    <3>3. CASE /\ rollout[s][j].detail = "whole" /\ f[j].turn = rollout[s][j].turn
               /\ f[j].total = rollout[s][j].total
      BY <2>3, <3>3
    <3>4. QED BY <2>4, <3>1, <3>2, <3>3
  <2>6. QED BY <2>5
<1> HIDE DEF S
<1>4. 0..i \subseteq S
  BY <1>1, <1>2, <1>3, UpTo
<1>5. i \in S
  BY <1>1, <1>4
<1>6. QED BY <1>5 DEF S

\* So counters that are not greater repeat those of an event of the same turn.
LEMMA RepeatsOne ==
  ASSUME ReplayInv, NEW s \in Sessions, NEW f, History(f, s), NEW i \in Arrived(s),
         Before(s, f[i - 1], rollout[s][i]) # NothingShown,
         rollout[s][i].total <= Before(s, f[i - 1], rollout[s][i])
  PROVE  \E k \in 1..(i - 1) : /\ rollout[s][k].detail = "whole"
                               /\ rollout[s][k].turn = rollout[s][i].turn
                               /\ rollout[s][k].total = rollout[s][i].total
<1>1. i - 1 \in 0..HowMany(s) /\ i \in Nat
  BY ArrivedIs
<1>2. /\ Before(s, f[i - 1], rollout[s][i]) = f[i - 1].total
      /\ claim[s].fork => rollout[s][i].turn = f[i - 1].turn
  BY DEF Before
<1>3. PICK k \in 1..(i - 1) : /\ rollout[s][k].detail = "whole" /\ rollout[s][k].total = f[i - 1].total
                              /\ claim[s].fork => rollout[s][k].turn = f[i - 1].turn
  BY <1>1, <1>2, TotalShown
<1>4. k \in Arrived(s) /\ k < i /\ k \in DOMAIN rollout[s] /\ i \in DOMAIN rollout[s]
  BY ArrivedIs
<1>5. PairSound(s, k, i) /\ EventSound(s, k) /\ EventSound(s, i)
  BY <1>4 DEF ReplayInv, RolloutSound
<1>6. rollout[s][k].total \in Nat /\ rollout[s][i].total \in Nat
  <2>1. rollout[s][k] \in UsageEvents /\ rollout[s][i] \in UsageEvents
    BY <1>4, ArrivedIs
  <2>2. QED BY <2>1 DEF UsageEvents
<1>7. CASE claim[s].fork
  <2>1. rollout[s][k].turn = rollout[s][i].turn
    BY <1>2, <1>3, <1>7
  <2>2. rollout[s][k].total <= rollout[s][i].total
    BY <2>1, <1>5 DEF PairSound
  <2>3. rollout[s][i].total <= rollout[s][k].total
    BY <1>2, <1>3
  <2>4. QED BY <1>3, <1>6, <2>1, <2>2, <2>3
<1>8. CASE ~claim[s].fork
  <2>1. rollout[s][i].total <= rollout[s][k].total
    BY <1>2, <1>3
  <2>2. rollout[s][k].use = rollout[s][i].use
    BY <1>5, <1>6, <1>8, <2>1 DEF PairSound
  <2>3. rollout[s][k] = rollout[s][i]
    BY <1>5, <2>2 DEF EventSound
  <2>4. QED BY <1>3, <2>3
<1>9. QED BY <1>7, <1>8

\* The turn a fact is of.
TurnOf(q) == rollout[q.fact[1]][q.fact[2]].turn

\* A fact with the counters of an event is of its turn.
LEMMA PrintSaysTurn ==
  ASSUME NEW s, NEW q, Stands(q, s), NEW e, q.print = Fingerprint(e)
  PROVE  e.detail = "whole" /\ TurnOf(q) = e.turn /\ rollout[q.fact[1]][q.fact[2]].total = e.total
<1>0. PICK t \in Sessions : \E j \in Arrived(t) : q = Proof(t, j) /\ rollout[t][j].detail = "whole"
  BY DEF Stands
<1>1. PICK j \in Arrived(t) : q = Proof(t, j) /\ rollout[t][j].detail = "whole"
  BY <1>0
<1>2. q.print = <<rollout[t][j].turn, rollout[t][j].total>> /\ q.fact[1] = t /\ q.fact[2] = j
  BY <1>1 DEF Proof, Fingerprint
<1>3. <<rollout[t][j].turn, rollout[t][j].total>> # << >>
  OBVIOUS
<1>4. Fingerprint(e) = <<e.turn, e.total>> /\ e.detail = "whole"
  BY <1>2, <1>3 DEF Fingerprint
<1>5. <<e.turn, e.total>> = <<rollout[t][j].turn, rollout[t][j].total>>
  BY <1>2, <1>4
<1>6. QED BY <1>2, <1>4, <1>5 DEF TurnOf

\* What is seen of a session stands for events.
LEMMA SeenStands ==
  ASSUME ReplayInv, NEW s \in Sessions, NEW f, History(f, s), NEW i \in 0..HowMany(s)
  PROVE  \A q \in f[i].proofs : Stands(q, s)
<1>1. HowMany(s) \in Nat /\ HowMany(s) \in 0..HowMany(s) /\ Resolved[s].proofs = f[HowMany(s)].proofs
  BY ArrivedIs DEF History
<1>2. f[i].proofs \subseteq f[HowMany(s)].proofs
  <2>1. \A k \in 1..i : k \in 1..HowMany(s)
    BY <1>1
  <2>2. \A q \in f[i].proofs :
          q \in f[0].proofs \/ \E k \in 1..i : q = Proof(s, k) /\ Resolved[s].codes[k] = "clear"
    BY ProofsSeen
  <2>3. /\ f[0].proofs \subseteq f[HowMany(s)].proofs
        /\ \A k \in 1..HowMany(s) : Resolved[s].codes[k] = "clear" => Proof(s, k) \in f[HowMany(s)].proofs
    BY <1>1, ProofsSeen
  <2>4. QED BY <2>1, <2>2, <2>3
<1>3. QED BY <1>1, <1>2, ProofsStand

\* Of each turn of a session without a problem, the facts known of it show one.
LEMMA TurnsProved ==
  ASSUME ReplayInv, NEW s \in Sessions, Resolved[s].problem = "clear",
         NEW j \in Arrived(s), rollout[s][j].detail = "whole"
  PROVE  \E q \in Resolved[s].proofs : TurnOf(q) = rollout[s][j].turn
<1>1. PICK f : History(f, s)
  BY HistoryOf
<1> PICK n \in Nat : n = HowMany(s)
  BY ArrivedIs
<1>2. Arrived(s) = 1..n /\ Resolved[s].proofs = f[n].proofs /\ n \in 0..n
  BY <1>1, ArrivedIs DEF History
<1> DEFINE Proved(i) ==
             \A k \in 1..i : rollout[s][k].detail = "whole" =>
               \E q \in f[i].proofs : TurnOf(q) = rollout[s][k].turn
           S == {i \in 0..n : Proved(i)}
<1>3. 0 \in S
  OBVIOUS
<1>4. ASSUME NEW i \in 1..n, i - 1 \in S PROVE i \in S
  <2> DEFINE e == rollout[s][i]
             seen == f[i - 1]
             code == Resolved[s].codes[i]
  <2>1. /\ Verdict(s, Resolved[s].problem, ParentalOf(s), seen, i, f[i], code)
        /\ i - 1 \in 0..HowMany(s)
    BY <1>1, <1>2 DEF History
  <2>2. seen.proofs \subseteq f[i].proofs /\ (code = "clear" => Proof(s, i) \in f[i].proofs)
    BY <2>1 DEF Verdict
  <2>3. \A q \in seen.proofs : Stands(q, s)
    BY <1>1, <2>1, SeenStands
  <2>4. Proved(i - 1)
    BY <1>4
  <2>5. ParentalOf(s) \subseteq seen.proofs
    <3>1. f[0].proofs \subseteq seen.proofs
      BY <1>1, <2>1, ProofsSeen
    <3>2. f[0].proofs = ParentalOf(s)
      BY <1>1 DEF History, Beginning
    <3>3. QED BY <3>1, <3>2
  <2>6. InheritedFacts(seen.proofs, s, e) # {} => \E q \in seen.proofs : TurnOf(q) = e.turn
    <3>1. ASSUME NEW x \in InheritedFacts(seen.proofs, s, e) PROVE \E q \in seen.proofs : TurnOf(q) = e.turn
      <4>1. PICK q \in seen.proofs : q.print = Fingerprint(e)
        BY DEF InheritedFacts
      <4>2. TurnOf(q) = e.turn
        BY <4>1, <2>3, PrintSaysTurn
      <4>3. QED BY <4>2
    <3>2. QED BY <3>1
  <2>7. MayBeCopied(s, ParentalOf(s), e) => \E q \in seen.proofs : TurnOf(q) = e.turn
    BY <2>5 DEF MayBeCopied, TurnOf
  <2>8. IsRepeat(s, seen, f[i], code, e) => \E q \in seen.proofs : TurnOf(q) = e.turn
    <3>1. ASSUME IsRepeat(s, seen, f[i], code, e) PROVE \E q \in seen.proofs : TurnOf(q) = e.turn
      <4>1. PICK k \in 1..(i - 1) : rollout[s][k].detail = "whole" /\ rollout[s][k].turn = e.turn
        BY <1>1, <1>2, <3>1, RepeatsOne DEF IsRepeat
      <4>2. QED BY <4>1, <2>4
    <3>2. QED BY <3>1
  <2>9. code = "clear" => TurnOf(Proof(s, i)) = e.turn
    BY DEF TurnOf, Proof
  <2> HIDE DEF e, seen, code
  <2>10. e.detail = "whole" => \E q \in f[i].proofs : TurnOf(q) = e.turn
    BY <2>1, <2>2, <2>6, <2>7, <2>8, <2>9 DEF Verdict, IsCopy, IsDoubtful, IsNew, e
  <2>11. \A k \in 1..i : k \in 1..(i - 1) \/ k = i
    OBVIOUS
  <2>12. Proved(i)
    <3>1. ASSUME NEW k \in 1..i, rollout[s][k].detail = "whole"
          PROVE  \E q \in f[i].proofs : TurnOf(q) = rollout[s][k].turn
      <4>1. CASE k = i
        BY <2>10, <3>1, <4>1 DEF e
      <4>2. CASE k \in 1..(i - 1)
        BY <2>2, <2>4, <3>1, <4>2 DEF seen
      <4>3. QED BY <2>11, <4>1, <4>2
    <3>2. QED BY <3>1
  <2>13. QED BY <2>12
<1> HIDE DEF S
<1>5. 0..n \subseteq S
  BY <1>3, <1>4, UpTo
<1>6. n \in S
  BY <1>2, <1>5
<1>7. Proved(n)
  BY <1>6 DEF S
<1>8. QED BY <1>2, <1>7

\* What a fork is credited with, it used itself, if its parent shows what it has copied.
LEMMA OwnUseOnly ==
  ASSUME ReplayInv, Covered, NEW s \in Sessions, NEW i \in Arrived(s), Resolved[s].codes[i] = "clear"
  PROVE  UseOf(<<s, i>>)[1] = s
<1> SUFFICES ASSUME UseOf(<<s, i>>)[1] # s PROVE FALSE
  OBVIOUS
<1> DEFINE e == rollout[s][i]
           p == claim[s].parent
<1>1. PICK f : History(f, s)
  BY HistoryOf
<1>2. IsNew(s, Resolved[s].problem, ParentalOf(s), f[i - 1], f[i], "clear", e)
  <2>1. Verdict(s, Resolved[s].problem, ParentalOf(s), f[i - 1], i, f[i], "clear")
    BY <1>1 DEF History
  <2>2. QED BY <2>1, ClearIsNew
<1>3. Resolved[s].problem = "clear" /\ e.detail = "whole" /\ ~MayBeCopied(s, ParentalOf(s), e)
  BY <1>2 DEF IsNew
<1>4. claim[s].fork /\ EventSound(s, i)
  <2>1. EventSound(s, i)
    BY ArrivedIs DEF ReplayInv, RolloutSound
  <2>2. QED BY <2>1 DEF EventSound, UseOf
<1>5. HasMetadata(p) /\ Resolved[p].problem = "clear"
  BY <1>3, <1>4, ProblemIs
<1>6. p \in Sessions /\ ParentalOf(s) = Resolved[p].proofs
  BY <1>4, <1>5, ParentBefore DEF ParentalOf
<1>7. HasMetadata(s)
  BY ArrivedIs DEF Arrived, HowMany
<1>8. PICK j \in Arrived(p) : \/ rollout[p][j].use = UseOf(<<s, i>>)
                              \/ rollout[p][j].turn = e.turn /\ rollout[p][j].detail = "whole"
  BY <1>5, <1>7 DEF Covered
<1>9. rollout[p][j].turn = e.turn /\ rollout[p][j].detail = "whole"
  <2>1. EventSound(p, j)
    BY <1>6, ArrivedIs DEF ReplayInv, RolloutSound
  <2>2. rollout[p][j].use = e.use => rollout[p][j] = e
    BY <1>4, <2>1 DEF EventSound
  <2>3. QED BY <1>3, <1>8, <2>2 DEF UseOf
<1>10. PICK q \in Resolved[p].proofs : TurnOf(q) = e.turn
  BY <1>5, <1>6, <1>9, TurnsProved
<1>11. MayBeCopied(s, ParentalOf(s), e)
  BY <1>4, <1>6, <1>10 DEF MayBeCopied, TurnOf
<1>12. QED BY <1>3, <1>11

\* Events between two of one use are of that use.
LEMMA SameUseBetween ==
  ASSUME ReplayInv, NEW s \in Sessions, NEW i \in DOMAIN rollout[s], NEW j \in DOMAIN rollout[s], i < j,
         rollout[s][i].use = rollout[s][j].use, NEW k \in i..j
  PROVE  rollout[s][k] = rollout[s][i]
<1>1. DOMAIN rollout[s] = 1..Len(rollout[s]) /\ Len(rollout[s]) \in Nat
  BY ArrivedIs
<1>2. i \in Nat /\ j \in Nat /\ k - i \in 0..(j - i) /\ j - i \in Nat
  BY <1>1
<1> DEFINE S == {m \in 0..(j - i) : rollout[s][i + m].use = rollout[s][i].use}
<1>3. 0 \in S
  BY <1>2
<1>4. ASSUME NEW m \in 1..(j - i), m - 1 \in S PROVE m \in S
  <2> PICK a \in Nat : a = i + (m - 1)
    BY <1>2
  <2>1. a \in DOMAIN rollout[s] /\ a < j /\ a + 1 = i + m
    BY <1>1, <1>2
  <2>2. rollout[s][a].use = rollout[s][j].use
    BY <1>4
  <2>3. PairSound(s, a, j)
    BY <2>1 DEF ReplayInv, RolloutSound
  <2>4. rollout[s][i + m].use = rollout[s][i].use
    BY <2>1, <2>2, <2>3 DEF PairSound
  <2>5. QED BY <2>4
<1> HIDE DEF S
<1>5. 0..(j - i) \subseteq S
  BY <1>2, <1>3, <1>4, UpTo
<1>6. k - i \in S /\ i + (k - i) = k
  BY <1>2, <1>5
<1>7. rollout[s][k].use = rollout[s][i].use
  BY <1>6 DEF S
<1>8. k \in DOMAIN rollout[s]
  BY <1>1, <1>2
<1>9. EventSound(s, k) /\ EventSound(s, i)
  BY <1>8 DEF ReplayInv, RolloutSound
<1>10. QED BY <1>7, <1>9 DEF EventSound

\* In one session, what counts counts once.
LEMMA OnceInASession ==
  ASSUME ReplayInv, NEW s \in Sessions, NEW i \in Arrived(s), NEW j \in Arrived(s), i < j,
         rollout[s][i].use = rollout[s][j].use, Resolved[s].codes[i] = "clear"
  PROVE  Resolved[s].codes[j] # "clear"
<1> DEFINE e == rollout[s][i]
           problem == Resolved[s].problem
           parental == ParentalOf(s)
<1>1. PICK f : History(f, s)
  BY HistoryOf
<1>2. /\ i \in Nat /\ j \in Nat /\ j - i \in Nat /\ i \in DOMAIN rollout[s] /\ j \in DOMAIN rollout[s]
      /\ e.total >= 1 /\ e.total \in Nat /\ Arrived(s) = 1..HowMany(s) /\ HowMany(s) \in Nat
  <2>1. /\ Arrived(s) = 1..HowMany(s) /\ HowMany(s) \in Nat
        /\ i \in DOMAIN rollout[s] /\ j \in DOMAIN rollout[s] /\ e.total >= 1
    BY ArrivedIs
  <2>2. e.total \in Nat
    <3>1. e \in UsageEvents
      BY ArrivedIs
    <3>2. QED BY <3>1 DEF UsageEvents
  <2>3. i \in Nat /\ j \in Nat /\ j - i \in Nat
    BY <2>1
  <2>4. QED BY <2>1, <2>2, <2>3
<1>3. e.detail = "whole" /\ f[i].turn = e.turn /\ f[i].total = e.total
  <2>1. Verdict(s, problem, parental, f[i - 1], i, f[i], "clear")
    BY <1>1 DEF History
  <2>2. IsNew(s, problem, parental, f[i - 1], f[i], "clear", e)
    BY <2>1, ClearIsNew
  <2>3. QED BY <2>2 DEF IsNew
<1>4. ASSUME NEW k \in (i + 1)..j, f[k - 1].turn = e.turn, f[k - 1].total = e.total
      PROVE  Resolved[s].codes[k] # "clear" /\ f[k].turn = e.turn /\ f[k].total = e.total
  <2>1. k \in Arrived(s) /\ k \in i..j
    BY <1>2
  <2>2. rollout[s][k] = e
    BY <1>2, <2>1, SameUseBetween
  <2>3. Before(s, f[k - 1], e) = e.total /\ e.total # NothingShown
    BY <1>2, <1>4 DEF Before, NothingShown
  <2>4. Verdict(s, problem, parental, f[k - 1], k, f[k], Resolved[s].codes[k])
    BY <1>1, <2>1 DEF History
  <2>5. ~IsNew(s, problem, parental, f[k - 1], f[k], Resolved[s].codes[k], e)
    BY <1>2, <2>3 DEF IsNew
  <2>6. Resolved[s].codes[k] # "clear"
    BY <2>2, <2>4, <2>5, ClearIsNew
  <2> HIDE DEF e, problem, parental
  <2>7. QED BY <1>3, <1>4, <2>2, <2>3, <2>4, <2>5, <2>6 DEF Verdict, IsCopy, IsRepeat, IsDoubtful
<1> DEFINE S == {m \in 0..(j - i) : f[i + m].turn = e.turn /\ f[i + m].total = e.total}
<1>5. 0 \in S
  BY <1>2, <1>3
<1>6. ASSUME NEW m \in 1..(j - i), m - 1 \in S PROVE m \in S
  <2> PICK k \in Nat : k = i + m
    BY <1>2
  <2>1. k \in (i + 1)..j /\ i + (m - 1) = k - 1
    BY <1>2
  <2>2. f[k].turn = e.turn /\ f[k].total = e.total
    BY <1>4, <1>6, <2>1
  <2>3. QED BY <2>2
<1> HIDE DEF S
<1>7. 0..(j - i) \subseteq S
  BY <1>2, <1>5, <1>6, UpTo
<1>8. j - i - 1 \in S /\ i + (j - i - 1) = j - 1 /\ j \in (i + 1)..j
  BY <1>2, <1>7
<1>9. f[j - 1].turn = e.turn /\ f[j - 1].total = e.total
  BY <1>8 DEF S
<1>10. QED BY <1>4, <1>8, <1>9

\* What the documentation says of repeated counters (docs/design.md:189) is so where they
\* are repeated within their turn: a session's own rollout never counts a use twice.  That
\* a new turn breaks it, TLC shows.
THEOREM RepeatsInTurnNeverInflate ==
  ASSUME ~RepeatsAcross
  PROVE  ReplaySpec => []RepeatsNeverInflate
<1>1. ReplayInit => ReplayInv
  BY ReplayInitInv
<1>2. ReplayInv /\ [ReplayNext]_replayVars => ReplayInv'
  BY ReplayNextInv
<1>3. ASSUME ReplayInv PROVE RepeatsNeverInflate
  <2> SUFFICES ASSUME NEW f \in Contributions(CodeOf), NEW g \in Contributions(CodeOf),
                      f[1] = g[1], UseOf(f) = UseOf(g)
               PROVE  f = g
    BY DEF RepeatsNeverInflate
  <2>1. ASSUME NEW h \in Contributions(CodeOf)
        PROVE  /\ h[1] \in Sessions /\ h[2] \in Arrived(h[1]) /\ h = <<h[1], h[2]>>
               /\ Resolved[h[1]].codes[h[2]] = "clear" /\ h[2] \in Nat
    BY <1>3, ArrivedIs DEF Contributions, CodeOf, Events
  <2>2. rollout[f[1]][f[2]].use = rollout[g[1]][g[2]].use
    BY DEF UseOf
  <2>3. ~(f[2] < g[2]) /\ ~(g[2] < f[2])
    BY <1>3, <2>1, <2>2, OnceInASession
  <2>4. f[2] = g[2]
    BY <2>1, <2>3
  <2>5. QED BY <2>1, <2>4
<1>4. QED BY <1>1, <1>2, <1>3, PTL DEF ReplaySpec

\* What was consumed once counts once.
LEMMA CopiesCount ==
  ASSUME ReplayInv
  PROVE  CopiesCountOnce
<1> SUFFICES ASSUME Covered, NEW f \in Contributions(CodeOf), NEW g \in Contributions(CodeOf), UseOf(f) = UseOf(g)
             PROVE  f = g
  BY DEF CopiesCountOnce
<1>1. ASSUME NEW h \in Contributions(CodeOf)
      PROVE  /\ h[1] \in Sessions /\ h[2] \in Arrived(h[1]) /\ h = <<h[1], h[2]>>
             /\ Resolved[h[1]].codes[h[2]] = "clear"
  BY DEF Contributions, CodeOf, Events
<1>2. f[1] = g[1]
  <2>1. UseOf(<<f[1], f[2]>>)[1] = f[1] /\ UseOf(<<g[1], g[2]>>)[1] = g[1]
    BY <1>1, OwnUseOnly
  <2>2. QED BY <1>1, <2>1
<1>3. rollout[f[1]][f[2]].use = rollout[g[1]][g[2]].use
  BY DEF UseOf
<1>4. f[2] \in Nat /\ g[2] \in Nat
  BY <1>1, ArrivedIs
<1>5. ~(f[2] < g[2]) /\ ~(g[2] < f[2])
  BY <1>1, <1>2, <1>3, OnceInASession
<1>6. f[2] = g[2]
  BY <1>4, <1>5
<1>7. QED BY <1>1, <1>2, <1>6

\* Where the host repeats counters only within their turn, what was consumed once counts
\* once, however many sessions fork, whatever they copied and in whatever order evidence
\* of them arrives (resolveCodexEvidence).
THEOREM CopiesAreCountedOnce ==
  ASSUME ~RepeatsAcross
  PROVE  ReplaySpec => []CopiesCountOnce
<1>1. ReplayInit => ReplayInv
  BY ReplayInitInv
<1>2. ReplayInv /\ [ReplayNext]_replayVars => ReplayInv'
  BY ReplayNextInv
<1>3. ReplayInv => CopiesCountOnce
  BY CopiesCount
<1>4. QED BY <1>1, <1>2, <1>3, PTL DEF ReplaySpec

\* What is confirmed, and what is estimated.
ConfirmedUses == {UseOf(f) : f \in Contributions(CodeOf)}
EstimatedUses == {UseOf(f) : f \in Estimates(CodeOf)}

\* Every event shows something that was consumed.
LEMMA OriginalIs ==
  ASSUME ReplayInv, NEW t \in Sessions, NEW j \in Arrived(t)
  PROVE  /\ rollout[t][j].use \in Consumed
         /\ rollout[rollout[t][j].use[1]][rollout[t][j].use[2]] = rollout[t][j]
<1> DEFINE u == rollout[t][j].use
<1>1. EventSound(t, j) /\ rollout[t][j] \in UsageEvents
  BY ArrivedIs DEF ReplayInv, RolloutSound
<1>2. u \in Sessions \X Nat /\ u[1] \in Sessions /\ u = <<u[1], u[2]>>
  BY <1>1 DEF UsageEvents
<1>3. u[2] \in 1..Len(rollout[u[1]]) /\ rollout[u[1]][u[2]] = rollout[t][j]
  <2>1. DOMAIN rollout[u[1]] = 1..Len(rollout[u[1]])
    BY <1>2, ArrivedIs
  <2>2. QED BY <1>1, <2>1 DEF EventSound
<1>4. Len(rollout[u[1]]) \in Nat /\ Len(rollout[u[1]]) <= MaxEvents
  BY <1>2 DEF ReplayInv, ReplayType, SessionSound
<1>5. u[2] \in 1..MaxEvents /\ u[2] <= Len(rollout[u[1]])
  BY <1>3, <1>4, ReplayAssumption
<1>6. UseOf(u) = u
  BY <1>3 DEF UseOf
<1> HIDE DEF u
<1>7. u \in Sessions \X (1..MaxEvents)
  BY <1>2, <1>5
<1>8. u \in Consumed
  BY <1>5, <1>6, <1>7 DEF Consumed
<1>9. QED BY <1>3, <1>8 DEF u

\* And counters that can be told apart show what.
LEMMA CountersTell ==
  ASSUME ReplayInv, ToldApart, NEW f \in Consumed, NEW t \in Sessions, NEW j \in Arrived(t),
         rollout[t][j].turn = rollout[f[1]][f[2]].turn, rollout[t][j].total = rollout[f[1]][f[2]].total
  PROVE  rollout[t][j].use = f
BY OriginalIs DEF ToldApart

\* With all evidence there, the events of a consumption arrived.
LEMMA ConsumedArrived ==
  ASSUME ReplayInv, AllArrived, NEW f \in Consumed
  PROVE  /\ f[1] \in Sessions /\ f[2] \in Arrived(f[1]) /\ f = <<f[1], f[2]>> /\ f \in Events
         /\ UseOf(f) = f /\ rollout[f[1]][f[2]].use = f
<1>1. /\ f[1] \in Sessions /\ f[2] \in 1..MaxEvents /\ f = <<f[1], f[2]>> /\ f \in Sessions \X (1..MaxEvents)
      /\ f[2] <= Len(rollout[f[1]]) /\ UseOf(f) = f
  BY DEF Consumed
<1>2. Started(f[1]) /\ Len(rollout[f[1]]) \in Nat /\ f[1] # NoParent
  <2>1. rollout[f[1]] = << >> => Len(rollout[f[1]]) = 0
    OBVIOUS
  <2>2. QED BY <1>1, <2>1, ReplayAssumption DEF ReplayInv, ReplayType, SessionSound
<1>3. records[f[1]] = Len(rollout[f[1]]) + 1
  BY <1>1, <1>2 DEF AllArrived
<1>4. f[2] \in Arrived(f[1])
  BY <1>1, <1>2, <1>3, ReplayAssumption DEF Arrived, HowMany, HasMetadata
<1>5. QED BY <1>1, <1>4 DEF Events, UseOf

\* A fact with the counters of a consumption confirms it.
LEMMA FactConfirms ==
  ASSUME ReplayInv, ToldApart, NEW f \in Consumed, NEW s, NEW q, Stands(q, s),
         q.print = Fingerprint(rollout[f[1]][f[2]])
  PROVE  f \in ConfirmedUses
<1>1. PICK t \in Sessions : \E j \in Arrived(t) : q = Proof(t, j) /\ Resolved[t].codes[j] = "clear"
  BY DEF Stands
<1>2. PICK j \in Arrived(t) : q = Proof(t, j) /\ Resolved[t].codes[j] = "clear"
  BY <1>1
<1>3. /\ rollout[t][j].turn = rollout[f[1]][f[2]].turn
      /\ rollout[t][j].total = rollout[f[1]][f[2]].total
  BY <1>2, PrintSaysTurn DEF Proof, TurnOf
<1>4. UseOf(<<t, j>>) = f
  BY <1>3, CountersTell DEF UseOf
<1>5. <<t, j>> \in Contributions(CodeOf)
  BY <1>2, ArrivedIs DEF Contributions, CodeOf, Events
<1>6. QED BY <1>4, <1>5 DEF ConfirmedUses

\* What was consumed is confirmed, or its event is in doubt.
LEMMA ConsumedIsShown ==
  ASSUME ReplayInv, AllArrived, ToldApart, NEW f \in Consumed
  PROVE  \/ f \in ConfirmedUses
         \/ /\ f \in EstimatedUses
            /\ Resolved[f[1]].problem = "clear" /\ rollout[f[1]][f[2]].detail = "whole" =>
                 MayBeCopied(f[1], ParentalOf(f[1]), rollout[f[1]][f[2]])
<1> PICK s \in Sessions, i \in Nat : s = f[1] /\ i = f[2]
  BY ConsumedArrived, ArrivedIs
<1> DEFINE e == rollout[s][i]
           problem == Resolved[s].problem
           parental == ParentalOf(s)
           code == Resolved[s].codes[i]
<1>1. i \in Arrived(s) /\ f = <<s, i>> /\ f \in Events /\ UseOf(f) = f /\ e.use = f
  BY ConsumedArrived
<1>2. PICK h : History(h, s)
  BY HistoryOf
<1>3. Verdict(s, problem, parental, h[i - 1], i, h[i], code) /\ CodeOf[f] = code /\ DOMAIN CodeOf = Events
  BY <1>1, <1>2 DEF History, CodeOf
<1>4. InheritedFacts(h[i - 1].proofs, s, e) # {} => f \in ConfirmedUses
  <2>1. ASSUME NEW x \in InheritedFacts(h[i - 1].proofs, s, e) PROVE f \in ConfirmedUses
    <3>1. PICK q \in h[i - 1].proofs : q.print = Fingerprint(e)
      BY DEF InheritedFacts
    <3>2. i - 1 \in 0..HowMany(s)
      BY <1>1, ArrivedIs
    <3>3. Stands(q, s)
      BY <1>2, <3>1, <3>2, SeenStands
    <3>4. QED BY <3>1, <3>3, FactConfirms
  <2>2. QED BY <2>1
<1>5. ~IsRepeat(s, h[i - 1], h[i], code, e)
  <2> SUFFICES ASSUME IsRepeat(s, h[i - 1], h[i], code, e) PROVE FALSE
    OBVIOUS
  <2>1. PICK k \in 1..(i - 1) : rollout[s][k].turn = e.turn /\ rollout[s][k].total = e.total
    <3>1. /\ Before(s, h[i - 1], rollout[s][i]) # NothingShown
          /\ rollout[s][i].total <= Before(s, h[i - 1], rollout[s][i])
      BY DEF IsRepeat
    <3>2. \E k \in 1..(i - 1) : /\ rollout[s][k].detail = "whole"
                                /\ rollout[s][k].turn = rollout[s][i].turn
                                /\ rollout[s][k].total = rollout[s][i].total
      <4>1. i \in Arrived(s)
        BY <1>1
      <4> HIDE DEF e, problem, parental, code
      <4>2. QED BY <1>2, <3>1, <4>1, RepeatsOne
    <3>3. QED BY <3>2
  <2>2. k \in Arrived(s) /\ k < i /\ k \in DOMAIN rollout[s] /\ k \in Nat
    <3>1. i \in 1..HowMany(s) /\ HowMany(s) \in Nat /\ Arrived(s) = 1..HowMany(s)
      BY <1>1, ArrivedIs
    <3> HIDE DEF e, problem, parental, code
    <3>2. k \in 1..HowMany(s) /\ k < i /\ k \in Nat
      BY <3>1
    <3>3. k \in DOMAIN rollout[s]
      BY <3>1, <3>2, ArrivedIs
    <3>4. QED BY <3>1, <3>2, <3>3
  <2>3. rollout[s][k].use = f
    BY <2>1, <2>2, CountersTell
  <2>4. EventSound(s, k)
    BY <2>2 DEF ReplayInv, RolloutSound
  <2>5. i <= k
    BY <1>1, <2>3, <2>4 DEF EventSound
  <2>6. QED BY <2>2, <2>5
<1>6. code = "clear" => f \in ConfirmedUses
  BY <1>1, <1>3 DEF ConfirmedUses, Contributions
<1>7. code \in Doubts => f \in EstimatedUses
  <2>1. code \in Doubts => code \notin {"clear", "known_duplicate", "stale_snapshot"}
    BY DEF Doubts
  <2>2. QED BY <1>1, <1>3, <2>1 DEF EstimatedUses, Estimates
<1> HIDE DEF e, problem, parental, code
<1>8. \/ IsCopy(s, h[i - 1], h[i], code, e)
      \/ IsDoubtful(s, problem, parental, h[i - 1], h[i], code, e)
      \/ IsNew(s, problem, parental, h[i - 1], h[i], code, e)
  BY <1>3, <1>5 DEF Verdict, e
<1>9. \/ f \in ConfirmedUses
      \/ /\ f \in EstimatedUses
         /\ problem = "clear" /\ e.detail = "whole" => MayBeCopied(s, parental, e)
  BY <1>4, <1>6, <1>7, <1>8 DEF IsCopy, IsDoubtful, IsNew
<1>10. QED BY <1>9 DEF e, problem, parental

\* Where all evidence is there and every session can be traced, none has a problem.
LEMMA TracedIsClear ==
  ASSUME ReplayInv, AllArrived, \A s \in Sessions : Traceable(s)
  PROVE  \A s \in Sessions : Resolved[s].problem = "clear"
<1> DEFINE S == {s \in Sessions : Resolved[s].problem = "clear"}
<1>1. ASSUME NEW s \in Sessions, \A t \in Sessions : t < s => t \in S PROVE s \in S
  <2> DEFINE p == claim[s].parent
  <2>1. ASSUME claim[s].fork PROVE HasMetadata(p) /\ Resolved[p].problem = "clear"
    <3>1. Started(s) /\ p # NoParent
      BY <2>1 DEF ReplayInv, SessionSound, Traceable
    <3>2. p \in Sessions /\ p < s /\ Started(p)
      BY <3>1 DEF ReplayInv, SessionSound
    <3>3. records[p] = Len(rollout[p]) + 1 /\ Len(rollout[p]) \in Nat
      BY <3>2 DEF AllArrived, ReplayInv, ReplayType
    <3>4. HasMetadata(p)
      BY <3>1, <3>3 DEF HasMetadata
    <3>5. QED BY <1>1, <3>2, <3>4
  <2>2. QED BY <2>1, ProblemIs
<1> HIDE DEF S
<1>2. Sessions \subseteq S
  BY <1>1, OneAfterTheOther
<1>3. QED BY <1>2 DEF S

\* A turn of its own is in no ancestor's rollout.
LEMMA OwnTurnIsNew ==
  ASSUME ReplayInv, NEW s \in Sessions, NEW e, e.turn[1] = s
  PROVE  ~MayBeCopied(s, ParentalOf(s), e)
<1> SUFFICES ASSUME MayBeCopied(s, ParentalOf(s), e) PROVE FALSE
  OBVIOUS
<1> DEFINE p == claim[s].parent
<1>1. PICK q \in ParentalOf(s) : TurnOf(q) = e.turn
  BY DEF MayBeCopied, TurnOf
<1>2. claim[s].fork /\ HasMetadata(p) /\ q \in Resolved[p].proofs
  BY <1>1 DEF ParentalOf
<1>3. p \in Sessions /\ p < s
  BY <1>2, ParentBefore
<1>4. PICK t \in Sessions : \E j \in Arrived(t) : t <= p /\ q = Proof(t, j)
  BY <1>2, <1>3, ProofsStand DEF Stands
<1>5. PICK j \in Arrived(t) : t <= p /\ q = Proof(t, j)
  BY <1>4
<1>6. EventSound(t, j) /\ rollout[t][j].turn = e.turn
  BY <1>1, <1>5, ArrivedIs DEF ReplayInv, RolloutSound, TurnOf, Proof
<1>7. s <= t
  BY <1>6 DEF EventSound
<1>8. QED BY <1>3, <1>5, <1>7, ReplayAssumption

\* With all evidence there, what was consumed is accounted for.
LEMMA NothingIsForgotten ==
  ASSUME ReplayInv
  PROVE  NothingForgotten
<1> SUFFICES ASSUME AllArrived, ToldApart
             PROVE  /\ Consumed \subseteq ConfirmedUses \cup EstimatedUses
                    /\ (\A s \in Sessions : Traceable(s))
                         /\ ~(\E f \in Consumed : rollout[f[1]][f[2]].turn[1] # f[1]) => Consumed \subseteq ConfirmedUses
  BY DEF NothingForgotten, ConfirmedUses, EstimatedUses
<1>1. Consumed \subseteq ConfirmedUses \cup EstimatedUses
  BY ConsumedIsShown
<1>2. ASSUME \A s \in Sessions : Traceable(s), ~(\E f \in Consumed : rollout[f[1]][f[2]].turn[1] # f[1]),
             NEW f \in Consumed
      PROVE  f \in ConfirmedUses
  <2>1. f[1] \in Sessions /\ f[2] \in Arrived(f[1])
    BY ConsumedArrived
  <2>2. rollout[f[1]][f[2]].detail = "whole"
    BY <1>2, <2>1, ArrivedIs DEF Traceable
  <2>3. Resolved[f[1]].problem = "clear"
    BY <1>2, <2>1, TracedIsClear
  <2>4. ~MayBeCopied(f[1], ParentalOf(f[1]), rollout[f[1]][f[2]])
    BY <1>2, <2>1, OwnTurnIsNew
  <2>5. QED BY <2>2, <2>3, <2>4, ConsumedIsShown
<1>3. QED BY <1>1, <1>2

\* Where the host repeats counters only within their turn and all evidence has arrived,
\* what was consumed is confirmed or estimated, and confirmed where every session can be
\* traced (resolveCodexEvidence).
THEOREM NothingIsForgottenEver ==
  ASSUME ~RepeatsAcross
  PROVE  ReplaySpec => []NothingForgotten
<1>1. ReplayInit => ReplayInv
  BY ReplayInitInv
<1>2. ReplayInv /\ [ReplayNext]_replayVars => ReplayInv'
  BY ReplayNextInv
<1>3. ReplayInv => NothingForgotten
  BY NothingIsForgotten
<1>4. QED BY <1>1, <1>2, <1>3, PTL DEF ReplaySpec

=============================================================================
