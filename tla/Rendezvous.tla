----------------------------- MODULE Rendezvous -----------------------------
(***************************************************************************)
(* Handing a session to the desktop application: the command listens on a  *)
(* private socket, has the OS open a link that names it, sends the request *)
(* to whoever connects, and waits for the window's acknowledgement         *)
(* (core/desktoplaunch).  The application owns one window and one backend  *)
(* session per request: workers connect, the GUI thread shows              *)
(* (packages/desktop).  The OS may deliver a link late, twice or never.    *)
(***************************************************************************)
EXTENDS Naturals, FiniteSets

CONSTANTS
  Requests,         \* commands that hand a session over
  MaxQuits          \* bound on the application quitting

ASSUME RendezvousAssumption == MaxQuits \in Nat

VARIABLES
  cli,              \* the command: new, listening, opened, sent, ok or failed
  links,            \* links the OS may deliver
  socket,           \* none, dialed, accepted, specified (the request is in it), ready, rejected or closed
  window,           \* what the application does for a request
  session,          \* its backend session: none, live, lost or released
  taken,           \* links this application process has taken
  queued,           \* closures for the GUI thread: finish, or the notice of a lost backend
  held,             \* history: requests whose window has shown a live session
  quits

rendezvousVars == <<cli, links, socket, window, session, taken, queued, held, quits>>

Put(f, r, v) == [f EXCEPT ![r] = v]

-----------------------------------------------------------------------------
(* launch *)

Listen(r) ==
  /\ cli[r] = "new"
  /\ cli' = Put(cli, r, "listening")
  /\ UNCHANGED <<links, socket, window, session, taken, queued, held, quits>>

OpenLink(r) ==
  /\ cli[r] = "listening"
  /\ \/ cli' = Put(cli, r, "opened") /\ links' = links \cup {r}
     \/ cli' = Put(cli, r, "failed") /\ UNCHANGED links
  /\ UNCHANGED <<socket, window, session, taken, queued, held, quits>>

AcceptAndSend(r) ==
  /\ cli[r] = "opened" /\ socket[r] = "dialed"
  /\ cli' = Put(cli, r, "sent") /\ socket' = Put(socket, r, "specified")
  /\ UNCHANGED <<links, window, session, taken, queued, held, quits>>

\* Anything but a ready acknowledgement is a failure.
ReadAcknowledgement(r) ==
  /\ cli[r] = "sent" /\ socket[r] \in {"ready", "rejected", "closed"}
  /\ cli' = Put(cli, r, IF socket[r] = "ready" THEN "ok" ELSE "failed")
  /\ UNCHANGED <<links, socket, window, session, taken, queued, held, quits>>

\* acknowledgementTimeout: the listener and the connection close, even over an
\* acknowledgement that has just arrived.
GiveUp(r) ==
  /\ cli[r] \in {"opened", "sent"}
  /\ cli' = Put(cli, r, "failed") /\ socket' = Put(socket, r, "closed")
  /\ UNCHANGED <<links, window, session, taken, queued, held, quits>>

-----------------------------------------------------------------------------
(* The application's workers *)

\* OnOpenURL, OnSecondInstance: viewer.open takes a link once; a link starts the
\* application when it does not run.
Deliver(r) ==
  /\ r \in links
  /\ taken' = taken \cup {r}
  /\ window' = IF r \in taken THEN window ELSE Put(window, r, "dialing")
  /\ \/ links' = links \ {r} \/ UNCHANGED links
  /\ UNCHANGED <<cli, socket, session, queued, held, quits>>

\* Receive: a socket that is gone, or in use, has nothing to give.
Dial(r) ==
  /\ window[r] = "dialing"
  /\ IF cli[r] = "opened" /\ socket[r] = "none"
     THEN socket' = Put(socket, r, "dialed") /\ window' = Put(window, r, "receiving")
     ELSE window' = Put(window, r, "failed") /\ UNCHANGED socket
  /\ UNCHANGED <<cli, links, session, taken, queued, held, quits>>

\* The request, or the end of the connection, or no request in time.
Receive(r) ==
  /\ window[r] = "receiving"
  /\ \/ /\ socket[r] = "specified"
        /\ window' = Put(window, r, "connecting") /\ UNCHANGED socket
     \/ window' = Put(window, r, "failed") /\ socket' = Put(socket, r, "closed")
  /\ UNCHANGED <<cli, links, session, taken, queued, held, quits>>

\* Handoff.reply; an answer cannot reach a command that has gone.
Replied(r, answer) == IF socket[r] = "closed" THEN "closed" ELSE answer

\* Mutant: the command is told as soon as the backend is connected.
ConnectAcknowledges(r) ==
  /\ window[r] = "connecting"
  /\ \/ /\ session' = Put(session, r, "live") /\ window' = Put(window, r, "connected")
        /\ queued' = queued \cup {<<r, "finish">>} /\ socket' = Put(socket, r, Replied(r, "ready"))
     \/ /\ window' = Put(window, r, "failed") /\ socket' = Put(socket, r, Replied(r, "rejected"))
        /\ UNCHANGED <<session, queued>>
  /\ UNCHANGED <<cli, links, taken, held, quits>>

\* connectDashboard: a failure rejects the handoff.
ConnectDashboard(r) ==
  /\ window[r] = "connecting"
  /\ \/ /\ session' = Put(session, r, "live") /\ window' = Put(window, r, "connected")
        /\ queued' = queued \cup {<<r, "finish">>} /\ UNCHANGED socket
     \/ /\ window' = Put(window, r, "failed") /\ socket' = Put(socket, r, Replied(r, "rejected"))
        /\ UNCHANGED <<session, queued>>
  /\ UNCHANGED <<cli, links, taken, held, quits>>

BackendLost(r) ==
  /\ session[r] = "live"
  /\ session' = Put(session, r, "lost")
  /\ queued' = IF window[r] = "shown" THEN queued \cup {<<r, "lost">>} ELSE queued
  /\ UNCHANGED <<cli, links, socket, window, taken, held, quits>>

-----------------------------------------------------------------------------
(* The GUI thread *)

\* Window.Close runs OnClosed, which releases the session.
Released(r) == Put(session, r, "released")

\* finish, show: the window opens and acknowledges a session that still lives, to
\* a command that still listens; otherwise it closes again, which rejects.
Show(r) ==
  /\ <<r, "finish">> \in queued /\ queued' = queued \ {<<r, "finish">>}
  /\ IF session[r] = "live" /\ socket[r] # "closed"
     THEN /\ window' = Put(window, r, "shown") /\ held' = held \cup {r}
          /\ socket' = Put(socket, r, "ready") /\ UNCHANGED session
     ELSE /\ window' = Put(window, r, "failed") /\ session' = Released(r) /\ UNCHANGED held
          /\ socket' = Put(socket, r, Replied(r, "rejected"))
  /\ UNCHANGED <<cli, links, taken, quits>>

CloseWindow(r) ==
  /\ window[r] = "shown"
  /\ window' = Put(window, r, "closed") /\ session' = Released(r)
  /\ queued' = queued \ {<<r, "lost">>}
  /\ UNCHANGED <<cli, links, socket, taken, held, quits>>

ShowLost(r) ==
  /\ <<r, "lost">> \in queued
  /\ queued' = queued \ {<<r, "lost">>}
  /\ window' = Put(window, r, "closed") /\ session' = Released(r)
  /\ UNCHANGED <<cli, links, socket, taken, held, quits>>

\* The loop ends; close cancels and joins the workers, and the process exits.
\* What it had connected goes with it, and so does what it remembered.
Quit ==
  /\ quits < MaxQuits /\ taken # {}
  /\ quits' = quits + 1 /\ taken' = {} /\ queued' = {}
  /\ session' = [r \in Requests |-> IF session[r] = "none" THEN "none" ELSE "released"]
  /\ socket' = [r \in Requests |->
       IF socket[r] \in {"dialed", "specified"} THEN "closed" ELSE socket[r]]
  /\ window' = [r \in Requests |->
       CASE window[r] = "none" -> "none"  [] window[r] = "shown" -> "closed"  [] OTHER -> "failed"]
  /\ UNCHANGED <<cli, links, held>>

-----------------------------------------------------------------------------
RendezvousInit ==
  /\ cli = [r \in Requests |-> "new"] /\ socket = [r \in Requests |-> "none"]
  /\ window = [r \in Requests |-> "none"] /\ session = [r \in Requests |-> "none"]
  /\ links = {} /\ taken = {} /\ queued = {} /\ held = {} /\ quits = 0

RendezvousNext ==
  \/ \E r \in Requests :
       \/ Listen(r) \/ OpenLink(r) \/ AcceptAndSend(r) \/ ReadAcknowledgement(r) \/ GiveUp(r)
       \/ Deliver(r) \/ Dial(r) \/ Receive(r) \/ ConnectDashboard(r) \/ BackendLost(r)
       \/ Show(r) \/ CloseWindow(r) \/ ShowLost(r)
  \/ Quit

RendezvousSpec == RendezvousInit /\ [][RendezvousNext]_rendezvousVars

-----------------------------------------------------------------------------
\* The command returns only after its own window held the live session it asked
\* for (rendezvous.go:32), and a live session has a window, or one the GUI thread is
\* about to open (viewer.show, viewer.release), whatever was delivered twice, lost or
\* timed out.  The converse is not promised: a launcher that gives up while the
\* acknowledgement arrives reports a failure, and the window stays.
HandoffAgrees ==
  \A r \in Requests :
    /\ cli[r] = "ok" => r \in held
    /\ session[r] = "live" => window[r] = "shown" \/ <<r, "finish">> \in queued
=============================================================================
