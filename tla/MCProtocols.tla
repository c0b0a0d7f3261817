---------------------------- MODULE MCProtocols ----------------------------
(***************************************************************************)
(* Small instances of seven protocols and two algorithms that share no     *)
(* state, each explored on its own: `part` names the one that runs, and    *)
(* the others stay as they began.                                          *)
(***************************************************************************)
EXTENDS StorageReset, Rendezvous, Drawer, CollectorProgress, CodexReplay,
        NativeUsage, NativeMessages, RemoteAccess, RowWindow, TLC

CONSTANTS
  c1, c2, c3, s1, s2,             \* commands and the token databases they use
  w1, w2,                         \* a dashboard over SSH, and one over TCP
  first, second                   \* a collection that finds sources and sends a batch, one of neither

VARIABLE part

allVars == <<resetVars, rendezvousVars, drawerVars, progressVars, replayVars, usage,
             messageVars, remoteVars, windowVars, part>>

TwoOfOne == c1 :> s1 @@ c2 :> s2 @@ c3 :> s1
TwoOrThree == [p \in Menus |-> [t \in Tabs |-> IF p = "sort" /\ t = "repo" THEN 3 ELSE 2]]

MCSources == [a \in Attempts |-> IF a = first THEN 2 ELSE 0]
MCBatches == [a \in Attempts |-> IF a = first THEN 1 ELSE 0]

MCCounts == {-1, 0, 2}

SshAndTcp == w1 :> "ssh" @@ w2 :> "tcp"

MCInit ==
  /\ part \in {"reset", "handoff", "drawer", "progress", "replay", "usage", "message",
               "remote", "window"}
  /\ IF part = "usage" THEN NativeInit ELSE usage = NoUsage
  /\ ResetInit /\ RendezvousInit /\ DrawerInit /\ ProgressInit /\ ReplayInit /\ RemoteInit
  /\ NativeMessageInit /\ (part # "message" => message.harness = "pi")
  /\ RowWindowInit /\ (part # "window" => activeTab = "models")
  /\ part # "reset" => \A r \in Stores : files[r]["live"].wal = 0

MCNext ==
  /\ UNCHANGED <<usage, part>>
  /\ IF part = "reset" THEN ResetNext ELSE UNCHANGED resetVars
  /\ IF part = "handoff" THEN RendezvousNext ELSE UNCHANGED rendezvousVars
  /\ IF part = "drawer" THEN DrawerNext ELSE UNCHANGED drawerVars
  /\ IF part = "progress" THEN ProgressNext ELSE UNCHANGED progressVars
  /\ IF part = "replay" THEN ReplayNext ELSE UNCHANGED replayVars
  /\ IF part = "message" THEN NativeMessageNext ELSE UNCHANGED messageVars
  /\ IF part = "remote" THEN RemoteNext ELSE UNCHANGED remoteVars
  /\ IF part = "window" THEN RowWindowNext ELSE UNCHANGED windowVars

MCSpec == MCInit /\ [][MCNext]_allVars
=============================================================================
