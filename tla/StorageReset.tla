---------------------------- MODULE StorageReset ----------------------------
(***************************************************************************)
(* Resetting databases an older release wrote                              *)
(* (src/packages/core/localstorage and cli/local_storage.go): a command    *)
(* that starts a backend inspects its two databases, asks, and moves what  *)
(* was older aside, file by file, under the locks the owner of each        *)
(* database uses.  Commands of different token databases share the         *)
(* collector database.  -shm moves like -wal and is left out.              *)
(***************************************************************************)
EXTENDS Naturals, Sequences, FiniteSets

CONSTANTS
  Commands,
  Servers,          \* the token databases
  Collector,        \* the collector database
  ServerOf,         \* the token database of each command
  NoOne,
  MaxCrashes        \* bound on commands that die or fail half-way

Stores == {Collector} \cup Servers

ASSUME ResetAssumption ==
  /\ ServerOf \in [Commands -> Servers]
  /\ Collector \notin Servers /\ NoOne \notin Commands /\ MaxCrashes \in Nat
  /\ Commands \cap {"live", "bak", "none"} = {}

\* The store's own name, its backup's, and that with the time of the command.
Places == {"live", "bak"} \cup Commands

VARIABLES
  files,            \* by store and place: the database whose file and whose WAL are there, or 0
  startup,          \* holder of the startup lock, by token database
  writer,           \* holder of the writer lock: of the collector, or .service.op
  owner,            \* the backend that owns a token database
  command,          \* where a command is, its report, and the move it is at
  created,          \* databases created in each store
  wrong,            \* auxiliary: what was moved though it was not older
  crashes

resetVars == <<files, startup, writer, owner, command, created, wrong, crashes>>

\* Database 1 of a store was written by the older release.
Older(id) == id = 1

-----------------------------------------------------------------------------
\* writerlock.Acquire of the startup lock, held until the command has its backend.
StartupFree(s) == startup[s] = NoOne

\* ConnectPrepared: attach to an owner, or inspect both stores while no owner runs.
Launch(c) ==
  LET s == ServerOf[c] IN
  /\ command[c].at = "new" /\ StartupFree(s)
  /\ IF owner[s] # NoOne
     THEN command' = [command EXCEPT ![c].at = "attached"] /\ UNCHANGED startup
     ELSE /\ startup' = [startup EXCEPT ![s] = c]
          /\ LET older == {r \in {Collector, s} : Older(files[r]["live"].main)} IN
             command' = [command EXCEPT ![c].at = IF older = {} THEN "start" ELSE "asking", ![c].reset = older]
  /\ UNCHANGED <<files, writer, owner, created, wrong, crashes>>

Release(c) ==
  /\ startup' = [s \in Servers |-> IF startup[s] = c THEN NoOne ELSE startup[s]]
  /\ writer' = [r \in Stores |-> IF writer[r] = c THEN NoOne ELSE writer[r]]

Stops(c, how) ==
  /\ command' = [command EXCEPT ![c].at = how, ![c].reset = {}, ![c].target = "live"]
  /\ Release(c)

\* prepareStorage: the answer may take any time.
Confirm(c) ==
  /\ command[c].at = "asking"
  /\ command' = [command EXCEPT ![c].at = "locking"]
  /\ UNCHANGED <<files, startup, writer, owner, created, wrong, crashes>>

Decline(c) ==
  /\ command[c].at = "asking"
  /\ Stops(c, "declined")
  /\ UNCHANGED <<files, owner, created, wrong, crashes>>

\* The stores reset in the order of the report.
NextStore(c) == IF Collector \in command[c].reset THEN Collector ELSE ServerOf[c]

\* available, or "none".
Available(r, c) ==
  LET free == {p \in {"bak", c} : files[r][p] = [main |-> 0, wal |-> 0]} IN
  IF "bak" \in free THEN "bak" ELSE IF c \in free THEN c ELSE "none"

\* locked, resetServer, and the name the files will have.
Lock(c) ==
  LET r == NextStore(c) IN
  /\ command[c].at = "locking" /\ writer[r] = NoOne
  /\ UNCHANGED <<files, owner, created, wrong, crashes>>
  /\ IF (r \in Servers /\ owner[r] # NoOne) \/ Available(r, c) = "none"
     THEN Stops(c, "failed")
     ELSE /\ writer' = [writer EXCEPT ![r] = c]
          /\ command' = [command EXCEPT ![c].at = "moving", ![c].target = Available(r, c), ![c].file = 1]
          /\ UNCHANGED startup

\* writerlock.Acquire gives up.
LockTimesOut(c) ==
  /\ command[c].at = "locking" /\ writer[NextStore(c)] # NoOne
  /\ Stops(c, "failed")
  /\ UNCHANGED <<files, owner, created, wrong, crashes>>

\* Mutant: the database moves before its companion.
MainFirst == <<"main", "wal">>

Companions == <<"wal", "main">>

\* moveAside: one os.Rename, of a file that is there.
MoveFile(c) ==
  LET r == NextStore(c)
      f == Companions[command[c].file]
      from == files[r]["live"]
      target == command[c].target
  IN
  /\ command[c].at = "moving"
  /\ files' = IF from[f] = 0 THEN files
              ELSE [files EXCEPT ![r] = [@ EXCEPT !["live"][f] = 0, ![target][f] = from[f]]]
  /\ wrong' = IF f = "main" /\ from.main # 0 /\ ~Older(from.main) THEN wrong \cup {<<r, from.main>>} ELSE wrong
  /\ IF command[c].file < Len(Companions)
     THEN command' = [command EXCEPT ![c].file = @ + 1] /\ UNCHANGED writer
     ELSE LET left == command[c].reset \ {r} IN
          /\ writer' = [writer EXCEPT ![r] = NoOne]
          /\ command' = [command EXCEPT ![c].reset = left, ![c].target = "live", ![c].file = 1,
                                        ![c].at = IF left = {} THEN "start" ELSE "locking"]
  /\ UNCHANGED <<startup, owner, created, crashes>>

\* A rename fails, or the process dies: what was moved stays moved.
Dies(c) ==
  /\ command[c].at \in {"asking", "locking", "moving"} /\ crashes < MaxCrashes
  /\ Stops(c, "failed") /\ crashes' = crashes + 1
  /\ UNCHANGED <<files, owner, created, wrong>>

-----------------------------------------------------------------------------
(* The backends *)

\* SQLite opens what is there, with its WAL, or creates a database, which takes
\* a WAL it finds for its own.
Opened(r) ==
  LET live == files[r]["live"]
      id == IF live.main = 0 THEN created[r] + 1 ELSE live.main
  IN [files EXCEPT ![r]["live"] = [main |-> id, wal |-> IF live.wal = 0 THEN id ELSE live.wal]]

Create(r) == created' = [created EXCEPT ![r] = IF files[r]["live"].main = 0 THEN @ + 1 ELSE @]

\* The command starts the backend, which opens the token database or refuses one
\* that is older.
StartBackend(c) ==
  LET s == ServerOf[c] IN
  /\ command[c].at = "start" /\ writer[s] = NoOne
  /\ IF Older(files[s]["live"].main) \/ owner[s] # NoOne
     THEN Stops(c, "failed") /\ UNCHANGED <<files, owner, created>>
     ELSE /\ Stops(c, "attached") /\ owner' = [owner EXCEPT ![s] = c]
          /\ files' = Opened(s) /\ Create(s)
  /\ UNCHANGED <<wrong, crashes>>

\* A capture opens the collector database under its writer lock, and closes it:
\* the last connection removes the WAL.
Capture(s) ==
  /\ owner[s] # NoOne /\ writer[Collector] = NoOne
  /\ ~Older(files[Collector]["live"].main)
  /\ Create(Collector)
  /\ \E wal \in BOOLEAN :       \* the process may die over it
       files' = IF wal THEN Opened(Collector)
                ELSE [Opened(Collector) EXCEPT ![Collector]["live"].wal =
                        IF files[Collector]["live"].wal \notin {0, Opened(Collector)[Collector]["live"].main}
                        THEN @ ELSE 0]
  /\ UNCHANGED <<startup, writer, owner, command, wrong, crashes>>

BackendEnds(s) ==
  /\ owner[s] # NoOne
  /\ owner' = [owner EXCEPT ![s] = NoOne]
  /\ \E wal \in BOOLEAN : files' = IF wal THEN files ELSE [files EXCEPT ![s]["live"].wal = 0]
  /\ UNCHANGED <<startup, writer, command, created, wrong, crashes>>

-----------------------------------------------------------------------------
ResetInit ==
  /\ \E wal \in [Stores -> {0, 1}] :
       files = [r \in Stores |-> [p \in Places |->
                  IF p = "live" THEN [main |-> 1, wal |-> wal[r]] ELSE [main |-> 0, wal |-> 0]]]
  /\ startup = [s \in Servers |-> NoOne] /\ writer = [r \in Stores |-> NoOne]
  /\ owner = [s \in Servers |-> NoOne]
  /\ command = [c \in Commands |-> [at |-> "new", reset |-> {}, target |-> "live", file |-> 1]]
  /\ created = [r \in Stores |-> 1] /\ wrong = {} /\ crashes = 0

ResetNext ==
  \/ \E c \in Commands :
       Launch(c) \/ Confirm(c) \/ Decline(c) \/ Lock(c) \/ LockTimesOut(c) \/ MoveFile(c) \/ Dies(c) \/ StartBackend(c)
  \/ \E s \in Servers : Capture(s) \/ BackendEnds(s)

ResetSpec == ResetInit /\ [][ResetNext]_resetVars

-----------------------------------------------------------------------------
\* Whatever was interrupted or raced, each database is still somewhere, under its
\* own name or a backup's (available), none finds the WAL of another beside it
\* (localstorage.go:179), and none but those "written by older releases"
\* (localstorage.go:1) was moved aside.  The collector database is the exception:
\* commands of two token databases may both have found it older before either asked,
\* and Reset does not inspect it again.
NothingLost ==
  /\ \A r \in Stores :
       LET live == files[r]["live"] IN
       /\ \A id \in 1..created[r] : \E p \in Places : files[r][p].main = id
       /\ live.main # 0 /\ live.wal # 0 => live.wal = live.main
  /\ \A x \in wrong : x[1] = Collector
=============================================================================
