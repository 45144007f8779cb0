----------------------------- MODULE IPCService -----------------------------
(***************************************************************************)
(* The processes of the IPC service: ipc_server_init, the signal handler,  *)
(* the loop's end and ipc_server_cleanup (src/ipc/ipc_server.c), and what  *)
(* main.c does to them: pkill, unlink and posix_spawn.  All of them work   *)
(* on one path in the file system, and a signal reaches a service wherever *)
(* it is.  Session says when the commands are run.                         *)
(***************************************************************************)
EXTENDS Integers, FiniteSets

CONSTANT MaxSpawns  \* bound: services spawned

ASSUME IPCServiceAssumption == MaxSpawns \in Nat

Servers == 1..MaxSpawns
NoFile == 0

VARIABLES
  server,   \* where each service process is
  path,     \* whose socket the path names
  spawned,  \* services spawned
  swept     \* history: services whose socket another one removed as it ended

service == <<server, path, spawned, swept>>

ServiceInit ==
  /\ server = [s \in Servers |-> "none"]
  /\ path = NoFile /\ spawned = 0 /\ swept = {}

Starting == {"spawned", "handlers", "unlinked", "bound"}
Ending   == {"stopping"}
Over     == {"none", "exited", "failed"}
Busy(states) == \E s \in Servers : server[s] \in states

-----------------------------------------------------------------------------
(* kill_ipc_service and spawn_ipc_service                                   *)

\* SIGTERM ends a process without a handler.  The handler does nothing until
\* ipc_server_init's last assignment, and afterwards clears running.
Survives(state) == state
Signalled(state) ==
  CASE state = "spawned" -> "exited"
    [] state = "running" -> "stopping"
    [] OTHER -> state

KillService ==
  /\ server' = [s \in Servers |-> Signalled(server[s])]
  /\ UNCHANGED <<path, spawned, swept>>

UnlinkSocket == path' = NoFile /\ UNCHANGED <<server, spawned, swept>>

SpawnUncounted ==
  /\ spawned < MaxSpawns
  /\ server' = [server EXCEPT ![spawned + 1] = "spawned"]
  /\ UNCHANGED <<path, spawned, swept>>
SpawnService ==
  /\ spawned < MaxSpawns
  /\ spawned' = spawned + 1
  /\ server' = [server EXCEPT ![spawned'] = "spawned"]
  /\ UNCHANGED <<path, swept>>

-----------------------------------------------------------------------------
(* The service                                                              *)

Step(s, from, to) ==
  server[s] = from /\ server' = [server EXCEPT ![s] = to] /\ UNCHANGED spawned

InstallHandlers(s) == Step(s, "spawned", "handlers") /\ UNCHANGED <<path, swept>>

UnlinkOld(s) == Step(s, "handlers", "unlinked") /\ path' = NoFile /\ UNCHANGED swept

\* bind refuses a path that exists: the service exits.
Bind(s) ==
  /\ IF path = NoFile THEN Step(s, "unlinked", "bound") /\ path' = s
     ELSE Step(s, "unlinked", "exited") /\ UNCHANGED path
  /\ UNCHANGED swept

\* The path goes, whatever it names now.
Sweep(s) ==
  /\ path' = NoFile
  /\ swept' = IF path \in {NoFile, s} THEN swept ELSE swept \union {path}

\* socket and fcntl may fail before bind; listen, kqueue and kevent after it.
InitFails(s) ==
  \/ Step(s, "unlinked", "failed") /\ UNCHANGED <<path, swept>>
  \/ Step(s, "bound", "failed") /\ Sweep(s)

\* Everything else of init: the loop runs and the handler works.
Ready(s) == Step(s, "bound", "running") /\ UNCHANGED <<path, swept>>

\* The loop ends; cleanup closes connections and sockets, which nobody here
\* sees, and removes whatever the path names now.
RemoveSocket(s) == Step(s, "stopping", "exited") /\ Sweep(s)

\* SIGPIPE (IPCChannel), SIGKILL or a fault: nothing is cleaned up.
Crash(s) == Step(s, "running", "failed") /\ UNCHANGED <<path, swept>>

ServiceStep(s) ==
  InstallHandlers(s) \/ UnlinkOld(s) \/ Bind(s) \/ Ready(s) \/ RemoveSocket(s)

-----------------------------------------------------------------------------
(* Properties                                                               *)

\* The services spawned are the first ones, and the path names one that has
\* bound it.
ServiceType ==
  /\ server \in [Servers -> {"running"} \union Starting \union Ending \union Over]
  /\ path \in Servers \union {NoFile} /\ spawned \in 0..MaxSpawns
  /\ \A s \in Servers : server[s] = "none" <=> s > spawned
  /\ path # NoFile => server[path] \notin {"spawned", "handlers", "unlinked", "none"}
  /\ swept \subseteq Servers

=============================================================================
