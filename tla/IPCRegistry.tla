---------------------------- MODULE IPCRegistry -----------------------------
(***************************************************************************)
(* What the IPC server keeps (src/ipc/ipc_server.c) and what each command  *)
(* makes of it.  The linked list of clients is a set of entries: its order *)
(* only decides in which order ListClients shows them.  Volumes are in     *)
(* percent.                                                                *)
(***************************************************************************)
EXTENDS Integers, FiniteSets

\* Sizes in bytes: ipc_protocol.h packs its structures.  A registration
\* carries a name of three letters and its null.
HeaderSize   == 16
ResponseSize == 8
VolumeSize   == 9
ListedSize   == 273
PayloadSize ==
  [Register |-> 9 + 4, Unregister |-> 4, GetVolume |-> 4, SetVolume |-> 8,
   SetMute |-> 5, Ping |-> 0, ListClients |-> 0]
Commands == DOMAIN PayloadSize

Statuses == {"OK", "InvalidHeader", "PayloadTooLarge", "ClientNotFound"}

Entries(clients, pid) == {e \in clients : e.pid = pid}

\* A process registers once: a second entry for its pid is refused.
RegisterTwice(clients, r) ==
  clients \union {[pid |-> r.pid, volume |-> r.volume, muted |-> r.muted]}
Register(clients, r) ==
  IF Entries(clients, r.pid) = {}
  THEN clients \union {[pid |-> r.pid, volume |-> r.volume, muted |-> r.muted]}
  ELSE clients

Unregister(clients, r) == clients \ Entries(clients, r.pid)

\* Every caller's volume is in range already.
Clamp(v) == IF v < 0 THEN 0 ELSE IF v > 100 THEN 100 ELSE v

\* The list with pid's entry, if it has one, changed.
Change(clients, pid, NewEntry(_)) ==
  (clients \ Entries(clients, pid)) \union {NewEntry(e) : e \in Entries(clients, pid)}

SetVolume(clients, r) ==
  Change(clients, r.pid, LAMBDA e : [e EXCEPT !.volume = Clamp(r.volume)])

SetMute(clients, r) ==
  Change(clients, r.pid, LAMBDA e : [e EXCEPT !.muted = r.muted])

\* The registry after request r, the status of its reply, and the bytes of
\* data that follow the status.
After(clients, r) ==
  CASE r.cmd = "Register"   -> Register(clients, r)
    [] r.cmd = "Unregister" -> Unregister(clients, r)
    [] r.cmd = "SetVolume"  -> SetVolume(clients, r)
    [] r.cmd = "SetMute"    -> SetMute(clients, r)
    [] OTHER                -> clients

\* ipc_server_register_client's -1 is the code of InvalidHeader.
StatusOf(clients, r) ==
  CASE r.cmd \in {"Ping", "ListClients"} -> "OK"
    [] r.cmd = "Register" ->
         IF Entries(clients, r.pid) = {} THEN "OK" ELSE "InvalidHeader"
    [] OTHER ->
         IF Entries(clients, r.pid) = {} THEN "ClientNotFound" ELSE "OK"

DataSize(clients, r) ==
  CASE r.cmd = "ListClients" -> ListedSize * Cardinality(clients)
    [] r.cmd = "GetVolume" /\ Entries(clients, r.pid) # {} -> VolumeSize
    [] OTHER -> 0

Listed(clients, r) == IF r.cmd = "ListClients" THEN {e.pid : e \in clients} ELSE {}

\* The pids a client shows that reads a list of entries from byte `from` of
\* the data: off an entry's start the bytes are a status or the end of a name.
Nobody == "nobody"
PidsFrom(pids, from) == IF from % ListedSize = 0 THEN pids ELSE {Nobody}
=============================================================================
