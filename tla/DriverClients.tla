---------------------------- MODULE DriverClients ----------------------------
(***************************************************************************)
(* The clients of the virtual device (src/driver/app_volume_driver.c): a   *)
(* table of slots under a lock, and the IPC server's registry, which the   *)
(* driver brings up to date after it has left the lock.  The host calls    *)
(* AddDeviceClient and RemoveDeviceClient from any thread, one at a time   *)
(* for a client, and nothing keeps two of them out of the one IPC context: *)
(* a call of the IPC begins and ends here, and what IPCChannel finds of    *)
(* connections that have lost step is what may become of it.  Once a call  *)
(* gives the connection up the driver never connects again.                *)
(***************************************************************************)
EXTENDS IPCRegistry

CONSTANTS
  Threads,      \* the host's threads
  ClientIDs,    \* clients the host may have
  PidOf,        \* the process each client belongs to
  MAX_CLIENTS,
  NoClient      \* no client

ASSUME DriverClientsAssumption ==
  /\ MAX_CLIENTS \in Nat \ {0}
  /\ DOMAIN PidOf = ClientIDs
  /\ NoClient \notin ClientIDs

Slots == 1..MAX_CLIENTS

VARIABLES
  g_clients,      \* the clientID in each slot, or NoClient
  slotPid,        \* and its pid
  g_clientCount,
  ipcConnected,   \* g_ipcClient is connected
  registry,       \* external: the server's entries
  call,           \* each thread's call: the IPC it has yet to make
  sending,        \* the threads inside ipc_client_send_sync
  held,           \* external: clients the host has added and not removed
  mixed           \* history: two threads have been sending at once, or the
                  \* server has read a request without its payload

table == <<g_clients, slotPid, g_clientCount>>
ipc   == <<ipcConnected, registry, sending, mixed>>
vars  == <<table, ipc, call, held>>

NoPid == "0"
Idle == [ipc |-> "none", client |-> NoClient, pid |-> NoPid]

Init ==
  /\ g_clients = [i \in Slots |-> NoClient]
  /\ slotPid = [i \in Slots |-> NoPid]
  /\ g_clientCount = 0
  /\ ipcConnected \in BOOLEAN
  /\ registry = {}
  /\ call = [t \in Threads |-> Idle]
  /\ sending = {}
  /\ held = {}
  /\ mixed = FALSE

Active == {i \in Slots : g_clients[i] # NoClient}
SlotsOf(c) == {i \in Slots : g_clients[i] = c}

\* The host is at work on one call for a client at a time.
Free(t, c) == call[t] = Idle /\ \A u \in Threads : call[u].client # c

\* What a thread does once it has left the lock.
Then(t, cmd, c, pid) == call' = [call EXCEPT ![t] = [ipc |-> cmd, client |-> c, pid |-> pid]]

-----------------------------------------------------------------------------
(* app_volume_driver_add_client                                             *)

\* A client that is in the table only has its pid stored again.
AddKnown(t, c) ==
  /\ Free(t, c) /\ SlotsOf(c) # {}
  /\ slotPid' = [slotPid EXCEPT ![CHOOSE i \in SlotsOf(c) : TRUE] = PidOf[c]]
  /\ UNCHANGED <<g_clients, g_clientCount, ipc, call, held>>

SlotByCount == 1 + (g_clientCount % MAX_CLIENTS)
FirstFree == CHOOSE i \in Slots \ Active : \A j \in Slots \ Active : i <= j

AddNew(t, c) ==
  /\ Free(t, c) /\ c \notin held /\ SlotsOf(c) = {}
  /\ Active # Slots
  /\ g_clients' = [g_clients EXCEPT ![FirstFree] = c]
  /\ slotPid' = [slotPid EXCEPT ![FirstFree] = PidOf[c]]
  /\ g_clientCount' = g_clientCount + 1
  /\ Then(t, "register", c, PidOf[c])
  /\ held' = held \union {c}
  /\ UNCHANGED ipc

\* The table is full.  AddDeviceClient hides the error from the host.
AddRefused(t, c) ==
  /\ Free(t, c) /\ c \notin held /\ SlotsOf(c) = {}
  /\ Active = Slots
  /\ held' = held \union {c}
  /\ UNCHANGED <<table, ipc, call>>

-----------------------------------------------------------------------------
(* app_volume_driver_remove_client                                          *)

RemoveForgettingCount(t, c) ==
  \E i \in SlotsOf(c) :
    /\ Free(t, c) /\ c \in held
    /\ g_clients' = [g_clients EXCEPT ![i] = NoClient]
    /\ slotPid' = [slotPid EXCEPT ![i] = NoPid]
    /\ Then(t, "unregister", c, slotPid[i])
    /\ held' = held \ {c}
    /\ UNCHANGED <<g_clientCount, ipc>>
Remove(t, c) ==
  \E i \in SlotsOf(c) :
    /\ Free(t, c) /\ c \in held
    /\ g_clients' = [g_clients EXCEPT ![i] = NoClient]
    /\ slotPid' = [slotPid EXCEPT ![i] = NoPid]
    /\ g_clientCount' = g_clientCount - 1
    /\ Then(t, "unregister", c, slotPid[i])
    /\ held' = held \ {c}
    /\ UNCHANGED ipc

RemoveUnknown(t, c) ==
  /\ Free(t, c) /\ c \in held /\ SlotsOf(c) = {}
  /\ held' = held \ {c}
  /\ UNCHANGED <<table, ipc, call>>

-----------------------------------------------------------------------------
(* The IPC, outside the lock                                                *)

Command == [register |-> "Register", unregister |-> "Unregister"]
Request(cmd, pid) == [cmd |-> cmd, pid |-> pid, volume |-> 100, muted |-> FALSE]
Told(t) == After(registry, Request(Command[call[t].ipc], call[t].pid))

Ends(t) == call' = [call EXCEPT ![t] = Idle] /\ sending' = sending \ {t}

\* ipc_client_is_connected, then the first of the two sends.
Send(t) ==
  /\ call[t] # Idle /\ t \notin sending
  /\ IF ipcConnected
     THEN /\ sending' = sending \union {t}
          /\ mixed' = (mixed \/ sending # {})
          /\ UNCHANGED call
     ELSE Ends(t) /\ UNCHANGED mixed
  /\ UNCHANGED <<table, ipcConnected, registry, held>>

\* A call that was alone on the connection is answered; the driver ignores
\* the reply, the server's refusal included.
Served(t) ==
  /\ t \in sending /\ ipcConnected /\ ~mixed
  /\ registry' = Told(t)
  /\ Ends(t)
  /\ UNCHANGED <<table, ipcConnected, held, mixed>>

\* The server finds the header without the payload and answers at once.
Cut(t) ==
  /\ t \in sending /\ ipcConnected
  /\ mixed' = TRUE
  /\ Ends(t)
  /\ UNCHANGED <<table, ipcConnected, registry, held>>

\* The call gives the connection up, before or after the server has done its
\* work.
LoseServer(t) ==
  /\ t \in sending
  /\ ipcConnected' = FALSE
  /\ registry' \in {registry, Told(t)}
  /\ Ends(t)
  /\ UNCHANGED <<table, held, mixed>>

\* Any reply, short, refused or another call's, ends a call on a connection
\* that has lost step; the connection stays.
Misled(t) ==
  /\ t \in sending /\ mixed
  /\ Ends(t)
  /\ UNCHANGED <<table, ipcConnected, registry, held, mixed>>

\* What is left in the streams, a request that came too late or one put
\* together from the parts of two, with a pid from anywhere.
Misread ==
  /\ mixed \/ ~ipcConnected
  /\ \E cmd \in {"Register", "Unregister"}, pid \in {PidOf[c] : c \in ClientIDs} \union {Nobody} :
       registry' = After(registry, Request(cmd, pid))
  /\ UNCHANGED <<table, ipcConnected, call, sending, held, mixed>>

-----------------------------------------------------------------------------
Next ==
  \/ \E t \in Threads, c \in ClientIDs :
       AddKnown(t, c) \/ AddNew(t, c) \/ AddRefused(t, c) \/ Remove(t, c) \/ RemoveUnknown(t, c)
  \/ \E t \in Threads : Send(t) \/ Served(t) \/ Cut(t) \/ LoseServer(t) \/ Misled(t)
  \/ Misread

Spec == Init /\ [][Next]_vars

-----------------------------------------------------------------------------
(* Properties                                                               *)

\* The state is well formed: a client has one slot and the count is right.
TypeOK ==
  /\ g_clients \in [Slots -> ClientIDs \union {NoClient}]
  /\ slotPid \in [Slots -> {PidOf[c] : c \in ClientIDs} \union {NoPid}]
  /\ \A c \in ClientIDs : Cardinality(SlotsOf(c)) <= 1
  /\ g_clientCount = Cardinality(Active)
  /\ ipcConnected \in BOOLEAN /\ mixed \in BOOLEAN
  /\ \A e \in registry : Cardinality(Entries(registry, e.pid)) = 1
  /\ \A t \in Threads : call[t].ipc \in {"none", "register", "unregister"}
  /\ \A t \in sending : call[t] # Idle
  /\ held \subseteq ClientIDs

Registered == {e.pid : e \in registry}

AtRest == ipcConnected /\ \A t \in Threads : call[t] = Idle

\* Whenever no call is under way the server lists the processes in the table,
\* in whatever order the threads left the lock and reached it, unless the
\* connection was given up or has lost step: nothing else parts the two.
RegistryFollowsTable ==
  AtRest /\ ~mixed => Registered = {slotPid[i] : i \in Active}

\* The same of two threads that use the context at once.
RegistryAlwaysFollows ==
  AtRest => Registered = {slotPid[i] : i \in Active}

\* The driver knows every client the host has added (audio_apps.m:6).
EveryClientKnown == \A c \in held : SlotsOf(c) # {}

=============================================================================
