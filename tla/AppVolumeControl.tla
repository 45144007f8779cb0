-------------------------- MODULE AppVolumeControl --------------------------
(***************************************************************************)
(* A client's list of applications (src/app_volume_control.c).  An         *)
(* operation changes the list under its mutex and then, the mutex          *)
(* released, tells the IPC service, which may be away, slow, or a new one. *)
(* A failure to tell it is not reported and nothing is told again.  A call *)
(* of the IPC is one step here (IPCChannel has its steps).                 *)
(***************************************************************************)
EXTENDS IPCRegistry, SequencesExt

CONSTANTS
  Threads,                     \* that call the operations
  Pids,
  Volumes,                     \* that callers ask for, in percent
  MAX_APP_VOLUME_ENTRIES,
  IPC_RECONNECT_MAX_ATTEMPTS

ASSUME AppVolumeControlAssumption ==
  /\ MAX_APP_VOLUME_ENTRIES \in Nat \ {0}
  /\ IPC_RECONNECT_MAX_ATTEMPTS \in Nat
  /\ Volumes \subseteq Int

VARIABLES
  g_volumeList,        \* the entries in use, in order
  link,                \* g_ipcClient: "none", "open", or "stale": connected
                       \* to a service that has ended
  reconnect_attempts,
  call,                \* each thread's operation: what it has yet to tell
  running,             \* FALSE once a signal has ended the process
  server,              \* external: a service accepts connections
  registry,            \* external: its entries
  lost                 \* pids of which the service missed something

ipc     == <<link, reconnect_attempts, running>>
service == <<server, registry, lost>>
vars    == <<g_volumeList, ipc, call, service>>

NoPid == "none"
Idle  == [at |-> "idle", cmd |-> "none", pid |-> NoPid, volume |-> 0, muted |-> FALSE, slot |-> 0]

Init ==
  /\ g_volumeList = << >>
  /\ link = "none" /\ reconnect_attempts = 0 /\ running = TRUE
  /\ call = [t \in Threads |-> Idle]
  /\ server \in BOOLEAN /\ registry = {} /\ lost = {}

-----------------------------------------------------------------------------
(* The list, under its mutex                                                *)

\* The slots find_entry_unlocked may return.
SlotsOf(pid) == {i \in DOMAIN g_volumeList : g_volumeList[i].pid = pid}
SlotOf(pid)  == CHOOSE i \in SlotsOf(pid) : TRUE

\* One operation is under way for an application at a time.
Free(t, pid) ==
  running /\ call[t] = Idle /\ \A u \in Threads : call[u].pid # pid

\* What thread t has to tell once the mutex is released.
Then(t, cmd, pid, volume, muted, slot) ==
  call' = [call EXCEPT ![t] = [at |-> "tell", cmd |-> cmd, pid |-> pid,
                               volume |-> volume, muted |-> muted, slot |-> slot]]

NewEntry(pid) == [pid |-> pid, volume |-> 100, muted |-> FALSE, active |-> TRUE]

\* A known application's entry is active again, and else as it was.
RegisterKnown(t, pid) ==
  /\ Free(t, pid) /\ SlotsOf(pid) # {}
  /\ g_volumeList' = [g_volumeList EXCEPT ![SlotOf(pid)].active = TRUE]
  /\ Then(t, "Register", pid, 0, FALSE, SlotOf(pid))
  /\ UNCHANGED <<ipc, service>>

RegisterAgain(t, pid) ==
  /\ Free(t, pid)
  /\ Len(g_volumeList) < MAX_APP_VOLUME_ENTRIES
  /\ g_volumeList' = Append(g_volumeList, NewEntry(pid))
  /\ Then(t, "Register", pid, 0, FALSE, Len(g_volumeList) + 1)
  /\ UNCHANGED <<ipc, service>>
RegisterNew(t, pid) ==
  /\ Free(t, pid) /\ SlotsOf(pid) = {}
  /\ Len(g_volumeList) < MAX_APP_VOLUME_ENTRIES
  /\ g_volumeList' = Append(g_volumeList, NewEntry(pid))
  /\ Then(t, "Register", pid, 0, FALSE, Len(g_volumeList) + 1)
  /\ UNCHANGED <<ipc, service>>

UnregisterLast(t, pid) ==
  /\ Free(t, pid) /\ SlotsOf(pid) # {}
  /\ g_volumeList' = Front(g_volumeList)
  /\ Then(t, "Unregister", pid, 0, FALSE, 0)
  /\ UNCHANGED <<ipc, service>>
\* The later entries move up.
AppUnregister(t, pid) ==
  /\ Free(t, pid) /\ SlotsOf(pid) # {}
  /\ g_volumeList' = RemoveAt(g_volumeList, SlotOf(pid))
  /\ Then(t, "Unregister", pid, 0, FALSE, 0)
  /\ UNCHANGED <<ipc, service>>

AppSet(t, pid, volume) ==
  /\ Free(t, pid) /\ SlotsOf(pid) # {}
  /\ g_volumeList' = [g_volumeList EXCEPT ![SlotOf(pid)].volume = Clamp(volume)]
  /\ Then(t, "SetVolume", pid, Clamp(volume), FALSE, 0)
  /\ UNCHANGED <<ipc, service>>

AppSetMute(t, pid, mute) ==
  /\ Free(t, pid) /\ SlotsOf(pid) # {}
  /\ g_volumeList' = [g_volumeList EXCEPT ![SlotOf(pid)].muted = mute]
  /\ Then(t, "SetMute", pid, 0, mute, 0)
  /\ UNCHANGED <<ipc, service>>

\* isActive is not the service's concern.
AppSetActive(t, pid, active) ==
  /\ Free(t, pid) /\ SlotsOf(pid) # {}
  /\ g_volumeList' = [g_volumeList EXCEPT ![SlotOf(pid)].active = active]
  /\ UNCHANGED <<ipc, call, service>>

-----------------------------------------------------------------------------
(* Telling the service                                                      *)

\* A registration reads the volume and the mute from its slot only now; a
\* slot out of use is zero.
Slot(i) ==
  IF i \in DOMAIN g_volumeList THEN g_volumeList[i] ELSE [volume |-> 0, muted |-> FALSE]
Request(t) ==
  LET c == call[t] IN
  [cmd |-> c.cmd, pid |-> c.pid,
   volume |-> IF c.cmd = "Register" THEN Slot(c.slot).volume ELSE c.volume,
   muted  |-> IF c.cmd = "Register" THEN Slot(c.slot).muted ELSE c.muted]

\* What the service missed before no longer matters once it has taken an
\* application in or out.
StillLost(t) ==
  IF call[t].cmd \in {"Register", "Unregister"} /\ StatusOf(registry, Request(t)) # "InvalidHeader"
  THEN lost \ {call[t].pid} ELSE lost

\* The connect that ensure_ipc_client_connected makes, however often it has
\* failed before.
ConnectsWhileTrying == link = "none" /\ server /\ reconnect_attempts < IPC_RECONNECT_MAX_ATTEMPTS
Connects == link = "none" /\ server

EnsureConnected(t) ==
  /\ running /\ call[t].at = "tell"
  /\ \/ link # "none" /\ UNCHANGED <<link, reconnect_attempts>>
     \/ Connects /\ link' = "open" /\ reconnect_attempts' = 0
  /\ call' = [call EXCEPT ![t].at = "send"]
  /\ UNCHANGED <<g_volumeList, running, service>>

Tell(t) ==
  /\ running /\ call[t].at = "send"
  /\ link = "open"
  /\ registry' = After(registry, Request(t))
  /\ lost' = StillLost(t)
  /\ call' = [call EXCEPT ![t] = Idle]
  /\ UNCHANGED <<g_volumeList, ipc, server>>

\* The reply does not come in time, the service ends before it, or another
\* thread has given the link up: it is given up, whether or not a service still
\* there has done its work.
Missed(t) ==
  /\ running /\ call[t].at = "send"
  /\ link' = "none"
  /\ registry' \in {registry} \union
       IF link = "open" THEN {After(registry, Request(t))} ELSE {}
  /\ lost' = lost \union {call[t].pid}
  /\ call' = [call EXCEPT ![t] = Idle]
  /\ UNCHANGED <<g_volumeList, reconnect_attempts, running, server>>

\* Nothing handles SIGPIPE.
Piped(t) ==
  /\ running /\ call[t].at = "send"
  /\ link = "stale"
  /\ running' = FALSE
  /\ call' = [u \in Threads |-> Idle]
  /\ UNCHANGED <<g_volumeList, link, reconnect_attempts, service>>

\* No service answers: the operation waits before it tries once more, or it
\* has tried too often.
Refused(t) ==
  /\ running /\ call[t].at = "tell"
  /\ link = "none" /\ ~server
  /\ lost' = lost \union {call[t].pid}
  /\ call' = [call EXCEPT ![t] =
       IF reconnect_attempts < IPC_RECONNECT_MAX_ATTEMPTS
       THEN [@ EXCEPT !.at = "sleep"] ELSE Idle]
  /\ UNCHANGED <<g_volumeList, ipc, server, registry>>

\* ipc_client_reconnect, its sleep over.  The operation fails to tell the
\* service even when it connects.
Reconnect(t) ==
  /\ running /\ call[t].at = "sleep"
  /\ IF server
     THEN link' = "open" /\ reconnect_attempts' = 0
     ELSE reconnect_attempts' = reconnect_attempts + 1 /\ UNCHANGED link
  /\ call' = [call EXCEPT ![t] = Idle]
  /\ UNCHANGED <<g_volumeList, running, service>>

-----------------------------------------------------------------------------
(* The service                                                              *)

\* It ends with what it knew, and starts with nothing.
ServerEnds ==
  /\ server /\ server' = FALSE
  /\ registry' = {}
  /\ link' = IF link = "open" THEN "stale" ELSE link
  /\ lost' = {g_volumeList[i].pid : i \in DOMAIN g_volumeList}
  /\ UNCHANGED <<g_volumeList, reconnect_attempts, call, running>>

ServerStarts ==
  /\ ~server /\ server' = TRUE
  /\ UNCHANGED <<g_volumeList, ipc, call, registry, lost>>

-----------------------------------------------------------------------------
Operation(t, pid) ==
  \/ RegisterKnown(t, pid) \/ RegisterNew(t, pid) \/ AppUnregister(t, pid)
  \/ \E volume \in Volumes : AppSet(t, pid, volume)
  \/ \E flag \in BOOLEAN : AppSetMute(t, pid, flag) \/ AppSetActive(t, pid, flag)

Telling(t) == EnsureConnected(t) \/ Tell(t) \/ Missed(t) \/ Piped(t) \/ Refused(t) \/ Reconnect(t)

Next ==
  \/ \E t \in Threads, pid \in Pids : Operation(t, pid)
  \/ \E t \in Threads : Telling(t)
  \/ ServerEnds \/ ServerStarts

\* A thread in the middle of an operation goes on with it: each of its waits
\* has a timeout.
Fairness == \A t \in Threads : WF_vars(Telling(t))

Spec == Init /\ [][Next]_vars /\ Fairness

-----------------------------------------------------------------------------
(* Properties                                                               *)

\* The list is well formed: an application has one entry, and no more entries
\* are in use than there is room for.
TypeOK ==
  /\ Len(g_volumeList) <= MAX_APP_VOLUME_ENTRIES
  /\ \A i \in DOMAIN g_volumeList :
       g_volumeList[i] \in [pid : Pids, volume : 0..100, muted : BOOLEAN, active : BOOLEAN]
  /\ \A pid \in Pids : Cardinality(SlotsOf(pid)) <= 1
  /\ link \in {"none", "open", "stale"}
  /\ reconnect_attempts \in 0..IPC_RECONNECT_MAX_ATTEMPTS
  /\ \A t \in Threads : call[t].at \in {"idle", "tell", "send", "sleep"}
  /\ server \in BOOLEAN /\ running \in BOOLEAN /\ lost \subseteq Pids

\* Between operations the service has of every application what the list has,
\* through compactions of the list, reconnections and new services, unless it
\* missed something of that application.
RegistryMirrorsList ==
  running /\ (\A t \in Threads : call[t] = Idle) =>
    \A pid \in Pids \ lost :
      Entries(registry, pid) =
        {[pid |-> pid, volume |-> g_volumeList[i].volume, muted |-> g_volumeList[i].muted] :
           i \in SlotsOf(pid)}

\* However often connecting failed, a process that goes on with its operations
\* is connected again once a service stays up, unless a signal ended it.
ConnectsAgain ==
  <>[]server /\ []<>(\E t \in Threads : call[t] # Idle) => []<>(link = "open" \/ ~running)

=============================================================================
