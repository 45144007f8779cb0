------------------------- MODULE DriverClientsProofs -------------------------
(***************************************************************************)
(* The driver's table of clients is sound whatever the host does, and, if  *)
(* each client is a process of its own (OwnPid), the service's registry    *)
(* follows it: for every number of threads, clients and slots.             *)
(***************************************************************************)
EXTENDS DriverClients, FiniteSetTheorems, WellFoundedInduction, TLAPS

\* Each client has a process of its own.
OwnPid == \A c, d \in ClientIDs : PidOf[c] = PidOf[d] => c = d

HasSlot(c) == \E i \in Slots : g_clients[i] = c
Calls(t, cmd, c) == call[t].ipc = cmd /\ call[t].client = c

\* A client has one slot, with its own pid, and the count is that of the
\* slots in use.
TableInv ==
  /\ g_clients \in [Slots -> ClientIDs \union {NoClient}]
  /\ slotPid \in [Slots -> {PidOf[c] : c \in ClientIDs} \union {NoPid}]
  /\ \A i, j \in Slots : g_clients[i] = g_clients[j] /\ g_clients[i] # NoClient => i = j
  /\ \A i \in Slots : g_clients[i] # NoClient => slotPid[i] = PidOf[g_clients[i]]
  /\ g_clientCount = Cardinality(Active)

\* The server has one entry for a process.
RegInv == \A e, f \in registry : e.pid = f.pid => e = f

\* A thread is in no call or in one for a client, alone, which it has
\* already taken into the table or out of it.
CallInv ==
  /\ call \in [Threads -> [ipc : {"none", "register", "unregister"},
                           client : ClientIDs \union {NoClient},
                           pid : {PidOf[c] : c \in ClientIDs} \union {NoPid}]]
  /\ \A t \in Threads :
       \/ call[t] = Idle
       \/ /\ call[t].ipc \in {"register", "unregister"}
          /\ call[t].client \in ClientIDs
          /\ call[t].pid = PidOf[call[t].client]
  /\ \A t, u \in Threads :
       call[t].client = call[u].client /\ call[t].client # NoClient => t = u
  /\ \A t \in Threads :
       /\ call[t].ipc = "register" => HasSlot(call[t].client)
       /\ call[t].ipc = "unregister" => ~HasSlot(call[t].client)

\* The threads inside the IPC are in a call.
OthersInv ==
  /\ ipcConnected \in BOOLEAN /\ mixed \in BOOLEAN /\ held \subseteq ClientIDs
  /\ sending \subseteq Threads /\ \A t \in sending : call[t] # Idle

IInv == TableInv /\ RegInv /\ CallInv /\ OthersInv

\* While the connection is in step, the server lists clients only, and a
\* process is registered if its client has a slot, except for a call that is
\* still to tell the server.
MirrorInv ==
  ipcConnected /\ ~mixed =>
    /\ \A e \in registry : \E c \in ClientIDs : e.pid = PidOf[c]
    /\ \A c \in ClientIDs :
         PidOf[c] \in Registered <=>
           \/ HasSlot(c) /\ \A t \in Threads : ~Calls(t, "register", c)
           \/ \E t \in Threads : Calls(t, "unregister", c)

-----------------------------------------------------------------------------
\* The slots in use are finitely many, as Cardinality needs.
LEMMA ActiveFinite == IsFiniteSet(Active)
<1>1. IsFiniteSet(Slots)
  BY FS_Interval, DriverClientsAssumption DEF Slots
<1> QED BY <1>1, FS_Subset DEF Active

\* A slot that was free holds one client more.
LEMMA OneMore ==
  ASSUME TableInv, NEW i \in Slots \ Active, NEW c \in ClientIDs,
         g_clients' = [g_clients EXCEPT ![i] = c]
  PROVE  Active' = Active \union {i} /\ Cardinality(Active') = Cardinality(Active) + 1
<1>1. Active' = Active \union {i}
  BY DriverClientsAssumption DEF Active, TableInv, Slots
<1> QED BY <1>1, ActiveFinite, FS_AddElement

\* A slot that was in use holds one client less.
LEMMA OneLess ==
  ASSUME TableInv, NEW i \in Slots, g_clients[i] # NoClient,
         g_clients' = [g_clients EXCEPT ![i] = NoClient]
  PROVE  Active' = Active \ {i} /\ Cardinality(Active') = Cardinality(Active) - 1
<1>1. Active' = Active \ {i}
  BY DEF Active, TableInv, Slots
<1>2. i \in Active
  BY DEF Active
<1> QED BY <1>1, <1>2, ActiveFinite, FS_RemoveElement

\* The slot a new client gets is free.
LEMMA FirstFreeIsFree ==
  ASSUME TableInv, Active # Slots
  PROVE  FirstFree \in Slots \ Active
<1> DEFINE Unused == Slots \ Active
           Less   == OpToRel(<, Nat)
<1>1. Unused # {} /\ Unused \subseteq Nat
  BY DriverClientsAssumption DEF Active, Slots
<1>2. IsWellFoundedOn(Less, Nat)
  BY NatLessThanWellFounded
<1>3. PICK i \in Unused : \A j \in Unused : ~(<<j, i>> \in Less)
  <2> HIDE DEF Less, Unused
  <2> QED BY <1>1, <1>2, WFMin
<1>4. \A j \in Unused : i <= j
  <2>1. SUFFICES ASSUME NEW j \in Unused, ~(i <= j) PROVE FALSE
    OBVIOUS
  <2>2. i \in Nat /\ j \in Nat
    BY <1>1, <1>3
  <2>3. j < i
    BY <2>1, <2>2
  <2>4. <<j, i>> \in Less
    BY <2>2, <2>3 DEF OpToRel
  <2> QED BY <1>3, <2>4
<1> QED BY <1>3, <1>4 DEF FirstFree

\* What telling the server makes of the registry.
LEMMA ToldIs ==
  ASSUME NEW t \in Threads, CallInv, call[t] # Idle
  PROVE  LET pid == PidOf[call[t].client] IN
         \/ /\ call[t].ipc = "register"
            /\ Told(t) = IF Entries(registry, pid) = {}
                         THEN registry \union {[pid |-> pid, volume |-> 100, muted |-> FALSE]}
                         ELSE registry
         \/ /\ call[t].ipc = "unregister"
            /\ Told(t) = registry \ Entries(registry, pid)
<1>1. /\ call[t].ipc \in {"register", "unregister"}
      /\ call[t].pid = PidOf[call[t].client]
  BY DEF CallInv
<1>2. CASE call[t].ipc = "register"
  BY <1>1, <1>2 DEF Told, After, Request, Command, Register
<1>3. CASE call[t].ipc = "unregister"
  BY <1>1, <1>3 DEF Told, After, Request, Command, Unregister
<1> QED BY <1>1, <1>2, <1>3

\* The server keeps one entry for a process whatever it is asked.
LEMMA RequestKeepsRegInv ==
  ASSUME RegInv, NEW cmd \in {"Register", "Unregister"}, NEW pid,
         registry' = After(registry, Request(cmd, pid))
  PROVE  RegInv'
<1> DEFINE r == Request(cmd, pid)
<1>1. r.cmd = cmd /\ r.pid = pid
  BY DEF Request
<1>2. CASE cmd = "Register"
  <2> DEFINE new == [pid |-> r.pid, volume |-> r.volume, muted |-> r.muted]
  <2>1. registry' = IF Entries(registry, pid) = {} THEN registry \union {new} ELSE registry
    BY <1>1, <1>2 DEF After, Register
  <2>2. new.pid = pid
    BY <1>1
  <2> HIDE DEF new
  <2> QED BY <2>1, <2>2 DEF RegInv, Entries
<1>3. CASE cmd = "Unregister"
  <2>1. registry' = registry \ Entries(registry, r.pid)
    BY <1>1, <1>3 DEF After, Unregister
  <2> QED BY <2>1 DEF RegInv
<1> QED BY <1>2, <1>3

\* So it does with what a thread tells it.
LEMMA ToldKeepsRegInv ==
  ASSUME NEW t \in Threads, CallInv, RegInv, call[t] # Idle,
         registry' \in {registry, Told(t)}
  PROVE  RegInv'
<1>1. CASE registry' = registry
  BY <1>1 DEF RegInv
<1>2. CASE registry' = Told(t)
  <2>1. call[t].ipc \in {"register", "unregister"}
    BY DEF CallInv
  <2>2. Command[call[t].ipc] \in {"Register", "Unregister"}
    BY <2>1 DEF Command
  <2> QED BY <1>2, <2>2, RequestKeepsRegInv DEF Told
<1> QED BY <1>1, <1>2

\* A thread that leaves the lock with a client to tell of.
LEMMA ThenKeepsCallInv ==
  ASSUME CallInv, NEW t \in Threads, NEW c \in ClientIDs,
         NEW cmd \in {"register", "unregister"},
         Free(t, c), Then(t, cmd, c, PidOf[c]),
         \A d \in ClientIDs \ {c} : HasSlot(d)' <=> HasSlot(d),
         cmd = "register" => HasSlot(c)', cmd = "unregister" => ~HasSlot(c)'
  PROVE  CallInv'
<1> DEFINE new == [ipc |-> cmd, client |-> c, pid |-> PidOf[c]]
<1>1. call' = [call EXCEPT ![t] = new]
  BY DEF Then
<1>2. new \in [ipc : {"none", "register", "unregister"},
               client : ClientIDs \union {NoClient},
               pid : {PidOf[d] : d \in ClientIDs} \union {NoPid}]
  BY DEF Idle
<1>3. new.ipc = cmd /\ new.client = c /\ new.pid = PidOf[c]
  OBVIOUS
<1>4. Idle.ipc = "none" /\ Idle.client = NoClient
  BY DEF Idle
<1> HIDE DEF new
<1>5. /\ call'[t] = new
      /\ \A u \in Threads \ {t} : call'[u] = call[u]
      /\ call' \in [Threads -> [ipc : {"none", "register", "unregister"},
                                client : ClientIDs \union {NoClient},
                                pid : {PidOf[d] : d \in ClientIDs} \union {NoPid}]]
  BY <1>1, <1>2 DEF CallInv
<1>6. \A u \in Threads : call[u].client # c
  BY DEF Free
<1>7. \A u \in Threads :
        \/ call'[u] = Idle
        \/ /\ call'[u].ipc \in {"register", "unregister"}
           /\ call'[u].client \in ClientIDs
           /\ call'[u].pid = PidOf[call'[u].client]
  BY <1>3, <1>5 DEF CallInv
<1>8. \A u, v \in Threads :
        call'[u].client = call'[v].client /\ call'[u].client # NoClient => u = v
  BY <1>3, <1>4, <1>5, <1>6 DEF CallInv
<1>9. ASSUME NEW u \in Threads
      PROVE  (/\ call[u].ipc = "register" => HasSlot(call[u].client)
              /\ call[u].ipc = "unregister" => ~HasSlot(call[u].client))'
  <2>1. CASE u = t
    BY <1>3, <1>4, <1>5, <2>1 DEF HasSlot
  <2>2. CASE u # t
    BY <1>4, <1>5, <1>6, <2>2 DEF CallInv, HasSlot
  <2> QED BY <2>1, <2>2
<1> QED BY <1>5, <1>7, <1>8, <1>9 DEF CallInv

-----------------------------------------------------------------------------
LEMMA InitIInv == Init => IInv
<1> SUFFICES ASSUME Init PROVE IInv
  OBVIOUS
<1>1. Active = {} /\ Cardinality(Active) = 0
  BY FS_EmptySet DEF Init, Active
<1>2. TableInv
  BY <1>1 DEF Init, TableInv
<1>3. RegInv /\ OthersInv
  BY DEF Init, RegInv, OthersInv
<1>4. CallInv
  BY DriverClientsAssumption DEF Init, CallInv, Idle
<1> QED BY <1>2, <1>3, <1>4 DEF IInv

\* A new client: it has the slot, and every other client what it had.
LEMMA AddNewTable ==
  ASSUME IInv, NEW t \in Threads, NEW c \in ClientIDs, AddNew(t, c)
  PROVE  /\ TableInv' /\ HasSlot(c)' /\ ~HasSlot(c)
         /\ \A d \in ClientIDs \ {c} : HasSlot(d)' <=> HasSlot(d)
<1> DEFINE i == FirstFree
<1>1. i \in Slots \ Active
  BY FirstFreeIsFree DEF IInv, AddNew
<1>2. /\ g_clients' = [g_clients EXCEPT ![i] = c]
      /\ slotPid' = [slotPid EXCEPT ![i] = PidOf[c]]
      /\ g_clientCount' = g_clientCount + 1
  BY DEF AddNew
<1>3. ~HasSlot(c)
  BY DEF AddNew, SlotsOf, HasSlot
<1> HIDE DEF i
<1>4. TableInv
  BY DEF IInv
<1>5. Cardinality(Active') = Cardinality(Active) + 1
  BY <1>1, <1>2, <1>4, OneMore
<1>6. g_clients[i] = NoClient
  BY <1>1 DEF Active
<1>7. /\ g_clients' \in [Slots -> ClientIDs \union {NoClient}]
      /\ slotPid' \in [Slots -> {PidOf[d] : d \in ClientIDs} \union {NoPid}]
  BY <1>1, <1>2, <1>4 DEF TableInv
<1>8. /\ g_clients'[i] = c /\ slotPid'[i] = PidOf[c]
      /\ \A j \in Slots \ {i} : g_clients'[j] = g_clients[j] /\ slotPid'[j] = slotPid[j]
  BY <1>1, <1>2, <1>4 DEF TableInv
<1>9. \A j \in Slots : g_clients[j] # c
  BY <1>3 DEF HasSlot
<1>10. \A j, k \in Slots : g_clients'[j] = g_clients'[k] /\ g_clients'[j] # NoClient => j = k
  BY <1>4, <1>8, <1>9 DEF TableInv
<1>11. \A j \in Slots : g_clients'[j] # NoClient => slotPid'[j] = PidOf[g_clients'[j]]
  BY <1>4, <1>8 DEF TableInv
<1>12. TableInv'
  BY <1>2, <1>4, <1>5, <1>7, <1>10, <1>11 DEF TableInv
<1>13. HasSlot(c)' /\ \A d \in ClientIDs \ {c} : HasSlot(d)' <=> HasSlot(d)
  BY <1>1, <1>6, <1>8, DriverClientsAssumption DEF HasSlot
<1> QED BY <1>3, <1>12, <1>13

\* A client removed: it has no slot, and every other client what it had.
LEMMA RemoveTable ==
  ASSUME IInv, NEW t \in Threads, NEW c \in ClientIDs, Remove(t, c)
  PROVE  /\ TableInv' /\ ~HasSlot(c)' /\ HasSlot(c)
         /\ Then(t, "unregister", c, PidOf[c])
         /\ \A d \in ClientIDs \ {c} : HasSlot(d)' <=> HasSlot(d)
<1>1. PICK i \in SlotsOf(c) :
        /\ g_clients' = [g_clients EXCEPT ![i] = NoClient]
        /\ slotPid' = [slotPid EXCEPT ![i] = NoPid]
        /\ g_clientCount' = g_clientCount - 1
        /\ Then(t, "unregister", c, slotPid[i])
  BY DEF Remove
<1>2. i \in Slots /\ g_clients[i] = c /\ c # NoClient
  BY DriverClientsAssumption DEF SlotsOf
<1>3. TableInv
  BY DEF IInv
<1>4. Cardinality(Active') = Cardinality(Active) - 1
  BY <1>1, <1>2, <1>3, OneLess
<1>5. /\ g_clients' \in [Slots -> ClientIDs \union {NoClient}]
      /\ slotPid' \in [Slots -> {PidOf[d] : d \in ClientIDs} \union {NoPid}]
  BY <1>1, <1>2, <1>3 DEF TableInv
<1>6. /\ g_clients'[i] = NoClient
      /\ \A j \in Slots \ {i} : g_clients'[j] = g_clients[j] /\ slotPid'[j] = slotPid[j]
  BY <1>1, <1>2, <1>3 DEF TableInv
<1>7. \A j \in Slots \ {i} : g_clients[j] # c
  BY <1>2, <1>3 DEF TableInv
<1>8. \A j, k \in Slots : g_clients'[j] = g_clients'[k] /\ g_clients'[j] # NoClient => j = k
  BY <1>3, <1>6 DEF TableInv
<1>9. \A j \in Slots : g_clients'[j] # NoClient => slotPid'[j] = PidOf[g_clients'[j]]
  BY <1>3, <1>6 DEF TableInv
<1>10. TableInv'
  BY <1>1, <1>3, <1>4, <1>5, <1>8, <1>9 DEF TableInv
<1>11. ~HasSlot(c)' /\ HasSlot(c) /\ \A d \in ClientIDs \ {c} : HasSlot(d)' <=> HasSlot(d)
  BY <1>2, <1>6, <1>7, DriverClientsAssumption DEF HasSlot
<1>12. slotPid[i] = PidOf[c]
  BY <1>2, <1>3 DEF TableInv
<1> QED BY <1>1, <1>10, <1>11, <1>12

\* A client that is known has its own pid stored again: nothing changes.
LEMMA AddKnownSame ==
  ASSUME IInv, NEW t \in Threads, NEW c \in ClientIDs, AddKnown(t, c)
  PROVE  UNCHANGED vars
<1> DEFINE i == CHOOSE j \in SlotsOf(c) : TRUE
<1>1. i \in SlotsOf(c) /\ slotPid' = [slotPid EXCEPT ![i] = PidOf[c]]
  BY DEF AddKnown
<1> HIDE DEF i
<1>2. i \in Slots /\ g_clients[i] = c /\ c # NoClient
  BY <1>1, DriverClientsAssumption DEF SlotsOf
<1>3. slotPid[i] = PidOf[c] /\ slotPid \in [Slots -> {PidOf[d] : d \in ClientIDs} \union {NoPid}]
  BY <1>2 DEF IInv, TableInv
<1>4. slotPid' = slotPid
  BY <1>1, <1>2, <1>3
<1> QED BY <1>4 DEF AddKnown, vars, table

\* A thread whose call is over.
LEMMA EndKeepsCallInv ==
  ASSUME CallInv, NEW t \in Threads, call' = [call EXCEPT ![t] = Idle], UNCHANGED table
  PROVE  CallInv'
<1>1. Idle.ipc = "none" /\ Idle.client = NoClient
      /\ Idle \in [ipc : {"none", "register", "unregister"},
                   client : ClientIDs \union {NoClient},
                   pid : {PidOf[c] : c \in ClientIDs} \union {NoPid}]
  BY DEF Idle
<1>2. /\ call'[t] = Idle
      /\ \A u \in Threads \ {t} : call'[u] = call[u]
      /\ call' \in [Threads -> [ipc : {"none", "register", "unregister"},
                                client : ClientIDs \union {NoClient},
                                pid : {PidOf[c] : c \in ClientIDs} \union {NoPid}]]
  BY <1>1 DEF CallInv
<1>3. \A u \in Threads :
        \/ call'[u] = Idle
        \/ /\ call'[u].ipc \in {"register", "unregister"}
           /\ call'[u].client \in ClientIDs
           /\ call'[u].pid = PidOf[call'[u].client]
  BY <1>2 DEF CallInv
<1>4. \A u, v \in Threads :
        call'[u].client = call'[v].client /\ call'[u].client # NoClient => u = v
  BY <1>1, <1>2 DEF CallInv
<1>5. ASSUME NEW u \in Threads
      PROVE  (/\ call[u].ipc = "register" => HasSlot(call[u].client)
              /\ call[u].ipc = "unregister" => ~HasSlot(call[u].client))'
  BY <1>1, <1>2 DEF CallInv, HasSlot, table
<1> QED BY <1>2, <1>3, <1>4, <1>5 DEF CallInv

\* A step that leaves the table, the registry and the calls alone.
LEMMA StutterIInv ==
  ASSUME IInv, UNCHANGED <<g_clients, slotPid, g_clientCount, registry, call>>, OthersInv'
  PROVE  IInv'
<1>1. TableInv'
  BY DEF IInv, TableInv, Active
<1>2. RegInv'
  BY DEF IInv, RegInv
<1>3. CallInv'
  BY DEF IInv, CallInv, HasSlot
<1> QED BY <1>1, <1>2, <1>3 DEF IInv

\* A thread that leaves the lock is not inside the IPC.
LEMMA ThenKeepsOthersInv ==
  ASSUME IInv, NEW t \in Threads, NEW c \in ClientIDs, NEW cmd, NEW pid,
         Free(t, c), Then(t, cmd, c, pid), UNCHANGED ipc, held' \subseteq ClientIDs
  PROVE  OthersInv' /\ RegInv'
<1>1. t \notin sending /\ \A u \in Threads \ {t} : call'[u] = call[u]
  BY DEF IInv, OthersInv, CallInv, Free, Then
<1> QED BY <1>1 DEF IInv, OthersInv, RegInv, ipc

\* A thread whose call is over is not inside the IPC.
LEMMA EndKeepsOthersInv ==
  ASSUME IInv, NEW t \in Threads, Ends(t), ipcConnected' \in BOOLEAN, mixed' \in BOOLEAN,
         UNCHANGED held
  PROVE  OthersInv'
<1>1. \A u \in Threads \ {t} : call'[u] = call[u]
  BY DEF IInv, CallInv, Ends
<1> QED BY <1>1 DEF IInv, OthersInv, Ends

LEMMA TableStutters ==
  ASSUME TableInv, UNCHANGED table
  PROVE  TableInv'
BY DEF TableInv, table, Active

LEMMA NextIInv == IInv /\ [Next]_vars => IInv'
<1> SUFFICES ASSUME IInv, [Next]_vars PROVE IInv'
  OBVIOUS
<1>1. CASE UNCHANGED vars
  BY <1>1, StutterIInv DEF vars, table, ipc, IInv, OthersInv
<1>2. ASSUME NEW t \in Threads, NEW c \in ClientIDs, AddKnown(t, c) PROVE IInv'
  BY <1>1, <1>2, AddKnownSame
<1>3. ASSUME NEW t \in Threads, NEW c \in ClientIDs, AddNew(t, c) PROVE IInv'
  <2>1. TableInv'
    BY <1>3, AddNewTable
  <2>2. CallInv'
    BY <1>3, AddNewTable, ThenKeepsCallInv DEF AddNew, IInv
  <2>3. RegInv' /\ OthersInv'
    BY <1>3, ThenKeepsOthersInv DEF AddNew, IInv, OthersInv
  <2> QED BY <2>1, <2>2, <2>3 DEF IInv
<1>4. ASSUME NEW t \in Threads, NEW c \in ClientIDs, AddRefused(t, c) PROVE IInv'
  BY <1>4, StutterIInv DEF AddRefused, table, ipc, IInv, OthersInv
<1>5. ASSUME NEW t \in Threads, NEW c \in ClientIDs, Remove(t, c) PROVE IInv'
  <2>1. TableInv'
    BY <1>5, RemoveTable
  <2>2. Free(t, c) /\ UNCHANGED ipc /\ held' = held \ {c}
    BY <1>5 DEF Remove
  <2>3. CallInv'
    BY <1>5, <2>2, RemoveTable, ThenKeepsCallInv DEF IInv
  <2>4. RegInv' /\ OthersInv'
    BY <1>5, <2>2, RemoveTable, ThenKeepsOthersInv DEF IInv, OthersInv
  <2> QED BY <2>1, <2>3, <2>4 DEF IInv
<1>6. ASSUME NEW t \in Threads, NEW c \in ClientIDs, RemoveUnknown(t, c) PROVE IInv'
  BY <1>6, StutterIInv DEF RemoveUnknown, table, ipc, IInv, OthersInv
<1>7. ASSUME NEW t \in Threads, Served(t) \/ Cut(t) \/ LoseServer(t) \/ Misled(t) PROVE IInv'
  <2>1. /\ call[t] # Idle /\ registry' \in {registry, Told(t)} /\ Ends(t)
        /\ ipcConnected' \in BOOLEAN /\ mixed' \in BOOLEAN /\ UNCHANGED <<table, held>>
    BY <1>7 DEF Served, Cut, LoseServer, Misled, IInv, OthersInv
  <2>2. RegInv'
    BY <2>1, ToldKeepsRegInv DEF IInv
  <2>3. CallInv' /\ TableInv'
    BY <2>1, EndKeepsCallInv, TableStutters DEF Ends, IInv
  <2>4. OthersInv'
    BY <2>1, EndKeepsOthersInv
  <2> QED BY <2>2, <2>3, <2>4 DEF IInv
<1>8. ASSUME NEW t \in Threads, Send(t) PROVE IInv'
  <2>1. CASE ipcConnected
    <3>1. OthersInv'
      BY <1>8, <2>1 DEF Send, IInv, OthersInv
    <3> QED BY <1>8, <2>1, <3>1, StutterIInv DEF Send, table
  <2>2. CASE ~ipcConnected
    <3>1. Ends(t) /\ UNCHANGED <<table, ipcConnected, registry, held, mixed>>
      BY <1>8, <2>2 DEF Send
    <3>2. OthersInv'
      BY <3>1, EndKeepsOthersInv DEF IInv, OthersInv
    <3>3. CallInv' /\ TableInv' /\ RegInv'
      BY <3>1, EndKeepsCallInv, TableStutters DEF Ends, IInv, RegInv
    <3> QED BY <3>2, <3>3 DEF IInv
  <2> QED BY <2>1, <2>2
<1>9. CASE Misread
  <2>1. UNCHANGED <<table, ipcConnected, call, sending, held, mixed>>
    BY <1>9 DEF Misread
  <2>2. RegInv'
    BY <1>9, RequestKeepsRegInv DEF Misread, IInv
  <2>3. CallInv' /\ OthersInv'
    BY <2>1 DEF IInv, CallInv, OthersInv, HasSlot, table
  <2>4. TableInv'
    BY <2>1, TableStutters DEF IInv
  <2> QED BY <2>2, <2>3, <2>4 DEF IInv
<1> QED BY <1>1, <1>2, <1>3, <1>4, <1>5, <1>6, <1>7, <1>8, <1>9 DEF Next

LEMMA AlwaysIInv == Spec => []IInv
<1> QED BY InitIInv, NextIInv, PTL DEF Spec

\* At most one of something is at most one in number.
LEMMA FewerThanTwo ==
  ASSUME NEW S, \A x, y \in S : x = y
  PROVE  Cardinality(S) \in {0, 1} /\ (S # {} => Cardinality(S) = 1)
<1>1. CASE S = {}
  BY <1>1, FS_EmptySet
<1>2. CASE S # {}
  <2>1. PICK x \in S : S = {x}
    BY <1>2
  <2> QED BY <2>1, FS_Singleton
<1> QED BY <1>1, <1>2

\* The driver's table is sound: no client is in it twice, whoever adds and
\* removes clients at the same time, and g_clientCount is the number of slots
\* in use (app_volume_driver.c:106-186).
THEOREM TypeCorrect == Spec => []TypeOK
<1>1. IInv => TypeOK
  <2> SUFFICES ASSUME IInv PROVE TypeOK
    OBVIOUS
  <2>1. \A c \in ClientIDs : Cardinality(SlotsOf(c)) <= 1
    <3> SUFFICES ASSUME NEW c \in ClientIDs PROVE Cardinality(SlotsOf(c)) <= 1
      OBVIOUS
    <3>1. \A i, j \in SlotsOf(c) : i = j
      BY DriverClientsAssumption DEF IInv, TableInv, SlotsOf
    <3> QED BY <3>1, FewerThanTwo
  <2>2. \A e \in registry : Cardinality(Entries(registry, e.pid)) = 1
    <3> SUFFICES ASSUME NEW e \in registry PROVE Cardinality(Entries(registry, e.pid)) = 1
      OBVIOUS
    <3>1. e \in Entries(registry, e.pid)
      BY DEF Entries
    <3>2. \A f, g \in Entries(registry, e.pid) : f = g
      BY DEF IInv, RegInv, Entries
    <3> QED BY <3>1, <3>2, FewerThanTwo
  <2>3. \A t \in Threads : call[t].ipc \in {"none", "register", "unregister"}
    BY DEF IInv, CallInv
  <2> QED BY <2>1, <2>2, <2>3 DEF IInv, TableInv, OthersInv, TypeOK
<1> QED BY <1>1, AlwaysIInv, PTL

-----------------------------------------------------------------------------
\* What MirrorInv says of client c, by its slot and the calls under way.
Due(c) ==
  \/ HasSlot(c) /\ \A t \in Threads : ~Calls(t, "register", c)
  \/ \E t \in Threads : Calls(t, "unregister", c)

\* A step that does not touch client d leaves what is due of it.
LEMMA DueSame ==
  ASSUME NEW t \in Threads, NEW d \in ClientIDs, CallInv,
         HasSlot(d)' <=> HasSlot(d),
         call[t].client # d, call'[t].client # d,
         \A u \in Threads \ {t} : call'[u] = call[u]
  PROVE  Due(d)' <=> Due(d)
BY DEF Due, Calls

\* The step of a thread that leaves the lock: the registry is due to change
\* only when the server is told.
LEMMA ThenKeepsMirrorInv ==
  ASSUME IInv, MirrorInv, NEW t \in Threads, NEW c \in ClientIDs,
         NEW cmd \in {"register", "unregister"},
         Free(t, c), Then(t, cmd, c, PidOf[c]), UNCHANGED ipc,
         \A d \in ClientIDs \ {c} : HasSlot(d)' <=> HasSlot(d),
         cmd = "register" => HasSlot(c)' /\ ~HasSlot(c),
         cmd = "unregister" => ~HasSlot(c)' /\ HasSlot(c)
  PROVE  MirrorInv'
<1> SUFFICES ASSUME ipcConnected, ~mixed, NEW d \in ClientIDs
             PROVE  (PidOf[d] \in Registered <=> Due(d))'
  BY DEF MirrorInv, Due, ipc
<1>1. /\ call'[t] = [ipc |-> cmd, client |-> c, pid |-> PidOf[c]]
      /\ \A u \in Threads \ {t} : call'[u] = call[u]
  BY DEF Then, IInv, CallInv
<1>2. call[t].client = NoClient /\ \A u \in Threads : call[u].client # c
  BY DEF Free, Idle
<1>3. PidOf[d] \in Registered <=> Due(d)
  BY DEF MirrorInv, Due
<1>4. Registered' = Registered
  BY DEF Registered, ipc
<1>5. CASE d # c
  <2>1. Due(d)' <=> Due(d)
    BY <1>1, <1>2, <1>5, DueSame, DriverClientsAssumption DEF IInv
  <2> QED BY <1>3, <1>4, <2>1
<1>6. CASE d = c /\ cmd = "register"
  <2>1. ~Due(c)
    BY <1>2, <1>6 DEF Due, Calls
  <2>2. ~Due(c)'
    <3>1. \A u \in Threads : ~Calls(u, "unregister", c)'
      BY <1>1, <1>2, <1>6 DEF Calls
    <3>2. Calls(t, "register", c)'
      BY <1>1, <1>6 DEF Calls
    <3> QED BY <3>1, <3>2 DEF Due
  <2> QED BY <1>3, <1>4, <1>6, <2>1, <2>2
<1>7. CASE d = c /\ cmd = "unregister"
  <2>1. Due(c)
    BY <1>2, <1>7 DEF Due, Calls
  <2>2. Due(c)'
    BY <1>1, <1>7 DEF Due, Calls
  <2> QED BY <1>3, <1>4, <1>7, <2>1, <2>2
<1> QED BY <1>5, <1>6, <1>7

\* The server hears of a client: its process is listed or not, as the slot
\* says, and no other process is affected.
LEMMA TellKeepsMirrorInv ==
  ASSUME IInv, MirrorInv, OwnPid, NEW t \in Threads, Served(t)
  PROVE  MirrorInv'
<1>1. /\ call[t] # Idle /\ ipcConnected /\ ~mixed /\ registry' = Told(t)
      /\ call' = [call EXCEPT ![t] = Idle] /\ UNCHANGED table
  BY DEF Served, Ends, IInv, OthersInv
<1>2. /\ call'[t] = Idle
      /\ \A u \in Threads \ {t} : call'[u] = call[u]
  BY <1>1 DEF IInv, CallInv
<1>3. PICK c \in ClientIDs : c = call[t].client
  BY <1>1 DEF IInv, CallInv
<1>4. /\ call[t].ipc \in {"register", "unregister"}
      /\ \A u \in Threads \ {t} : call[u].client # c
      /\ call[t].ipc = "register" => HasSlot(c)
      /\ call[t].ipc = "unregister" => ~HasSlot(c)
  BY <1>1, <1>3, DriverClientsAssumption DEF IInv, CallInv
<1>5. Idle.ipc = "none" /\ Idle.client = NoClient
  BY DEF Idle
<1>6. \A d \in ClientIDs : HasSlot(d)' <=> HasSlot(d)
  BY <1>1 DEF HasSlot, table
<1>7. \A d \in ClientIDs \ {c} : PidOf[d] # PidOf[c]
  BY DEF OwnPid
<1>8. ASSUME NEW p
      PROVE  /\ p # PidOf[c] => (p \in Registered' <=> p \in Registered)
             /\ PidOf[c] \in Registered' <=> call[t].ipc = "register"
  <2>1. CASE call[t].ipc = "register"
    <3> DEFINE new == [pid |-> PidOf[c], volume |-> 100, muted |-> FALSE]
    <3>1. registry' = IF Entries(registry, PidOf[c]) = {} THEN registry \union {new} ELSE registry
      BY <1>1, <1>3, <2>1, ToldIs DEF IInv
    <3>2. new.pid = PidOf[c]
      OBVIOUS
    <3> HIDE DEF new
    <3> QED BY <2>1, <3>1, <3>2 DEF Registered, Entries
  <2>2. CASE call[t].ipc = "unregister"
    <3>1. registry' = registry \ Entries(registry, PidOf[c])
      BY <1>1, <1>3, <2>2, ToldIs DEF IInv
    <3> QED BY <2>2, <3>1 DEF Registered, Entries
  <2> QED BY <1>4, <2>1, <2>2
<1>12. (\A e \in registry : \E d \in ClientIDs : e.pid = PidOf[d])'
  <2>1. \A e \in registry : \E d \in ClientIDs : e.pid = PidOf[d]
    BY <1>1 DEF MirrorInv
  <2>2. ASSUME NEW e \in registry' PROVE \E d \in ClientIDs : e.pid = PidOf[d]
    <3>1. e.pid \in Registered'
      BY <2>2 DEF Registered
    <3>2. e.pid # PidOf[c] => e.pid \in Registered
      BY <1>8, <3>1
    <3> QED BY <2>1, <3>2 DEF Registered
  <2> QED BY <2>2
<1> SUFFICES ASSUME NEW d \in ClientIDs
             PROVE  (PidOf[d] \in Registered <=> Due(d))'
  BY <1>12 DEF MirrorInv, Due
<1>9. PidOf[d] \in Registered <=> Due(d)
  BY <1>1 DEF MirrorInv, Due
<1>10. CASE d # c
  <2>1. Due(d)' <=> Due(d)
    BY <1>3, <1>2, <1>5, <1>6, <1>10, DueSame, DriverClientsAssumption DEF IInv
  <2> QED BY <1>7, <1>8, <1>9, <1>10, <2>1
<1>11. CASE d = c
  <2>1. \A u \in Threads : ~Calls(u, "register", c)' /\ ~Calls(u, "unregister", c)'
    BY <1>2, <1>4, <1>5 DEF Calls
  <2>2. Due(c)' <=> HasSlot(c)
    BY <1>4, <1>6, <2>1 DEF Due
  <2> QED BY <1>4, <1>8, <1>11, <2>2
<1> QED BY <1>10, <1>11

LEMMA NextMirrorInv == OwnPid /\ IInv /\ MirrorInv /\ [Next]_vars => MirrorInv'
<1> SUFFICES ASSUME OwnPid, IInv, MirrorInv, [Next]_vars PROVE MirrorInv'
  OBVIOUS
<1>1. ASSUME UNCHANGED <<g_clients, call, registry, ipcConnected, mixed>> PROVE MirrorInv'
  BY <1>1 DEF MirrorInv, HasSlot, Calls, Registered
<1>2. CASE UNCHANGED vars
  BY <1>1, <1>2 DEF vars, table, ipc
<1>3. ASSUME NEW t \in Threads, NEW c \in ClientIDs, AddNew(t, c) PROVE MirrorInv'
  BY <1>3, AddNewTable, ThenKeepsMirrorInv DEF AddNew
<1>4. ASSUME NEW t \in Threads, NEW c \in ClientIDs, Remove(t, c) PROVE MirrorInv'
  <2>1. Free(t, c) /\ UNCHANGED ipc
    BY <1>4 DEF Remove
  <2> QED BY <1>4, <2>1, RemoveTable, ThenKeepsMirrorInv
<1>5. ASSUME NEW t \in Threads, NEW c \in ClientIDs,
             AddKnown(t, c) \/ AddRefused(t, c) \/ RemoveUnknown(t, c)
      PROVE  MirrorInv'
  BY <1>1, <1>5 DEF AddKnown, AddRefused, RemoveUnknown, table, ipc
<1>6. ASSUME NEW t \in Threads, Cut(t) \/ LoseServer(t) \/ Misled(t) PROVE MirrorInv'
  <2>1. CASE Cut(t)
    BY <2>1 DEF Cut, MirrorInv
  <2>2. CASE LoseServer(t)
    BY <2>2 DEF LoseServer, MirrorInv
  <2>3. CASE Misled(t)
    <3>1. mixed /\ mixed' = mixed
      BY <2>3 DEF Misled
    <3> QED BY <3>1 DEF MirrorInv
  <2> QED BY <1>6, <2>1, <2>2, <2>3
<1>7. ASSUME NEW t \in Threads, Served(t) PROVE MirrorInv'
  BY <1>7, TellKeepsMirrorInv
<1>8. ASSUME NEW t \in Threads, Send(t) PROVE MirrorInv'
  <2>1. CASE ipcConnected
    <3>1. /\ UNCHANGED <<g_clients, call, registry, ipcConnected>> /\ (mixed => mixed')
      BY <1>8, <2>1 DEF Send, table
    <3>2. CASE mixed'
      BY <3>2 DEF MirrorInv
    <3>3. CASE ~mixed'
      BY <3>1, <3>3 DEF MirrorInv, HasSlot, Calls, Registered
    <3> QED BY <3>2, <3>3
  <2>2. CASE ~ipcConnected
    BY <1>8, <2>2 DEF Send, MirrorInv
  <2> QED BY <2>1, <2>2
<1>9. CASE Misread
  BY <1>9 DEF Misread, MirrorInv
<1> QED BY <1>2, <1>3, <1>4, <1>5, <1>6, <1>7, <1>8, <1>9 DEF Next

\* When each client is a process of its own, the server lists exactly the
\* processes in the driver's table once every call is over, in whatever order
\* the threads left the lock and reached the server, until two of them send at
\* once, a request is read without its payload or a call gives the connection
\* up: only these can part the two (app_volume_driver.c:134-147, 168-180).
THEOREM Mirrors ==
  ASSUME OwnPid
  PROVE  Spec => []RegistryFollowsTable
<1>1. Init => MirrorInv
  <2> SUFFICES ASSUME Init PROVE MirrorInv
    OBVIOUS
  <2>1. \A c \in ClientIDs : ~HasSlot(c)
    BY DriverClientsAssumption DEF Init, HasSlot
  <2> QED BY <2>1 DEF Init, MirrorInv, Registered, Calls, Idle
<1>2. IInv /\ MirrorInv => RegistryFollowsTable
  <2> SUFFICES ASSUME IInv, MirrorInv, ipcConnected, ~mixed, \A t \in Threads : call[t] = Idle
               PROVE  Registered = {slotPid[i] : i \in Active}
    BY DEF RegistryFollowsTable, AtRest
  <2>1. \A c \in ClientIDs : PidOf[c] \in Registered <=> HasSlot(c)
    BY DEF MirrorInv, Calls, Idle
  <2>2. ASSUME NEW i \in Active PROVE slotPid[i] \in Registered
    BY <2>1, <2>2 DEF IInv, TableInv, Active, HasSlot
  <2>3. ASSUME NEW p \in Registered PROVE \E i \in Active : p = slotPid[i]
    <3>1. PICK c \in ClientIDs : p = PidOf[c]
      BY <2>3 DEF MirrorInv, Registered
    <3>2. PICK i \in Slots : g_clients[i] = c
      BY <2>1, <3>1 DEF HasSlot
    <3> QED BY <3>1, <3>2, DriverClientsAssumption DEF IInv, TableInv, Active
  <2> QED BY <2>2, <2>3
<1>3. OwnPid
  OBVIOUS
<1> QED BY <1>1, <1>2, <1>3, AlwaysIInv, NextMirrorInv, PTL DEF Spec
=============================================================================
