------------------------ MODULE AppVolumeControlProofs ------------------------
(***************************************************************************)
(* For any applications, any room and any volumes: with one caller         *)
(* (OneThread) the service has, between operations, of every application   *)
(* what the list has, unless it missed something.                          *)
(***************************************************************************)
EXTENDS AppVolumeControl, FiniteSetTheorems, SequenceTheorems, TLAPS

\* One thread calls the operations.
OneThread == \A t, u \in Threads : t = u

Entry == [pid : Pids, volume : 0..100, muted : BOOLEAN, active : BOOLEAN]
Known == [pid : Pids, volume : 0..100, muted : BOOLEAN]
Cmds  == {"Register", "Unregister", "SetVolume", "SetMute"}

\* An application has one entry.
ListInv ==
  /\ g_volumeList \in Seq(Entry)
  /\ Len(g_volumeList) <= MAX_APP_VOLUME_ENTRIES
  /\ \A i, j \in DOMAIN g_volumeList : g_volumeList[i].pid = g_volumeList[j].pid => i = j

CallInv ==
  /\ call \in [Threads -> [at : {"idle", "tell", "send", "sleep"}, cmd : Cmds \union {"none"},
                           pid : Pids \union {NoPid}, volume : 0..100, muted : BOOLEAN, slot : Nat]]
  /\ \A t \in Threads :
       /\ call[t].at = "idle" => call[t] = Idle
       /\ call[t].at # "idle" => call[t].cmd \in Cmds /\ call[t].pid \in Pids
       /\ call[t].at = "sleep" => reconnect_attempts < IPC_RECONNECT_MAX_ATTEMPTS

\* A service that has ended knows nothing, and no link to it is open.
LinkInv ==
  /\ link \in {"none", "open", "stale"}
  /\ reconnect_attempts \in 0..IPC_RECONNECT_MAX_ATTEMPTS
  /\ server \in BOOLEAN /\ running \in BOOLEAN /\ lost \subseteq Pids
  /\ registry \subseteq Known
  /\ ~server => registry = {} /\ link # "open"

TypeInv == ListInv /\ CallInv /\ LinkInv

Entered(pid, volume, muted) == {[pid |-> pid, volume |-> volume, muted |-> muted]}

\* The service has of pid what the list has.
Agree(pid) ==
  /\ SlotsOf(pid) = {} => Entries(registry, pid) = {}
  /\ \A i \in SlotsOf(pid) :
       Entries(registry, pid) = Entered(pid, g_volumeList[i].volume, g_volumeList[i].muted)

\* It has so but for what thread t is about to tell.
AgreeBut(t, pid) ==
  CASE call[t].cmd = "Register" -> Entries(registry, pid) = {} \/ Agree(pid)
    [] call[t].cmd = "SetVolume" ->
         \A i \in SlotsOf(pid) : \E v \in 0..100 :
           Entries(registry, pid) = Entered(pid, v, g_volumeList[i].muted)
    [] call[t].cmd = "SetMute" ->
         \A i \in SlotsOf(pid) : \E m \in BOOLEAN :
           Entries(registry, pid) = Entered(pid, g_volumeList[i].volume, m)
    [] OTHER -> TRUE

\* What thread t is about to tell is what the list has.
Due(t) ==
  LET c == call[t] IN
  /\ c.cmd = "Register" => c.slot \in SlotsOf(c.pid)
  /\ c.cmd = "Unregister" => SlotsOf(c.pid) = {}
  /\ c.cmd \in {"SetVolume", "SetMute"} => SlotsOf(c.pid) # {}
  /\ c.cmd = "SetVolume" => \A i \in SlotsOf(c.pid) : g_volumeList[i].volume = c.volume
  /\ c.cmd = "SetMute" => \A i \in SlotsOf(c.pid) : g_volumeList[i].muted = c.muted

\* The stages of an operation that has yet to tell the service.
Unsaid == {"tell", "send"}

About(t, pid) == call[t].at \in Unsaid /\ call[t].pid = pid

MirrorInv ==
  running =>
    /\ \A t \in Threads : call[t].at \in Unsaid => Due(t)
    /\ \A pid \in Pids \ lost :
         /\ (\A t \in Threads : ~About(t, pid)) => Agree(pid)
         /\ \A t \in Threads : About(t, pid) => AgreeBut(t, pid)

-----------------------------------------------------------------------------
(* The registry                                                             *)

\* A request is about one application.
LEMMA OthersStay ==
  ASSUME NEW clients, clients \subseteq Known, NEW r, NEW pid, pid # r.pid, r.pid \in Pids
  PROVE  Entries(After(clients, r), pid) = Entries(clients, pid)
<1>1. Entries(Register(clients, r), pid) = Entries(clients, pid)
  BY DEF Register, Entries
<1>2. Entries(Unregister(clients, r), pid) = Entries(clients, pid)
  BY DEF Unregister, Entries
<1>3. Entries(SetVolume(clients, r), pid) = Entries(clients, pid)
  BY DEF SetVolume, Change, Entries, Known
<1>4. Entries(SetMute(clients, r), pid) = Entries(clients, pid)
  BY DEF SetMute, Change, Entries, Known
<1> QED BY <1>1, <1>2, <1>3, <1>4 DEF After

\* A registration is taken if there is none.
LEMMA Registered ==
  ASSUME NEW clients, NEW r, r.cmd = "Register"
  PROVE  Entries(After(clients, r), r.pid) =
           IF Entries(clients, r.pid) = {} THEN Entered(r.pid, r.volume, r.muted)
           ELSE Entries(clients, r.pid)
BY DEF After, Register, Entries, Entered

\* A removal leaves nothing.
LEMMA Unregistered ==
  ASSUME NEW clients, NEW r, r.cmd = "Unregister"
  PROVE  Entries(After(clients, r), r.pid) = {}
BY DEF After, Unregister, Entries

\* A volume that is set replaces the one there is.
LEMMA VolumeEntered ==
  ASSUME NEW clients, NEW r, r.cmd = "SetVolume", r.volume \in 0..100, NEW v, NEW m,
         Entries(clients, r.pid) = Entered(r.pid, v, m)
  PROVE  Entries(After(clients, r), r.pid) = Entered(r.pid, r.volume, m)
<1> DEFINE e == [pid |-> r.pid, volume |-> v, muted |-> m]
<1>1. Clamp(r.volume) = r.volume
  BY DEF Clamp
<1>2. [e EXCEPT !.volume = r.volume] = [pid |-> r.pid, volume |-> r.volume, muted |-> m]
  OBVIOUS
<1>3. After(clients, r) = (clients \ {e}) \union {[e EXCEPT !.volume = r.volume]}
  BY <1>1 DEF After, SetVolume, Change, Entered
<1> QED BY <1>2, <1>3 DEF Entries, Entered

\* So does a mute.
LEMMA MuteEntered ==
  ASSUME NEW clients, NEW r, r.cmd = "SetMute", NEW v, NEW m,
         Entries(clients, r.pid) = Entered(r.pid, v, m)
  PROVE  Entries(After(clients, r), r.pid) = Entered(r.pid, v, r.muted)
<1> DEFINE e == [pid |-> r.pid, volume |-> v, muted |-> m]
<1>2. [e EXCEPT !.muted = r.muted] = [pid |-> r.pid, volume |-> v, muted |-> r.muted]
  OBVIOUS
<1>3. After(clients, r) = (clients \ {e}) \union {[e EXCEPT !.muted = r.muted]}
  BY DEF After, SetMute, Change, Entered
<1> QED BY <1>2, <1>3 DEF Entries, Entered

\* The registry stays well formed.
LEMMA KnownStay ==
  ASSUME NEW clients, clients \subseteq Known, NEW r, r.pid \in Pids, r.volume \in 0..100,
         r.muted \in BOOLEAN
  PROVE  After(clients, r) \subseteq Known
<1>1. Clamp(r.volume) = r.volume
  BY DEF Clamp
<1>2. Register(clients, r) \subseteq Known
  BY DEF Register, Known
<1>3. Unregister(clients, r) \subseteq Known
  BY DEF Unregister
<1>4. SetVolume(clients, r) \subseteq Known
  BY <1>1 DEF SetVolume, Change, Entries, Known
<1>5. SetMute(clients, r) \subseteq Known
  BY DEF SetMute, Change, Entries, Known
<1> QED BY <1>2, <1>3, <1>4, <1>5 DEF After

-----------------------------------------------------------------------------
(* The list                                                                 *)

\* The slot that is found is one of the application's.
LEMMA Found == ASSUME NEW pid, SlotsOf(pid) # {} PROVE SlotOf(pid) \in SlotsOf(pid)
BY DEF SlotOf

\* Where the entries go when one is taken out.
LEMMA Removed ==
  ASSUME NEW S, NEW s \in Seq(S), NEW i \in 1..Len(s)
  PROVE  /\ RemoveAt(s, i) \in Seq(S) /\ Len(RemoveAt(s, i)) = Len(s) - 1
         /\ \A j \in 1..(Len(s) - 1) : RemoveAt(s, i)[j] = IF j < i THEN s[j] ELSE s[j + 1]
<1> DEFINE a == SubSeq(s, 1, i - 1)
           b == SubSeq(s, i + 1, Len(s))
<1>1. a \in Seq(S) /\ Len(a) = i - 1 /\ \A j \in 1..(i - 1) : a[j] = s[j]
  OBVIOUS
<1>2. b \in Seq(S) /\ Len(b) = Len(s) - i /\ \A j \in 1..(Len(s) - i) : b[j] = s[i + j]
  OBVIOUS
<1>3. RemoveAt(s, i) = a \o b
  BY DEF RemoveAt
<1> HIDE DEF a, b
<1>0. Len(s) \in Nat /\ i \in 1..Len(s)
  OBVIOUS
<1>4. a \o b \in Seq(S) /\ Len(a \o b) = Len(s) - 1
  <2>1. a \o b \in Seq(S) /\ Len(a \o b) = Len(a) + Len(b)
    BY <1>1, <1>2, ConcatProperties, Zenon
  <2> QED BY <2>1, <1>0, <1>1, <1>2
<1>a. \A j \in 1..(Len(a) + Len(b)) : (a \o b)[j] = IF j <= Len(a) THEN a[j] ELSE b[j - Len(a)]
  BY <1>1, <1>2, ConcatProperties, Zenon
<1>5. ASSUME NEW j \in 1..(Len(s) - 1) PROVE (a \o b)[j] = IF j < i THEN s[j] ELSE s[j + 1]
  <2>0. (a \o b)[j] = IF j <= i - 1 THEN a[j] ELSE b[j - (i - 1)]
    BY <1>0, <1>1, <1>2, <1>a
  <2>1. CASE j < i
    BY <1>0, <1>1, <2>0, <2>1
  <2>2. CASE j >= i
    <3>1. (a \o b)[j] = b[j - (i - 1)] /\ j - (i - 1) \in 1..(Len(s) - i)
      BY <1>0, <2>0, <2>2
    <3>2. i + (j - (i - 1)) = j + 1 /\ ~(j < i)
      BY <1>0, <2>2
    <3>3. b[j - (i - 1)] = s[j + 1]
      BY <1>2, <3>1, <3>2
    <3> QED BY <3>1, <3>2, <3>3
  <2>3. j < i \/ j >= i
    BY <1>0
  <2> QED BY <2>1, <2>2, <2>3
<1> QED BY <1>3, <1>4, <1>5

\* A list with one entry changed, not its pid.
LEMMA Changed ==
  ASSUME ListInv, NEW i \in DOMAIN g_volumeList, NEW e \in Entry, e.pid = g_volumeList[i].pid,
         g_volumeList' = [g_volumeList EXCEPT ![i] = e]
  PROVE  ListInv' /\ \A pid : SlotsOf(pid)' = SlotsOf(pid)
<1>1. /\ g_volumeList' \in Seq(Entry) /\ Len(g_volumeList') = Len(g_volumeList)
      /\ DOMAIN g_volumeList' = DOMAIN g_volumeList
  BY DEF ListInv
<1>2. \A j \in DOMAIN g_volumeList : g_volumeList'[j].pid = g_volumeList[j].pid
  BY DEF ListInv
<1> QED BY <1>1, <1>2 DEF ListInv, SlotsOf

\* One entry more.
LEMMA Added ==
  ASSUME ListInv, NEW pid \in Pids, SlotsOf(pid) = {}, Len(g_volumeList) < MAX_APP_VOLUME_ENTRIES,
         g_volumeList' = Append(g_volumeList, NewEntry(pid))
  PROVE  /\ ListInv'
         /\ SlotsOf(pid)' = {Len(g_volumeList) + 1}
         /\ \A q : q # pid => SlotsOf(q)' = SlotsOf(q)
         /\ \A j \in DOMAIN g_volumeList : g_volumeList'[j] = g_volumeList[j]
         /\ g_volumeList'[Len(g_volumeList) + 1] = NewEntry(pid)
<1> DEFINE n == Len(g_volumeList)
<1>1. NewEntry(pid) \in Entry /\ NewEntry(pid).pid = pid
  BY DEF NewEntry, Entry
<1>2. /\ n \in Nat /\ DOMAIN g_volumeList = 1..n
      /\ g_volumeList' \in Seq(Entry) /\ Len(g_volumeList') = n + 1 /\ DOMAIN g_volumeList' = 1..(n + 1)
      /\ \A j \in 1..n : g_volumeList'[j] = g_volumeList[j]
      /\ g_volumeList'[n + 1] = NewEntry(pid)
  BY <1>1 DEF ListInv
<1>3. \A j \in 1..n : g_volumeList[j].pid # pid
  BY <1>2 DEF SlotsOf
<1>4. n + 1 <= MAX_APP_VOLUME_ENTRIES
  BY <1>2, AppVolumeControlAssumption
<1> HIDE DEF n
<1>5. \A j \in 1..(n + 1) : j \in 1..n \/ j = n + 1
  BY <1>2
<1>6. SlotsOf(pid)' = {n + 1} /\ \A q : q # pid => SlotsOf(q)' = SlotsOf(q)
  BY <1>1, <1>2, <1>3, <1>5 DEF SlotsOf
<1>7. ListInv'
  BY <1>1, <1>2, <1>3, <1>4, <1>5 DEF ListInv
<1> QED BY <1>2, <1>6, <1>7 DEF n

\* One entry less: the others are the same, wherever they are.
LEMMA Left ==
  ASSUME ListInv, NEW pid, NEW i \in SlotsOf(pid), g_volumeList' = RemoveAt(g_volumeList, i)
  PROVE  /\ ListInv'
         /\ SlotsOf(pid)' = {}
         /\ \A q : q # pid =>
              /\ SlotsOf(q)' = {} => SlotsOf(q) = {}
              /\ \A j \in SlotsOf(q)' : \E k \in SlotsOf(q) : g_volumeList'[j] = g_volumeList[k]
<1> DEFINE n == Len(g_volumeList)
           Was(j) == IF j < i THEN j ELSE j + 1
<1>1. n \in Nat /\ DOMAIN g_volumeList = 1..n /\ i \in 1..n
  BY DEF ListInv, SlotsOf
<1>p. g_volumeList[i].pid = pid
  BY DEF SlotsOf
<1>2. /\ g_volumeList' \in Seq(Entry) /\ Len(g_volumeList') = n - 1
      /\ DOMAIN g_volumeList' = 1..(n - 1)
      /\ \A j \in 1..(n - 1) : g_volumeList'[j] = g_volumeList[Was(j)]
  <2>1. g_volumeList \in Seq(Entry)
    BY DEF ListInv
  <2>2. /\ RemoveAt(g_volumeList, i) \in Seq(Entry) /\ Len(RemoveAt(g_volumeList, i)) = n - 1
        /\ \A j \in 1..(n - 1) : RemoveAt(g_volumeList, i)[j] =
             IF j < i THEN g_volumeList[j] ELSE g_volumeList[j + 1]
    BY <1>1, <2>1, Removed
  <2> QED BY <1>1, <2>2
<1>3. ASSUME NEW j \in 1..(n - 1)
      PROVE  Was(j) \in 1..n /\ Was(j) # i /\ \A k \in 1..(n - 1) : Was(k) = Was(j) => k = j
  BY <1>1
<1> HIDE DEF n, Was
<1>4. ListInv'
  <2>1. n - 1 <= MAX_APP_VOLUME_ENTRIES
    BY <1>1, AppVolumeControlAssumption DEF ListInv, n
  <2>2. ASSUME NEW j \in 1..(n - 1), NEW k \in 1..(n - 1), g_volumeList'[j].pid = g_volumeList'[k].pid
        PROVE  j = k
    <3>1. g_volumeList[Was(j)].pid = g_volumeList[Was(k)].pid
      BY <1>2, <2>2
    <3>2. Was(j) = Was(k)
      BY <1>1, <1>3, <3>1 DEF ListInv
    <3> QED BY <1>3, <3>2
  <2> QED BY <1>2, <2>1, <2>2 DEF ListInv
<1>5. SlotsOf(pid)' = {}
  <2>1. \A j \in 1..(n - 1) : g_volumeList'[j].pid # pid
    BY <1>1, <1>2, <1>3, <1>p DEF ListInv
  <2> QED BY <1>2, <2>1 DEF SlotsOf
<1>6. ASSUME NEW q, q # pid, NEW j \in SlotsOf(q)'
      PROVE  \E k \in SlotsOf(q) : g_volumeList'[j] = g_volumeList[k]
  <2>1. j \in 1..(n - 1) /\ g_volumeList'[j].pid = q
    BY <1>2 DEF SlotsOf
  <2>2. Was(j) \in SlotsOf(q)
    BY <2>1, <1>1, <1>2, <1>3, <1>p DEF SlotsOf
  <2> QED BY <2>1, <2>2, <1>2
<1>7. ASSUME NEW q, q # pid, NEW k \in SlotsOf(q) PROVE SlotsOf(q)' # {}
  <2>1. k \in 1..n /\ g_volumeList[k].pid = q /\ k # i
    BY <1>1, <1>7, <1>p DEF SlotsOf
  <2> DEFINE j == IF k < i THEN k ELSE k - 1
  <2>2. j \in 1..(n - 1) /\ Was(j) = k
    BY <1>1, <2>1 DEF Was
  <2> HIDE DEF j
  <2>3. j \in SlotsOf(q)'
    BY <1>2, <2>1, <2>2 DEF SlotsOf
  <2> QED BY <2>3
<1> QED BY <1>4, <1>5, <1>6, <1>7

-----------------------------------------------------------------------------
(* Types                                                                    *)

\* What a step of the list leaves to tell is well formed.
LEMMA ThenTypes ==
  ASSUME CallInv, NEW t \in Threads, NEW cmd \in Cmds, NEW pid \in Pids, NEW volume \in 0..100,
         NEW muted \in BOOLEAN, NEW slot \in Nat, Then(t, cmd, pid, volume, muted, slot),
         UNCHANGED reconnect_attempts
  PROVE  CallInv'
<1> DEFINE c == [at |-> "tell", cmd |-> cmd, pid |-> pid, volume |-> volume, muted |-> muted, slot |-> slot]
<1>1. call' = [call EXCEPT ![t] = c]
  BY DEF Then
<1>2. c \in [at : {"idle", "tell", "send", "sleep"}, cmd : Cmds \union {"none"},
             pid : Pids \union {NoPid}, volume : 0..100, muted : BOOLEAN, slot : Nat]
      /\ c.at = "tell" /\ c.cmd \in Cmds /\ c.pid \in Pids
  OBVIOUS
<1> HIDE DEF c
<1> QED BY <1>1, <1>2 DEF CallInv

\* A thread that is done is.
LEMMA IdleTypes ==
  ASSUME CallInv, NEW t \in Threads, OneThread, call' = [call EXCEPT ![t] = Idle] PROVE CallInv'
<1>1. Idle \in [at : {"idle", "tell", "send", "sleep"}, cmd : Cmds \union {"none"},
                pid : Pids \union {NoPid}, volume : 0..100, muted : BOOLEAN, slot : Nat]
      /\ Idle.at = "idle"
  BY DEF Idle
<1> HIDE DEF Idle
<1>2. \A u \in Threads : call'[u] = Idle
  BY DEF CallInv, OneThread
<1> QED BY <1>1, <1>2 DEF CallInv

\* A volume asked for is brought into range.
LEMMA ClampInRange == ASSUME NEW v \in Int PROVE Clamp(v) \in 0..100
BY DEF Clamp

\* What is told is well formed.
LEMMA RequestTypes ==
  ASSUME TypeInv, NEW t \in Threads, call[t].at \in Unsaid
  PROVE  /\ Request(t).pid = call[t].pid /\ Request(t).cmd = call[t].cmd
         /\ call[t].pid \in Pids /\ call[t].cmd \in Cmds
         /\ Request(t).volume \in 0..100 /\ Request(t).muted \in BOOLEAN
         /\ After(registry, Request(t)) \subseteq Known
<1>1. call[t].pid \in Pids /\ call[t].cmd \in Cmds /\ call[t].volume \in 0..100 /\ call[t].muted \in BOOLEAN
  BY DEF TypeInv, CallInv, Unsaid
<1>2. ASSUME NEW i PROVE Slot(i).volume \in 0..100 /\ Slot(i).muted \in BOOLEAN
  <2>1. CASE i \in DOMAIN g_volumeList
    <3>1. g_volumeList[i] \in Entry
      BY <2>1 DEF TypeInv, ListInv
    <3> QED BY <2>1, <3>1 DEF Slot, Entry
  <2>2. CASE i \notin DOMAIN g_volumeList
    BY <2>2 DEF Slot
  <2> QED BY <2>1, <2>2
<1>3. Request(t).pid = call[t].pid /\ Request(t).cmd = call[t].cmd
  BY DEF Request
<1>4. Request(t).volume \in 0..100 /\ Request(t).muted \in BOOLEAN
  <2>1. CASE call[t].cmd = "Register"
    BY <1>2, <2>1 DEF Request
  <2>2. CASE call[t].cmd # "Register"
    BY <1>1, <2>2 DEF Request
  <2> QED BY <2>1, <2>2
<1>5. After(registry, Request(t)) \subseteq Known
  BY <1>1, <1>3, <1>4, KnownStay DEF TypeInv, LinkInv
<1> QED BY <1>1, <1>3, <1>4, <1>5

\* A step of the list.
LEMMA OperationTypes ==
  ASSUME TypeInv, NEW t \in Threads, NEW pid \in Pids, Operation(t, pid)
  PROVE  TypeInv'
<1>0. ListInv /\ CallInv /\ LinkInv
  BY DEF TypeInv
<1>a. ASSUME UNCHANGED <<ipc, service>> PROVE LinkInv' /\ UNCHANGED reconnect_attempts
  BY <1>0, <1>a DEF ipc, service, LinkInv
<1>b. ASSUME SlotsOf(pid) # {}
      PROVE  /\ SlotOf(pid) \in DOMAIN g_volumeList /\ g_volumeList[SlotOf(pid)] \in Entry
             /\ g_volumeList[SlotOf(pid)].pid = pid /\ SlotOf(pid) \in Nat
  BY <1>0, <1>b, Found DEF SlotsOf, ListInv
<1>c. {"Register", "Unregister", "SetVolume", "SetMute"} = Cmds /\ 0 \in 0..100 /\ 0 \in Nat
      /\ FALSE \in BOOLEAN
  BY DEF Cmds
<1>1. CASE RegisterKnown(t, pid)
  <2>1. SlotsOf(pid) # {} /\ UNCHANGED <<ipc, service>> /\ Then(t, "Register", pid, 0, FALSE, SlotOf(pid))
    BY <1>1 DEF RegisterKnown
  <2>2. [g_volumeList[SlotOf(pid)] EXCEPT !.active = TRUE] \in Entry
        /\ [g_volumeList[SlotOf(pid)] EXCEPT !.active = TRUE].pid = g_volumeList[SlotOf(pid)].pid
    BY <1>b, <2>1 DEF Entry
  <2>3. g_volumeList' = [g_volumeList EXCEPT ![SlotOf(pid)] = [g_volumeList[SlotOf(pid)] EXCEPT !.active = TRUE]]
    BY <1>1 DEF RegisterKnown
  <2>4. ListInv'
    BY <1>0, <1>b, <2>1, <2>2, <2>3, Changed
  <2>5. "Register" \in Cmds /\ SlotOf(pid) \in Nat /\ UNCHANGED reconnect_attempts
    BY <1>a, <1>b, <1>c, <2>1
  <2>6. CallInv'
    BY <1>0, <1>c, <2>1, <2>5, ThenTypes
  <2> QED BY <1>a, <2>1, <2>4, <2>6 DEF TypeInv
<1>2. CASE RegisterNew(t, pid)
  <2>1. /\ SlotsOf(pid) = {} /\ UNCHANGED <<ipc, service>> /\ Len(g_volumeList) < MAX_APP_VOLUME_ENTRIES
        /\ Then(t, "Register", pid, 0, FALSE, Len(g_volumeList) + 1)
        /\ g_volumeList' = Append(g_volumeList, NewEntry(pid))
    BY <1>2 DEF RegisterNew
  <2>2. ListInv'
    BY <1>0, <2>1, Added
  <2>3. Len(g_volumeList) + 1 \in Nat
    BY <1>0 DEF ListInv
  <2>4. CallInv'
    BY <1>0, <1>a, <2>1, <2>3, <1>c, ThenTypes
  <2> QED BY <1>a, <2>1, <2>2, <2>4 DEF TypeInv
<1>3. CASE AppUnregister(t, pid)
  <2>1. /\ SlotsOf(pid) # {} /\ UNCHANGED <<ipc, service>>
        /\ Then(t, "Unregister", pid, 0, FALSE, 0)
        /\ g_volumeList' = RemoveAt(g_volumeList, SlotOf(pid))
    BY <1>3 DEF AppUnregister
  <2>2. ListInv'
    BY <1>0, <2>1, Found, Left
  <2>4. CallInv'
    BY <1>0, <1>a, <2>1, <1>c, ThenTypes
  <2> QED BY <1>a, <2>1, <2>2, <2>4 DEF TypeInv
<1>4. ASSUME NEW volume \in Volumes, AppSet(t, pid, volume) PROVE TypeInv'
  <2>0. Clamp(volume) \in 0..100
    BY ClampInRange, AppVolumeControlAssumption
  <2>1. /\ SlotsOf(pid) # {} /\ UNCHANGED <<ipc, service>>
        /\ Then(t, "SetVolume", pid, Clamp(volume), FALSE, 0)
        /\ g_volumeList' = [g_volumeList EXCEPT ![SlotOf(pid)] =
                              [g_volumeList[SlotOf(pid)] EXCEPT !.volume = Clamp(volume)]]
    BY <1>4 DEF AppSet
  <2>2. [g_volumeList[SlotOf(pid)] EXCEPT !.volume = Clamp(volume)] \in Entry
        /\ [g_volumeList[SlotOf(pid)] EXCEPT !.volume = Clamp(volume)].pid = g_volumeList[SlotOf(pid)].pid
    BY <1>b, <2>0, <2>1 DEF Entry
  <2>4. ListInv'
    BY <1>0, <1>b, <2>1, <2>2, Changed
  <2>5. CallInv'
    BY <1>0, <1>a, <2>0, <2>1, <1>c, ThenTypes
  <2> QED BY <1>a, <2>1, <2>4, <2>5 DEF TypeInv
<1>5. ASSUME NEW flag \in BOOLEAN, AppSetMute(t, pid, flag) PROVE TypeInv'
  <2>1. /\ SlotsOf(pid) # {} /\ UNCHANGED <<ipc, service>>
        /\ Then(t, "SetMute", pid, 0, flag, 0)
        /\ g_volumeList' = [g_volumeList EXCEPT ![SlotOf(pid)] =
                              [g_volumeList[SlotOf(pid)] EXCEPT !.muted = flag]]
    BY <1>5 DEF AppSetMute
  <2>2. [g_volumeList[SlotOf(pid)] EXCEPT !.muted = flag] \in Entry
        /\ [g_volumeList[SlotOf(pid)] EXCEPT !.muted = flag].pid = g_volumeList[SlotOf(pid)].pid
    BY <1>b, <2>1 DEF Entry
  <2>4. ListInv'
    BY <1>0, <1>b, <2>1, <2>2, Changed
  <2>5. CallInv'
    BY <1>0, <1>a, <2>1, <1>c, ThenTypes
  <2> QED BY <1>a, <2>1, <2>4, <2>5 DEF TypeInv
<1>6. ASSUME NEW flag \in BOOLEAN, AppSetActive(t, pid, flag) PROVE TypeInv'
  <2>1. /\ SlotsOf(pid) # {} /\ UNCHANGED <<ipc, call, service>>
        /\ g_volumeList' = [g_volumeList EXCEPT ![SlotOf(pid)] =
                              [g_volumeList[SlotOf(pid)] EXCEPT !.active = flag]]
    BY <1>6 DEF AppSetActive
  <2>2. [g_volumeList[SlotOf(pid)] EXCEPT !.active = flag] \in Entry
        /\ [g_volumeList[SlotOf(pid)] EXCEPT !.active = flag].pid = g_volumeList[SlotOf(pid)].pid
    BY <1>b, <2>1 DEF Entry
  <2>4. ListInv'
    BY <1>0, <1>b, <2>1, <2>2, Changed
  <2>5. CallInv'
    BY <1>0, <2>1 DEF CallInv, ipc
  <2> QED BY <1>a, <2>1, <2>4, <2>5 DEF TypeInv
<1> QED BY <1>1, <1>2, <1>3, <1>4, <1>5, <1>6 DEF Operation

\* A step of the IPC.
LEMMA TellingTypes ==
  ASSUME TypeInv, OneThread, NEW t \in Threads, Telling(t) PROVE TypeInv'
<1>0. ListInv /\ CallInv /\ LinkInv
  BY DEF TypeInv
<1>a. ASSUME UNCHANGED g_volumeList PROVE ListInv'
  BY <1>0, <1>a DEF ListInv
<1>1. CASE Tell(t)
  <2>1. CallInv' /\ ListInv'
    BY <1>0, <1>1, <1>a, IdleTypes DEF Tell
  <2>2. registry' \subseteq Known
    BY <1>1, RequestTypes DEF Tell, Unsaid
  <2>3. lost' \subseteq Pids
    BY <1>0, <1>1 DEF Tell, StillLost, LinkInv
  <2>4. link' = "open" /\ server /\ UNCHANGED <<server, running, reconnect_attempts>>
    BY <1>0, <1>1 DEF Tell, LinkInv, ipc
  <2> QED BY <1>0, <2>1, <2>2, <2>3, <2>4, AppVolumeControlAssumption DEF TypeInv, LinkInv
<1>2. CASE Missed(t)
  <2>1. CallInv' /\ ListInv'
    BY <1>0, <1>2, <1>a, IdleTypes DEF Missed
  <2>2. registry' \subseteq Known /\ call[t].pid \in Pids
    BY <1>0, <1>2, RequestTypes DEF Missed, LinkInv, Unsaid
  <2>3. ~server => registry' = {}
    BY <1>0, <1>2 DEF Missed, LinkInv
  <2> QED BY <1>0, <1>2, <2>1, <2>2, <2>3 DEF TypeInv, LinkInv, Missed
<1>3. CASE Piped(t)
  <2>1. call' = [call EXCEPT ![t] = Idle]
    BY <1>0, <1>3 DEF Piped, OneThread, CallInv
  <2>2. CallInv' /\ ListInv'
    BY <1>0, <1>3, <1>a, <2>1, IdleTypes DEF Piped
  <2> QED BY <1>0, <1>3, <2>2 DEF TypeInv, LinkInv, Piped, service
<1>4. CASE Refused(t)
  <2>1. UNCHANGED <<g_volumeList, link, reconnect_attempts, running, server, registry>>
        /\ lost' = lost \union {call[t].pid} /\ call[t].at = "tell"
    BY <1>4 DEF Refused, ipc
  <2>2. call[t].pid \in Pids
    BY <1>0, <2>1 DEF CallInv
  <2>3. CASE call' = [call EXCEPT ![t] = Idle]
    BY <1>0, <1>a, <2>1, <2>2, <2>3, IdleTypes DEF TypeInv, LinkInv
  <2>4. CASE call' = [call EXCEPT ![t].at = "sleep"] /\ reconnect_attempts < IPC_RECONNECT_MAX_ATTEMPTS
    <3>1. CallInv'
      BY <1>0, <2>1, <2>4 DEF CallInv
    <3> QED BY <1>0, <1>a, <2>1, <2>2, <3>1 DEF TypeInv, LinkInv
  <2> QED BY <1>4, <2>3, <2>4 DEF Refused
<1>5. CASE Reconnect(t)
  <2>1. CallInv' /\ ListInv'
    BY <1>0, <1>5, <1>a, IdleTypes DEF Reconnect
  <2>2. reconnect_attempts < IPC_RECONNECT_MAX_ATTEMPTS
    BY <1>0, <1>5 DEF Reconnect, CallInv
  <2>3. reconnect_attempts' \in 0..IPC_RECONNECT_MAX_ATTEMPTS
    BY <1>0, <1>5, <2>2, AppVolumeControlAssumption DEF Reconnect, LinkInv
  <2> QED BY <1>0, <1>5, <2>1, <2>3 DEF Reconnect, TypeInv, LinkInv, service
<1>6. CASE EnsureConnected(t)
  <2>1. /\ call[t].at = "tell" /\ call' = [call EXCEPT ![t].at = "send"]
        /\ UNCHANGED <<g_volumeList, running, service>>
        /\ \/ UNCHANGED <<link, reconnect_attempts>>
           \/ server /\ link' = "open" /\ reconnect_attempts' = 0
    BY <1>6 DEF EnsureConnected, Connects
  <2>2. CallInv'
    BY <1>0, <2>1, AppVolumeControlAssumption DEF CallInv, OneThread
  <2> QED BY <1>0, <1>a, <2>1, <2>2, AppVolumeControlAssumption DEF TypeInv, LinkInv, service
<1> QED BY <1>1, <1>2, <1>3, <1>4, <1>5, <1>6 DEF Telling

\* A step of the service.
LEMMA ServiceTypes == ASSUME TypeInv, ServerEnds \/ ServerStarts PROVE TypeInv'
<1>0. ListInv /\ CallInv /\ LinkInv
  BY DEF TypeInv
<1>1. ListInv' /\ CallInv'
  BY <1>0 DEF ServerEnds, ServerStarts, ListInv, CallInv, ipc
<1>2. ASSUME NEW i \in DOMAIN g_volumeList PROVE g_volumeList[i].pid \in Pids
  <2>1. g_volumeList[i] \in Entry
    BY <1>0 DEF ListInv
  <2> QED BY <2>1 DEF Entry
<1>3. LinkInv'
  BY <1>0, <1>2 DEF ServerEnds, ServerStarts, LinkInv, ipc
<1> QED BY <1>1, <1>3 DEF TypeInv

\* Each step keeps the state well formed.
LEMMA TypeStep == ASSUME OneThread, TypeInv, [Next]_vars PROVE TypeInv'
<1>1. CASE UNCHANGED vars
  BY <1>1 DEF TypeInv, ListInv, CallInv, LinkInv, vars, ipc, service
<1> QED BY <1>1, OperationTypes, TellingTypes, ServiceTypes DEF Next

-----------------------------------------------------------------------------
(* The mirror                                                               *)

\* What the service and the list have of q stays, wherever its entry goes.
Same(q) ==
  /\ Entries(registry', q) = Entries(registry, q)
  /\ SlotsOf(q)' = {} => SlotsOf(q) = {}
  /\ \A j \in SlotsOf(q)' : \E k \in SlotsOf(q) :
       g_volumeList'[j].volume = g_volumeList[k].volume /\ g_volumeList'[j].muted = g_volumeList[k].muted

\* Then they agree if they did.
LEMMA SameAgree == ASSUME NEW q, Agree(q), Same(q) PROVE Agree(q)'
BY DEF Agree, Same

\* A list that stays is the same for everybody the service is not told of.
LEMMA SameList ==
  ASSUME NEW q, UNCHANGED g_volumeList, Entries(registry', q) = Entries(registry, q) PROVE Same(q)
BY DEF Same, SlotsOf

\* An application has one slot at most.
LEMMA OneSlot == ASSUME ListInv, NEW q, NEW i \in SlotsOf(q), NEW j \in SlotsOf(q) PROVE i = j
BY DEF ListInv, SlotsOf

\* A step of the list that leaves something to tell.
LEMMA ThenMirror ==
  ASSUME TypeInv, MirrorInv, OneThread, NEW t \in Threads, NEW pid \in Pids, Free(t, pid),
         UNCHANGED <<ipc, service>>, NEW c, call' = [call EXCEPT ![t] = c],
         c.at = "tell", c.pid = pid, \A q \in Pids : q # pid => Same(q),
         Due(t)', pid \notin lost /\ Agree(pid) => AgreeBut(t, pid)'
  PROVE  MirrorInv'
<1>1. running /\ call[t] = Idle /\ Idle.at = "idle"
  BY DEF Free, Idle
<1>2. call'[t] = c /\ \A u \in Threads : u = t
  BY DEF TypeInv, CallInv, OneThread
<1>3. ASSUME NEW q \in Pids \ lost PROVE Agree(q)
  BY <1>1, <1>2, <1>3 DEF MirrorInv, About, Unsaid
<1>4. lost' = lost
  BY DEF service
<1>5. ASSUME NEW q \in Pids \ lost', \A u \in Threads : ~About(u, q)' PROVE Agree(q)'
  <2>1. q # pid
    BY <1>2, <1>5 DEF About, Unsaid
  <2> QED BY <1>3, <1>4, <2>1, SameAgree
<1>6. ASSUME NEW q \in Pids \ lost', NEW u \in Threads, About(u, q)' PROVE AgreeBut(u, q)'
  <2>1. q = pid /\ u = t
    BY <1>2, <1>6 DEF About, Unsaid
  <2>2. AgreeBut(t, pid)'
    BY <1>3, <1>4, <2>1
  <2> QED BY <2>1, <2>2
<1>7. ASSUME NEW u \in Threads PROVE Due(u)'
  BY <1>2
<1> QED BY <1>5, <1>6, <1>7 DEF MirrorInv

\* Each operation keeps the mirror, but for what it has to tell.
LEMMA OperationMirror ==
  ASSUME TypeInv, MirrorInv, OneThread, NEW t \in Threads, NEW pid \in Pids, Operation(t, pid)
  PROVE  MirrorInv'
<1>0. ListInv /\ CallInv /\ call \in [Threads -> [at : {"idle", "tell", "send", "sleep"}, cmd : Cmds \union {"none"},
                           pid : Pids \union {NoPid}, volume : 0..100, muted : BOOLEAN, slot : Nat]]
  BY DEF TypeInv, CallInv
<1>b. ASSUME SlotsOf(pid) # {}
      PROVE  /\ SlotOf(pid) \in DOMAIN g_volumeList /\ g_volumeList[SlotOf(pid)] \in Entry
             /\ g_volumeList[SlotOf(pid)].pid = pid /\ SlotsOf(pid) = {SlotOf(pid)}
  BY <1>0, <1>b, Found, OneSlot DEF SlotsOf, ListInv
<1>e. ASSUME NEW e \in Entry, SlotsOf(pid) # {}, e.pid = pid, UNCHANGED service,
             g_volumeList' = [g_volumeList EXCEPT ![SlotOf(pid)] = e]
      PROVE  /\ \A q \in Pids : q # pid => Same(q)
             /\ SlotsOf(pid)' = {SlotOf(pid)} /\ g_volumeList'[SlotOf(pid)] = e
             /\ Entries(registry', pid) = Entries(registry, pid)
             /\ g_volumeList[SlotOf(pid)].volume = e.volume /\ g_volumeList[SlotOf(pid)].muted = e.muted
                  => Same(pid)
  <2>1. \A q : SlotsOf(q)' = SlotsOf(q)
    BY <1>0, <1>b, <1>e, Changed
  <2>2. /\ g_volumeList'[SlotOf(pid)] = e
        /\ \A j \in DOMAIN g_volumeList : j # SlotOf(pid) => g_volumeList'[j] = g_volumeList[j]
    BY <1>b, <1>e
  <2>3. registry' = registry
    BY <1>e DEF service
  <2>4. ASSUME NEW q \in Pids, q # pid PROVE Same(q)
    BY <1>b, <1>e, <2>1, <2>2, <2>3, <2>4 DEF Same, SlotsOf
  <2>5. g_volumeList[SlotOf(pid)].volume = e.volume /\ g_volumeList[SlotOf(pid)].muted = e.muted => Same(pid)
    BY <1>b, <1>e, <2>1, <2>2, <2>3 DEF Same
  <2> QED BY <1>b, <1>e, <2>1, <2>2, <2>3, <2>4, <2>5
<1>1. CASE RegisterKnown(t, pid)
  <2> DEFINE e == [g_volumeList[SlotOf(pid)] EXCEPT !.active = TRUE]
  <2>1. /\ SlotsOf(pid) # {} /\ UNCHANGED <<ipc, service>> /\ Then(t, "Register", pid, 0, FALSE, SlotOf(pid))
        /\ Free(t, pid) /\ g_volumeList' = [g_volumeList EXCEPT ![SlotOf(pid)] = e]
    BY <1>1 DEF RegisterKnown
  <2>2. e \in Entry /\ e.pid = pid /\ e.volume = g_volumeList[SlotOf(pid)].volume
        /\ e.muted = g_volumeList[SlotOf(pid)].muted
    BY <1>b, <2>1 DEF Entry
  <2> HIDE DEF e
  <2>3. /\ \A q \in Pids : q # pid => Same(q)
        /\ Same(pid) /\ SlotsOf(pid)' = {SlotOf(pid)}
    BY <1>e, <2>1, <2>2
  <2> DEFINE c == [at |-> "tell", cmd |-> "Register", pid |-> pid, volume |-> 0, muted |-> FALSE, slot |-> SlotOf(pid)]
  <2>4. call' = [call EXCEPT ![t] = c] /\ call'[t] = c
    BY <1>0, <2>1 DEF Then
  <2>c. c.at = "tell" /\ c.cmd = "Register" /\ c.pid = pid /\ c.volume = 0 /\ c.muted = FALSE /\ c.slot = SlotOf(pid)
    OBVIOUS
  <2> HIDE DEF c
  <2>5. Due(t)'
    BY <2>3, <2>4, <2>c DEF Due, SlotsOf
  <2>6. Agree(pid) => AgreeBut(t, pid)'
    BY <2>3, <2>4, <2>c, SameAgree DEF AgreeBut
  <2> QED BY <2>1, <2>3, <2>4, <2>5, <2>6, <2>c, ThenMirror
<1>2. CASE RegisterNew(t, pid)
  <2> DEFINE n == Len(g_volumeList) + 1
  <2>1. /\ SlotsOf(pid) = {} /\ UNCHANGED <<ipc, service>> /\ Len(g_volumeList) < MAX_APP_VOLUME_ENTRIES
        /\ Then(t, "Register", pid, 0, FALSE, n) /\ Free(t, pid)
        /\ g_volumeList' = Append(g_volumeList, NewEntry(pid))
    BY <1>2 DEF RegisterNew
  <2>2. /\ SlotsOf(pid)' = {n} /\ \A q : q # pid => SlotsOf(q)' = SlotsOf(q)
        /\ \A j \in DOMAIN g_volumeList : g_volumeList'[j] = g_volumeList[j]
    BY <1>0, <2>1, Added
  <2> HIDE DEF n
  <2>3. ASSUME NEW q \in Pids, q # pid PROVE Same(q)
    BY <2>1, <2>2, <2>3 DEF Same, SlotsOf, service
  <2> DEFINE c == [at |-> "tell", cmd |-> "Register", pid |-> pid, volume |-> 0, muted |-> FALSE, slot |-> n]
  <2>4. call' = [call EXCEPT ![t] = c] /\ call'[t] = c
    BY <1>0, <2>1 DEF Then
  <2>c. c.at = "tell" /\ c.cmd = "Register" /\ c.pid = pid /\ c.volume = 0 /\ c.muted = FALSE /\ c.slot = n
    OBVIOUS
  <2> HIDE DEF c
  <2>5. Due(t)'
    BY <2>2, <2>4, <2>c DEF Due, SlotsOf
  <2>6. Agree(pid) => AgreeBut(t, pid)'
    BY <2>1, <2>4, <2>c DEF AgreeBut, Agree, service
  <2> QED BY <2>1, <2>3, <2>4, <2>5, <2>6, <2>c, ThenMirror
<1>3. CASE AppUnregister(t, pid)
  <2>1. /\ SlotsOf(pid) # {} /\ UNCHANGED <<ipc, service>> /\ Then(t, "Unregister", pid, 0, FALSE, 0)
        /\ Free(t, pid) /\ g_volumeList' = RemoveAt(g_volumeList, SlotOf(pid))
    BY <1>3 DEF AppUnregister
  <2>2. /\ SlotsOf(pid)' = {}
        /\ \A q : q # pid => /\ SlotsOf(q)' = {} => SlotsOf(q) = {}
                             /\ \A j \in SlotsOf(q)' : \E k \in SlotsOf(q) : g_volumeList'[j] = g_volumeList[k]
    BY <1>0, <2>1, Found, Left
  <2>3. ASSUME NEW q \in Pids, q # pid PROVE Same(q)
    <3>1. registry' = registry
      BY <2>1 DEF service
    <3>2. ASSUME NEW j \in SlotsOf(q)' PROVE \E k \in SlotsOf(q) :
            g_volumeList'[j].volume = g_volumeList[k].volume /\ g_volumeList'[j].muted = g_volumeList[k].muted
      BY <2>2, <2>3, <3>2
    <3> QED BY <2>2, <2>3, <3>1, <3>2 DEF Same
  <2> DEFINE c == [at |-> "tell", cmd |-> "Unregister", pid |-> pid, volume |-> 0, muted |-> FALSE, slot |-> 0]
  <2>4. call' = [call EXCEPT ![t] = c] /\ call'[t] = c
    BY <1>0, <2>1 DEF Then
  <2>c. c.at = "tell" /\ c.cmd = "Unregister" /\ c.pid = pid /\ c.volume = 0 /\ c.muted = FALSE /\ c.slot = 0
    OBVIOUS
  <2> HIDE DEF c
  <2>5. Due(t)'
    BY <2>2, <2>4, <2>c DEF Due, SlotsOf
  <2>6. AgreeBut(t, pid)'
    BY <2>4, <2>c DEF AgreeBut
  <2> QED BY <2>1, <2>3, <2>4, <2>5, <2>6, <2>c, ThenMirror
<1>4. ASSUME NEW volume \in Volumes, AppSet(t, pid, volume) PROVE MirrorInv'
  <2> DEFINE v == Clamp(volume)
             e == [g_volumeList[SlotOf(pid)] EXCEPT !.volume = v]
  <2>0. v \in 0..100
    BY ClampInRange, AppVolumeControlAssumption
  <2>1. /\ SlotsOf(pid) # {} /\ UNCHANGED <<ipc, service>> /\ Then(t, "SetVolume", pid, v, FALSE, 0)
        /\ Free(t, pid) /\ g_volumeList' = [g_volumeList EXCEPT ![SlotOf(pid)] = e]
    BY <1>4 DEF AppSet
  <2> HIDE DEF v
  <2>2. e \in Entry /\ e.pid = pid /\ e.volume = v /\ e.muted = g_volumeList[SlotOf(pid)].muted
        /\ g_volumeList[SlotOf(pid)].volume \in 0..100
    BY <1>b, <2>0, <2>1 DEF Entry
  <2> HIDE DEF e
  <2>3. /\ \A q \in Pids : q # pid => Same(q)
        /\ SlotsOf(pid)' = {SlotOf(pid)} /\ g_volumeList'[SlotOf(pid)] = e
        /\ Entries(registry', pid) = Entries(registry, pid)
    BY <1>e, <2>1, <2>2
  <2> DEFINE c == [at |-> "tell", cmd |-> "SetVolume", pid |-> pid, volume |-> v, muted |-> FALSE, slot |-> 0]
  <2>4. call' = [call EXCEPT ![t] = c] /\ call'[t] = c
    BY <1>0, <2>1 DEF Then
  <2>c. c.at = "tell" /\ c.cmd = "SetVolume" /\ c.pid = pid /\ c.volume = v /\ c.muted = FALSE /\ c.slot = 0
    OBVIOUS
  <2> HIDE DEF c
  <2>5. Due(t)'
    BY <2>2, <2>3, <2>4, <2>c DEF Due, SlotsOf
  <2>6. ASSUME Agree(pid) PROVE AgreeBut(t, pid)'
    <3>1. Entries(registry, pid) = Entered(pid, g_volumeList[SlotOf(pid)].volume, g_volumeList[SlotOf(pid)].muted)
      BY <1>b, <2>1, <2>6 DEF Agree
    <3>2. Entries(registry', pid) = Entered(pid, g_volumeList[SlotOf(pid)].volume, g_volumeList'[SlotOf(pid)].muted)
      BY <3>1, <2>2, <2>3
    <3> QED BY <3>2, <2>2, <2>3, <2>4, <2>c DEF AgreeBut
  <2> QED BY <2>1, <2>3, <2>4, <2>5, <2>6, <2>c, ThenMirror
<1>5. ASSUME NEW flag \in BOOLEAN, AppSetMute(t, pid, flag) PROVE MirrorInv'
  <2> DEFINE e == [g_volumeList[SlotOf(pid)] EXCEPT !.muted = flag]
  <2>1. /\ SlotsOf(pid) # {} /\ UNCHANGED <<ipc, service>> /\ Then(t, "SetMute", pid, 0, flag, 0)
        /\ Free(t, pid) /\ g_volumeList' = [g_volumeList EXCEPT ![SlotOf(pid)] = e]
    BY <1>5 DEF AppSetMute
  <2>2. e \in Entry /\ e.pid = pid /\ e.muted = flag /\ e.volume = g_volumeList[SlotOf(pid)].volume
        /\ g_volumeList[SlotOf(pid)].muted \in BOOLEAN
    BY <1>b, <2>1 DEF Entry
  <2> HIDE DEF e
  <2>3. /\ \A q \in Pids : q # pid => Same(q)
        /\ SlotsOf(pid)' = {SlotOf(pid)} /\ g_volumeList'[SlotOf(pid)] = e
        /\ Entries(registry', pid) = Entries(registry, pid)
    BY <1>e, <2>1, <2>2
  <2> DEFINE c == [at |-> "tell", cmd |-> "SetMute", pid |-> pid, volume |-> 0, muted |-> flag, slot |-> 0]
  <2>4. call' = [call EXCEPT ![t] = c] /\ call'[t] = c
    BY <1>0, <2>1 DEF Then
  <2>c. c.at = "tell" /\ c.cmd = "SetMute" /\ c.pid = pid /\ c.volume = 0 /\ c.muted = flag /\ c.slot = 0
    OBVIOUS
  <2> HIDE DEF c
  <2>5. Due(t)'
    BY <2>2, <2>3, <2>4, <2>c DEF Due, SlotsOf
  <2>6. ASSUME Agree(pid) PROVE AgreeBut(t, pid)'
    <3>1. Entries(registry, pid) = Entered(pid, g_volumeList[SlotOf(pid)].volume, g_volumeList[SlotOf(pid)].muted)
      BY <1>b, <2>1, <2>6 DEF Agree
    <3>2. Entries(registry', pid) = Entered(pid, g_volumeList'[SlotOf(pid)].volume, g_volumeList[SlotOf(pid)].muted)
      BY <3>1, <2>2, <2>3
    <3> QED BY <3>2, <2>2, <2>3, <2>4, <2>c DEF AgreeBut
  <2> QED BY <2>1, <2>3, <2>4, <2>5, <2>6, <2>c, ThenMirror
<1>6. ASSUME NEW flag \in BOOLEAN, AppSetActive(t, pid, flag) PROVE MirrorInv'
  <2> DEFINE e == [g_volumeList[SlotOf(pid)] EXCEPT !.active = flag]
  <2>1. /\ SlotsOf(pid) # {} /\ UNCHANGED <<ipc, call, service>> /\ Free(t, pid)
        /\ g_volumeList' = [g_volumeList EXCEPT ![SlotOf(pid)] = e]
    BY <1>6 DEF AppSetActive
  <2>2. e \in Entry /\ e.pid = pid /\ e.volume = g_volumeList[SlotOf(pid)].volume
        /\ e.muted = g_volumeList[SlotOf(pid)].muted
    BY <1>b, <2>1 DEF Entry
  <2> HIDE DEF e
  <2>3. \A q \in Pids : Same(q)
    BY <1>e, <2>1, <2>2
  <2>4. /\ running /\ call' = call /\ lost' = lost
        /\ \A u \in Threads : call[u].at = "idle"
    BY <2>1 DEF service, Free, OneThread, Idle
  <2>5. \A q \in Pids \ lost : Agree(q)
    BY <2>4 DEF MirrorInv, About, Unsaid
  <2>6. \A q \in Pids \ lost : Agree(q)'
    BY <2>3, <2>5, SameAgree
  <2> QED BY <2>4, <2>6 DEF MirrorInv, About, Unsaid
<1> QED BY <1>1, <1>2, <1>3, <1>4, <1>5, <1>6 DEF Operation

\* Once thread t has told of pid, or failed to, the mirror is as it was.
LEMMA ToldMirror ==
  ASSUME TypeInv, MirrorInv, OneThread, NEW t \in Threads, call'[t].at \notin Unsaid, running,
         NEW pid, call[t].pid = pid,
         UNCHANGED g_volumeList, lost \subseteq lost' \union {pid},
         \A q : q # pid => Entries(registry', q) = Entries(registry, q),
         pid \notin lost' => Agree(pid)'
  PROVE  MirrorInv'
<1>1. \A u \in Threads : u = t
  BY DEF OneThread
<1>2. ASSUME NEW q \in Pids \ lost', q # pid PROVE Agree(q)'
  <2>1. q \notin lost
    BY <1>2
  <2>2. Agree(q)
    BY <1>1, <1>2, <2>1 DEF MirrorInv, About, Unsaid
  <2> QED BY <1>2, <2>2, SameList, SameAgree
<1>3. ASSUME NEW q \in Pids \ lost' PROVE Agree(q)'
  <2>1. CASE q = pid
    BY <1>3, <2>1
  <2> QED BY <1>2, <1>3, <2>1
<1> QED BY <1>1, <1>3 DEF MirrorInv, About, Unsaid

\* Each step of the IPC leaves the mirror as it was, or the service has missed
\* something.
LEMMA TellingMirror ==
  ASSUME TypeInv, MirrorInv, OneThread, NEW t \in Threads, Telling(t) PROVE MirrorInv'
<1>0. ListInv /\ CallInv /\ LinkInv
  BY DEF TypeInv
<1> DEFINE pid == call[t].pid
           r == Request(t)
<1>a. Idle.at = "idle" /\ \A c : call' = [call EXCEPT ![t] = c] => call'[t] = c
  BY <1>0 DEF Idle, CallInv
<1>b. ASSUME call[t].at \in Unsaid
      PROVE  r.pid = pid /\ r.cmd = call[t].cmd /\ pid \in Pids /\ r.cmd \in Cmds /\ r.volume \in 0..100
             /\ \A q : q # pid => Entries(After(registry, r), q) = Entries(registry, q)
  BY <1>0, <1>b, RequestTypes, OthersStay DEF LinkInv
<1> HIDE DEF pid, r
<1>1. CASE Tell(t)
  <2>1. /\ call[t].at \in Unsaid /\ running /\ UNCHANGED g_volumeList
        /\ registry' = After(registry, r) /\ lost' = StillLost(t) /\ call' = [call EXCEPT ![t] = Idle]
    BY <1>1 DEF Tell, r, Unsaid
  <2>2. lost' \in {lost, lost \ {pid}}
    BY <2>1 DEF StillLost, pid
  <2>3. Due(t) /\ About(t, pid)
    BY <2>1 DEF MirrorInv, About, Unsaid, pid
  <2>4. pid \notin lost => AgreeBut(t, pid)
    BY <1>b, <2>1, <2>3 DEF MirrorInv
  <2>5. \A q : SlotsOf(q)' = SlotsOf(q)
    BY <2>1 DEF SlotsOf
  <2>6. ASSUME NEW x, x = pid, pid \notin lost' PROVE Agree(x)'
    <3>1. CASE call[t].cmd = "Register"
      <4>1. /\ call[t].slot \in SlotsOf(pid) /\ r.volume = g_volumeList[call[t].slot].volume
            /\ r.muted = g_volumeList[call[t].slot].muted
        BY <2>3, <3>1 DEF Due, r, Request, Slot, pid, SlotsOf
      <4>2. CASE Entries(registry, pid) = {}
        <5>1. Entries(registry', pid) = Entered(pid, r.volume, r.muted)
          BY <1>b, <2>1, <3>1, <4>2, Registered
        <5>2. \A i \in SlotsOf(pid) : i = call[t].slot
          BY <1>0, <4>1, OneSlot
        <5> QED BY <2>1, <2>5, <2>6, <4>1, <5>1, <5>2 DEF Agree
      <4>3. CASE Entries(registry, pid) # {}
        <5>1. lost' = lost
          BY <1>b, <2>1, <3>1, <4>3 DEF StillLost, StatusOf, r
        <5>2. Entries(registry', pid) = Entries(registry, pid)
          BY <1>b, <2>1, <3>1, <4>3, Registered
        <5>3. Agree(pid)
          BY <2>4, <2>6, <3>1, <4>3, <5>1 DEF AgreeBut
        <5> QED BY <2>1, <2>5, <2>6, <5>2, <5>3 DEF Agree
      <4> QED BY <4>2, <4>3
    <3>2. CASE call[t].cmd = "Unregister"
      <4>1. SlotsOf(pid) = {} /\ Entries(registry', pid) = {}
        BY <1>b, <2>1, <2>3, <3>2, Unregistered DEF Due, pid
      <4> QED BY <2>5, <2>6, <4>1 DEF Agree
    <3>3. ASSUME call[t].cmd \in {"SetVolume", "SetMute"}
          PROVE  /\ AgreeBut(t, pid) /\ SlotsOf(pid) # {}
                 /\ r.volume = call[t].volume /\ r.muted = call[t].muted
      <4>1. lost' = lost
        BY <2>1, <3>3 DEF StillLost
      <4> QED BY <2>3, <2>4, <2>6, <3>3, <4>1 DEF Due, pid, r, Request
    <3>4. CASE call[t].cmd = "SetVolume"
      <4>1. ASSUME NEW i \in SlotsOf(pid)
            PROVE  Entries(registry', pid) = Entered(pid, g_volumeList[i].volume, g_volumeList[i].muted)
        <5>1. PICK v \in 0..100 : Entries(registry, pid) = Entered(pid, v, g_volumeList[i].muted)
          BY <3>3, <3>4, <4>1 DEF AgreeBut
        <5>2. Entries(registry', pid) = Entered(pid, r.volume, g_volumeList[i].muted)
          BY <1>b, <2>1, <3>4, <5>1, VolumeEntered
        <5>3. r.volume = g_volumeList[i].volume
          BY <2>3, <3>3, <3>4, <4>1 DEF Due, pid
        <5> QED BY <5>2, <5>3
      <4> QED BY <2>1, <2>5, <2>6, <3>3, <3>4, <4>1 DEF Agree
    <3>5. CASE call[t].cmd = "SetMute"
      <4>1. ASSUME NEW i \in SlotsOf(pid)
            PROVE  Entries(registry', pid) = Entered(pid, g_volumeList[i].volume, g_volumeList[i].muted)
        <5>1. PICK m \in BOOLEAN : Entries(registry, pid) = Entered(pid, g_volumeList[i].volume, m)
          BY <3>3, <3>5, <4>1 DEF AgreeBut
        <5>2. Entries(registry', pid) = Entered(pid, g_volumeList[i].volume, r.muted)
          BY <1>b, <2>1, <3>5, <5>1, MuteEntered
        <5>3. r.muted = g_volumeList[i].muted
          BY <2>3, <3>3, <3>5, <4>1 DEF Due, pid
        <5> QED BY <5>2, <5>3
      <4> QED BY <2>1, <2>5, <2>6, <3>3, <3>5, <4>1 DEF Agree
    <3> QED BY <1>b, <2>1, <3>1, <3>2, <3>4, <3>5 DEF Cmds
  <2>7. call'[t].at \notin Unsaid
    BY <1>a, <2>1 DEF Unsaid
  <2>8. \A x : x = pid /\ x \notin lost' => Agree(x)'
    BY <2>6
  <2> QED BY <1>b, <2>1, <2>2, <2>7, <2>8, ToldMirror DEF pid
<1>2. CASE Missed(t)
  <2>1. /\ call[t].at \in Unsaid /\ running /\ UNCHANGED g_volumeList
        /\ registry' \in {registry, After(registry, r)} /\ lost' = lost \union {pid}
        /\ call' = [call EXCEPT ![t] = Idle]
    BY <1>2 DEF Missed, r, pid, Unsaid
  <2>2. call'[t].at \notin Unsaid
    BY <1>a, <2>1 DEF Unsaid
  <2>3. \A q : q # pid => Entries(registry', q) = Entries(registry, q)
    BY <1>b, <2>1
  <2> QED BY <2>1, <2>2, <2>3, ToldMirror DEF pid
<1>3. CASE Piped(t)
  BY <1>3 DEF Piped, MirrorInv
<1>4. CASE Refused(t)
  <2>1. /\ running /\ UNCHANGED <<g_volumeList, registry>> /\ lost' = lost \union {pid}
        /\ call'[t].at \notin Unsaid
    BY <1>0, <1>a, <1>4 DEF Refused, pid, CallInv, Unsaid
  <2> QED BY <2>1, ToldMirror DEF pid
<1>5. CASE Reconnect(t)
  <2>1. /\ running /\ UNCHANGED <<g_volumeList, registry, lost>> /\ call[t].at = "sleep"
        /\ call' = [call EXCEPT ![t] = Idle]
    BY <1>5 DEF Reconnect, service
  <2>2. call'[t].at \notin Unsaid
    BY <1>a, <2>1 DEF Unsaid
  <2>3. ASSUME NEW x, x = pid, x \notin lost' PROVE Agree(x)'
    <3>1. x \in Pids
      BY <1>0, <2>1, <2>3 DEF CallInv, pid
    <3>2. Agree(x)
      BY <2>1, <2>3, <3>1 DEF MirrorInv, About, Unsaid, OneThread
    <3> QED BY <2>1, <3>2, SameList, SameAgree
  <2> QED BY <2>1, <2>2, <2>3, ToldMirror DEF pid
<1>6. CASE EnsureConnected(t)
  <2>1. /\ call[t].at = "tell" /\ running' = running
        /\ UNCHANGED <<g_volumeList, registry, lost>> /\ call' = [call EXCEPT ![t].at = "send"]
    BY <1>6 DEF EnsureConnected, service
  <2>2. /\ call'[t].at = "send" /\ call'[t].cmd = call[t].cmd /\ call'[t].pid = call[t].pid
        /\ call'[t].slot = call[t].slot /\ call'[t].volume = call[t].volume
        /\ call'[t].muted = call[t].muted
    BY <1>0, <2>1 DEF CallInv
  <2>3. /\ \A q : Agree(q)' <=> Agree(q)
        /\ \A q : AgreeBut(t, q)' <=> AgreeBut(t, q)
        /\ \A q : About(t, q)' <=> About(t, q)
        /\ Due(t)' <=> Due(t)
    BY <2>1, <2>2 DEF Agree, AgreeBut, About, Unsaid, Due, SlotsOf
  <2>4. \A u \in Threads : u = t
    BY DEF OneThread
  <2> QED BY <2>1, <2>2, <2>3, <2>4 DEF MirrorInv, Unsaid
<1> QED BY <1>1, <1>2, <1>3, <1>4, <1>5, <1>6 DEF Telling

\* A service that ends misses what is on the list, and knows of nothing else.
LEMMA ServiceMirror == ASSUME TypeInv, MirrorInv, ServerEnds \/ ServerStarts PROVE MirrorInv'
<1>1. UNCHANGED <<g_volumeList, call, running>>
  BY DEF ServerEnds, ServerStarts, ipc
<1>2. \A t \in Threads : Due(t)' = Due(t) /\ \A q : SlotsOf(q)' = SlotsOf(q) /\ About(t, q)' = About(t, q)
  BY <1>1 DEF Due, SlotsOf, About, Unsaid
<1>3. CASE ServerEnds
  <2>1. /\ registry' = {} /\ lost' = {g_volumeList[i].pid : i \in DOMAIN g_volumeList}
    BY <1>3 DEF ServerEnds
  <2>2. ASSUME NEW q \in Pids \ lost' PROVE SlotsOf(q)' = {} /\ Entries(registry', q) = {}
    BY <1>1, <2>1, <2>2 DEF SlotsOf, Entries
  <2>3. ASSUME NEW q \in Pids \ lost' PROVE Agree(q)' /\ \A t \in Threads : AgreeBut(t, q)'
    BY <2>2, <2>3 DEF Agree, AgreeBut
  <2> QED BY <1>1, <1>2, <2>3 DEF MirrorInv
<1>4. CASE ServerStarts
  BY <1>1, <1>2, <1>4 DEF ServerStarts, MirrorInv, Agree, AgreeBut, SlotsOf, About, Unsaid, Due
<1> QED BY <1>3, <1>4

IInv == TypeInv /\ MirrorInv

\* Both hold at first and for ever.
LEMMA AlwaysIInv == OneThread /\ Spec => []IInv
<1> SUFFICES ASSUME OneThread PROVE Spec => []IInv
  OBVIOUS
<1>1. Init => IInv
  <2> SUFFICES ASSUME Init PROVE IInv
    OBVIOUS
  <2>1. ListInv
    BY AppVolumeControlAssumption DEF Init, ListInv
  <2>2. CallInv
    BY DEF Init, CallInv, Idle
  <2>3. LinkInv
    BY AppVolumeControlAssumption DEF Init, LinkInv
  <2>4. MirrorInv
    BY DEF Init, MirrorInv, Idle, About, Unsaid, Agree, SlotsOf, Entries
  <2> QED BY <2>1, <2>2, <2>3, <2>4 DEF IInv, TypeInv
<1>2. IInv /\ [Next]_vars => IInv'
  <2> SUFFICES ASSUME TypeInv, MirrorInv, [Next]_vars PROVE MirrorInv'
    BY TypeStep DEF IInv
  <2>1. CASE UNCHANGED vars
    BY <2>1 DEF vars, ipc, service, MirrorInv, Agree, AgreeBut, SlotsOf, About, Unsaid, Due
  <2> QED BY <2>1, OperationMirror, TellingMirror, ServiceMirror DEF Next
<1> QED BY <1>1, <1>2, PTL DEF Spec

\* With one caller the list is well formed for any applications and any room:
\* an application has one entry (app_volume_control.c:205), and connecting is
\* not tried more often than it may be.
THEOREM TypeCorrect == OneThread /\ Spec => []TypeOK
<1>1. TypeInv => TypeOK
  <2> SUFFICES ASSUME TypeInv PROVE TypeOK
    OBVIOUS
  <2>1. ASSUME NEW pid \in Pids PROVE Cardinality(SlotsOf(pid)) <= 1
    <3>1. CASE SlotsOf(pid) = {}
      BY <3>1, FS_EmptySet
    <3>2. ASSUME NEW i \in SlotsOf(pid) PROVE Cardinality(SlotsOf(pid)) <= 1
      <4>1. SlotsOf(pid) = {i}
        BY <3>2, OneSlot DEF TypeInv
      <4> QED BY <4>1, FS_Singleton
    <3> QED BY <3>1, <3>2
  <2>2. \A i \in DOMAIN g_volumeList : g_volumeList[i] \in Entry
    BY DEF TypeInv, ListInv
  <2>3. \A t \in Threads : call[t].at \in {"idle", "tell", "send", "sleep"}
    BY DEF TypeInv, CallInv
  <2> QED BY <2>1, <2>2, <2>3 DEF TypeOK, TypeInv, ListInv, LinkInv, Entry
<1> QED BY <1>1, AlwaysIInv, PTL DEF IInv

\* With one caller the service has of every application what the list has,
\* between operations and unless it missed something, whatever volumes are
\* asked for, however often entries move up (app_volume_control.c:291), and
\* however often the link or the service is lost.
THEOREM ListMirrored == OneThread /\ Spec => []RegistryMirrorsList
<1>1. IInv => RegistryMirrorsList
  <2> SUFFICES ASSUME IInv, running, \A t \in Threads : call[t] = Idle, NEW pid \in Pids \ lost
               PROVE  Entries(registry, pid) =
                        {[pid |-> pid, volume |-> g_volumeList[i].volume, muted |-> g_volumeList[i].muted] :
                           i \in SlotsOf(pid)}
    BY DEF RegistryMirrorsList
  <2>1. Agree(pid)
    BY DEF IInv, MirrorInv, About, Unsaid, Idle
  <2>2. CASE SlotsOf(pid) = {}
    BY <2>1, <2>2 DEF Agree
  <2>3. ASSUME NEW i \in SlotsOf(pid)
        PROVE  Entries(registry, pid) =
                 {[pid |-> pid, volume |-> g_volumeList[j].volume, muted |-> g_volumeList[j].muted] :
                    j \in SlotsOf(pid)}
    <3>1. SlotsOf(pid) = {i}
      BY <2>3, OneSlot DEF IInv, TypeInv
    <3> QED BY <2>1, <2>3, <3>1 DEF Agree, Entered
  <2> QED BY <2>2, <2>3
<1> QED BY <1>1, AlwaysIInv, PTL
===============================================================================
