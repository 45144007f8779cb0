------------------------- MODULE ServiceManagerProofs ------------------------
(***************************************************************************)
(* For every number of pids: the pid file names a daemon and no other      *)
(* process; and while one process manages the service, and each daemon is  *)
(* up within the 100 ms a start waits, one daemon runs at most, stop       *)
(* reaches it, and every command reports what it left.                     *)
(***************************************************************************)
EXTENDS ServiceManager, TLAPS

Places == {"idle", "look", "fork", "wait", "read", "kill", "unlink"}
Cmds   == {"none", "start", "stop", "restart"}
Kinds  == {"free", "stranger", "foreign", "writing", "running"} \union Forking

\* The commands' own state.
CallInv ==
  /\ call \in [Callers -> [at : Places, cmd : Cmds, pid : Pids \union {Absent}]]
  /\ last \in [Callers -> [cmd : Cmds, status : Statuses]]
  /\ \A c \in Callers :
       /\ call[c].at \in {"read", "kill", "unlink"} => call[c].cmd \in {"stop", "restart"}
       /\ call[c].at \in {"kill", "unlink"} => call[c].pid \in Pids

TypeInv ==
  /\ process \in [Pids -> Kinds]
  /\ pidFile \in Pids \union {Absent} /\ writable \in BOOLEAN
  /\ failed \in BOOLEAN /\ died \in BOOLEAN /\ harmed \in BOOLEAN /\ reused \in BOOLEAN
  /\ CallInv

\* With the caller c alone: nothing starts but while it waits, and then
\* nothing runs; what runs is in the file, and what c is about to signal too.
ChainInv(c) ==
  /\ Starting # {} => call[c].at = "wait" /\ (writable => Daemons = {})
  /\ \A p, q \in Starting : p = q
  /\ writable => Daemons \subseteq {pidFile}
  /\ call[c].at \in {"fork", "unlink"} /\ writable => Daemons = {}
  /\ call[c].at = "kill" => call[c].pid = pidFile

\* The reports of c, and what it waits for.
ReportInv(c) ==
  /\ call[c].at \in {"look", "fork", "wait"} => call[c].cmd # "stop"
  /\ call[c].at = "wait" =>
       Starting # {} \/ Daemons # {} \/ died \/ failed
  /\ call[c].at = "idle" =>
       LET cmd == last[c].cmd  status == last[c].status IN
       /\ status = "SUCCESS" /\ cmd # "stop" => died \/ Daemons # {} \/ (failed /\ reused)
       /\ status = "ALREADY_RUNNING" => died \/ Daemons # {} \/ reused
       /\ cmd = "start" /\ status = "ERROR" => died \/ failed \/ ~writable
       /\ cmd = "stop" /\ status # "ERROR" /\ writable => Daemons = {}

-----------------------------------------------------------------------------
(* Types                                                                    *)

\* The start is well typed.
LEMMA TypeInit == Init => TypeInv
<1> SUFFICES ASSUME Init PROVE TypeInv
  OBVIOUS
<1>1. process \in [Pids -> Kinds]
  BY DEF Init, Kinds
<1>2. CallInv
  BY DEF Init, CallInv, Idle, Places, Cmds, Statuses
<1> QED BY <1>1, <1>2 DEF Init, TypeInv

\* A command that goes on keeps its own state well typed.
LEMMA GoesTypes ==
  ASSUME CallInv, NEW c \in Callers, NEW next \in {"look", "fork", "wait"},
         Goes(c, next), UNCHANGED last
  PROVE  CallInv'
BY DEF CallInv, Goes, Places, Cmds

\* So does a command that ends.
LEMMA ReturnsTypes ==
  ASSUME CallInv, NEW c \in Callers, NEW status \in Statuses, Returns(c, status)
  PROVE  CallInv'
BY DEF CallInv, Returns, Idle, Places, Cmds

\* And a stop, whatever follows it.
LEMMA StoppedTypes ==
  ASSUME CallInv, NEW c \in Callers, NEW status \in Statuses, Stopped(c, status)
  PROVE  CallInv'
BY GoesTypes, ReturnsTypes DEF Stopped

\* Every step keeps the types.
LEMMA TypeStep == TypeInv /\ [Next]_vars => TypeInv'
<1> SUFFICES ASSUME TypeInv, [Next]_vars PROVE TypeInv'
  OBVIOUS
<1> USE DEF TypeInv, Kinds, Forking, hist, Given
<1>1. ASSUME NEW c \in Callers, Start(c) PROVE TypeInv'
  BY <1>1, ServiceManagerAssumption DEF Start, Begin, CallInv, Idle, Places, Cmds, Statuses
<1>2. ASSUME NEW c \in Callers, Stop(c) PROVE TypeInv'
  BY <1>2, ServiceManagerAssumption DEF Stop, Begin, CallInv, Idle, Places, Cmds, Statuses
<1>3. ASSUME NEW c \in Callers, Restart(c) PROVE TypeInv'
  BY <1>3, ServiceManagerAssumption DEF Restart, Begin, CallInv, Idle, Places, Cmds, Statuses
<1>4. ASSUME NEW c \in Callers, Look(c) PROVE TypeInv'
  <2>1. CallInv'
    BY <1>4, GoesTypes, ReturnsTypes DEF Look, Statuses
  <2> QED BY <1>4, <2>1 DEF Look
<1>5. ASSUME NEW c \in Callers, Fork(c) PROVE TypeInv'
  <2>1. CallInv'
    BY <1>5, GoesTypes DEF Fork
  <2> QED BY <1>5, <2>1 DEF Fork
<1>6. ASSUME NEW c \in Callers, ForkFails(c) PROVE TypeInv'
  <2>1. CallInv'
    BY <1>6, ReturnsTypes DEF ForkFails, Statuses
  <2> QED BY <1>6, <2>1 DEF ForkFails
<1>7. ASSUME NEW c \in Callers, LookAgain(c) PROVE TypeInv'
  <2>1. CallInv'
    BY <1>7, ReturnsTypes DEF LookAgain, Statuses
  <2> QED BY <1>7, <2>1 DEF LookAgain
<1>8. ASSUME NEW c \in Callers, ReadPid(c) PROVE TypeInv'
  <2>1. CASE pidFile = Absent
    <3>1. CallInv'
      BY <1>8, <2>1, StoppedTypes DEF ReadPid, Statuses
    <3> QED BY <1>8, <3>1 DEF ReadPid
  <2>2. CASE pidFile # Absent
    <3>1. /\ call[c].at = "read" /\ last' = last
          /\ call' = [call EXCEPT ![c].at = "kill", ![c].pid = pidFile]
      BY <1>8, <2>2 DEF ReadPid
    <3>2. CallInv'
      BY <2>2, <3>1 DEF CallInv, Places, Cmds
    <3> QED BY <1>8, <3>2 DEF ReadPid
  <2> QED BY <2>1, <2>2
<1>9. ASSUME NEW c \in Callers, Kill(c) PROVE TypeInv'
  <2>1. CallInv'
    <3>1. CASE Reaches(call[c].pid)
      <4>1. /\ call[c].at = "kill" /\ last' = last
            /\ call' = [call EXCEPT ![c].at = "unlink"]
        BY <1>9, <3>1 DEF Kill, Goes
      <4> QED BY <4>1 DEF CallInv, Places, Cmds
    <3>2. CASE ~Reaches(call[c].pid)
      BY <1>9, <3>2, StoppedTypes DEF Kill, Statuses
    <3> QED BY <3>1, <3>2
  <2>2. process' \in [Pids -> Kinds] /\ harmed' \in BOOLEAN
    BY <1>9 DEF Kill
  <2> QED BY <1>9, <2>1, <2>2 DEF Kill
<1>10. ASSUME NEW c \in Callers, Unlink(c) PROVE TypeInv'
  <2>1. CallInv'
    BY <1>10, StoppedTypes DEF Unlink, Statuses
  <2> QED BY <1>10, <2>1 DEF Unlink
<1>11. ASSUME NEW p \in Pids, FirstFork(p) PROVE TypeInv'
  BY <1>11 DEF CallInv, FirstFork, Succeeds, Unused
<1>12. ASSUME NEW p \in Pids, SecondFork(p) PROVE TypeInv'
  BY <1>12 DEF CallInv, SecondFork, Succeeds, Unused
<1>13. ASSUME NEW p \in Pids, InitFails(p) PROVE TypeInv'
  BY <1>13 DEF CallInv, InitFails
<1>14. ASSUME NEW p \in Pids, OpenPidFile(p) PROVE TypeInv'
  BY <1>14 DEF CallInv, OpenPidFile
<1>15. ASSUME NEW p \in Pids, WritePid(p) PROVE TypeInv'
  BY <1>15 DEF CallInv, WritePid
<1>16. ASSUME NEW p \in Pids, Dies(p) PROVE TypeInv'
  BY <1>16 DEF CallInv, Dies
<1>17. ASSUME NEW p \in Pids, OtherBegins(p) PROVE TypeInv'
  BY <1>17 DEF CallInv, OtherBegins, Unused
<1>18. ASSUME NEW p \in Pids, OtherEnds(p) PROVE TypeInv'
  BY <1>18 DEF CallInv, OtherEnds
<1>19. CASE Reboot
  BY <1>19, ServiceManagerAssumption DEF Reboot, CallInv, Idle, Places, Cmds, Statuses
<1>20. CASE UNCHANGED vars
  BY <1>20 DEF vars, CallInv
<1> HIDE DEF TypeInv
<1> QED
  BY <1>1, <1>2, <1>3, <1>4, <1>5, <1>6, <1>7, <1>8, <1>9, <1>10, <1>11, <1>12, <1>13, <1>14, <1>15, <1>16, <1>17, <1>18, <1>19, <1>20 DEF Next, CallStep, DaemonStep

-----------------------------------------------------------------------------
(* The pid file                                                             *)

\* At the start there is no file.
LEMMA FileInit == Init => FileNamesDaemon
BY DEF Init, FileNamesDaemon

\* Every step keeps the file's pid a daemon's, or that of a daemon that has ended:
\* a chain of forks never takes the pid that the file holds.
LEMMA FileStep == TypeInv /\ FileNamesDaemon /\ [Next]_vars => FileNamesDaemon'
<1> SUFFICES ASSUME TypeInv, FileNamesDaemon, [Next]_vars PROVE FileNamesDaemon'
  OBVIOUS
<1> USE DEF FileNamesDaemon, hist, Given
<1>2. ASSUME NEW c \in Callers, Start(c) \/ Stop(c) \/ Restart(c) PROVE FileNamesDaemon'
  BY <1>2 DEF Start, Stop, Restart, Begin
<1>3. ASSUME NEW c \in Callers, Look(c) \/ ForkFails(c) \/ LookAgain(c) \/ ReadPid(c)
      PROVE  FileNamesDaemon'
  BY <1>3 DEF Look, ForkFails, LookAgain, ReadPid
<1>4. ASSUME NEW c \in Callers, Fork(c) PROVE FileNamesDaemon'
  BY <1>4 DEF Fork, Unused, TypeInv
<1>5. ASSUME NEW c \in Callers, Kill(c) PROVE FileNamesDaemon'
  BY <1>5 DEF Kill, TypeInv
<1>6. ASSUME NEW c \in Callers, Unlink(c) PROVE FileNamesDaemon'
  BY <1>6 DEF Unlink
<1>7. ASSUME NEW p \in Pids, FirstFork(p) \/ SecondFork(p) PROVE FileNamesDaemon'
  BY <1>7 DEF FirstFork, SecondFork, Succeeds, Unused, TypeInv
<1>8. ASSUME NEW p \in Pids, InitFails(p) \/ Dies(p) \/ OtherBegins(p) \/ OtherEnds(p)
      PROVE  FileNamesDaemon'
  BY <1>8 DEF InitFails, Dies, OtherBegins, OtherEnds, Unused, TypeInv
<1>9. ASSUME NEW p \in Pids, OpenPidFile(p) \/ WritePid(p) PROVE FileNamesDaemon'
  BY <1>9 DEF OpenPidFile, WritePid, TypeInv
<1>10. CASE Reboot
  BY <1>10 DEF Reboot, TypeInv
<1>11. CASE UNCHANGED vars
  BY <1>11 DEF vars
<1> QED
  BY <1>2, <1>3, <1>4, <1>5, <1>6, <1>7, <1>8, <1>9, <1>10, <1>11
     DEF Next, CallStep, DaemonStep

-----------------------------------------------------------------------------
(* One caller                                                               *)

\* Nothing runs at the start.
LEMMA ChainInit == ASSUME NEW c \in Callers PROVE Init => ChainInv(c)
BY ServiceManagerAssumption DEF Init, ChainInv, Idle, Starting, Daemons, Forking

\* Every step keeps the chain: a fork happens only when nothing runs, and until the
\* chain it begins is done the caller waits.
LEMMA ChainStep ==
  ASSUME NEW c, Callers = {c}, Prompt, TypeInv, ChainInv(c), [Next]_vars
  PROVE  ChainInv(c)'
<1> USE DEF ChainInv, Starting, Daemons, Forking, hist
<1>0. /\ c \in Callers /\ call \in [Callers -> [at : Places, cmd : Cmds, pid : Pids \union {Absent}]]
      /\ process \in [Pids -> Kinds]
  BY DEF TypeInv, CallInv
<1>1. CASE Start(c) \/ Stop(c) \/ Restart(c)
  BY <1>0, <1>1 DEF Start, Stop, Restart, Begin, Idle
<1>2. CASE Look(c)
  <2>1. /\ call[c].at = "look" /\ UNCHANGED <<process, pidFile, writable>>
        /\ Starting' = Starting /\ Daemons' = Daemons
    BY <1>2 DEF Look
  <2>2. CASE service_is_running
    BY <1>0, <1>2, <2>1, <2>2 DEF Look, Returns, Idle
  <2>3. CASE ~service_is_running
    <3>1. writable => Daemons = {}
      BY <2>3, ServiceManagerAssumption DEF service_is_running, Reaches
    <3> QED BY <1>0, <1>2, <2>1, <2>3, <3>1 DEF Look, Goes
  <2> QED BY <2>2, <2>3
<1>3. CASE Fork(c)
  BY <1>0, <1>3 DEF Fork, Goes, Unused
<1>4. CASE ForkFails(c) \/ LookAgain(c)
  BY <1>0, <1>4 DEF ForkFails, LookAgain, Returns, Idle
<1>5. CASE ReadPid(c)
  BY <1>0, <1>5 DEF ReadPid, Stopped, Goes, Returns, Idle
<1>6. CASE Kill(c)
  BY <1>0, <1>6 DEF Kill, Stopped, Goes, Returns, Idle, Reaches
<1>7. CASE Unlink(c)
  BY <1>0, <1>7 DEF Unlink, Stopped, Goes, Returns, Idle
<1>8. ASSUME NEW p \in Pids, FirstFork(p) \/ SecondFork(p) PROVE ChainInv(c)'
  BY <1>0, <1>8 DEF FirstFork, SecondFork, Succeeds, Unused
<1>9. ASSUME NEW p \in Pids, InitFails(p) \/ Dies(p) PROVE ChainInv(c)'
  BY <1>0, <1>9 DEF InitFails, Dies
<1>10. ASSUME NEW p \in Pids, OpenPidFile(p) PROVE ChainInv(c)'
  BY <1>0, <1>10 DEF OpenPidFile
<1>11. ASSUME NEW p \in Pids, WritePid(p) PROVE ChainInv(c)'
  BY <1>0, <1>11 DEF WritePid
<1>12. ASSUME NEW p \in Pids, OtherBegins(p) \/ OtherEnds(p) PROVE ChainInv(c)'
  BY <1>0, <1>12 DEF OtherBegins, OtherEnds, Unused
<1>13. CASE Reboot
  BY <1>0, <1>13 DEF Reboot, Idle
<1>14. CASE UNCHANGED vars
  BY <1>14 DEF vars
<1> HIDE DEF ChainInv
<1> QED
  BY <1>1, <1>2, <1>3, <1>4, <1>5, <1>6, <1>7, <1>8, <1>9, <1>10, <1>11, <1>12, <1>13, <1>14
     DEF Next, CallStep, DaemonStep

\* Nothing is reported at the start.
LEMMA ReportInit == ASSUME NEW c \in Callers PROVE Init => ReportInv(c)
BY DEF Init, ReportInv, Idle

\* Every step keeps the reports true: a start that has looked twice has a daemon or an
\* excuse, a stop that has signalled has none left.
LEMMA ReportStep ==
  ASSUME NEW c, Callers = {c}, Prompt, TypeInv, FileNamesDaemon, ChainInv(c),
         ReportInv(c), [Next]_vars
  PROVE  ReportInv(c)'
<1> USE DEF ReportInv, hist
<1>0. /\ c \in Callers /\ call \in [Callers -> [at : Places, cmd : Cmds, pid : Pids \union {Absent}]]
      /\ last \in [Callers -> [cmd : Cmds, status : Statuses]]
      /\ process \in [Pids -> Kinds]
  BY DEF TypeInv, CallInv
<1>1. CASE Start(c) \/ Stop(c) \/ Restart(c)
  BY <1>0, <1>1 DEF Start, Stop, Restart, Begin, Idle
<1>2. CASE Look(c)
  <2>1. CASE service_is_running
    <3>1. Daemons # {} \/ reused
      BY <1>0, <2>1 DEF service_is_running, Reaches, Daemons, FileNamesDaemon, TypeInv
    <3>2. /\ Daemons' = Daemons /\ call[c].at = "look" /\ Returns(c, "ALREADY_RUNNING")
          /\ UNCHANGED <<writable, failed, died, reused>>
      BY <1>2, <2>1 DEF Look, Daemons
    <3> QED BY <1>0, <3>1, <3>2 DEF Returns, Idle
  <2>2. CASE ~service_is_running
    BY <1>0, <1>2, <2>2 DEF Look, Goes
  <2> QED BY <2>1, <2>2
<1>3. CASE Fork(c)
  BY <1>0, <1>3 DEF Fork, Goes, Unused, Starting, Forking
<1>4. CASE ForkFails(c)
  BY <1>0, <1>4 DEF ForkFails, Returns, Idle
<1>5. CASE LookAgain(c)
  <2>1. /\ call[c].at = "wait" /\ Starting = {} /\ Daemons' = Daemons
        /\ Returns(c, IF service_is_running THEN "SUCCESS" ELSE "ERROR")
        /\ UNCHANGED <<writable, failed, died, reused>>
    BY <1>5 DEF LookAgain, Daemons
  <2>2. CASE service_is_running
    <3>1. Daemons # {} \/ reused
      BY <1>0, <2>2 DEF service_is_running, Reaches, Daemons, FileNamesDaemon, TypeInv
    <3> QED BY <1>0, <2>1, <2>2, <3>1 DEF Returns, Idle
  <2>3. CASE ~service_is_running
    <3>1. writable => Daemons = {}
      BY <2>3, ServiceManagerAssumption DEF ChainInv, Daemons, service_is_running, Reaches
    <3> QED BY <1>0, <2>1, <2>3, <3>1 DEF Returns, Idle
  <2> QED BY <2>2, <2>3
<1>6. CASE ReadPid(c)
  <2>1. CASE pidFile = Absent
    <3>1. writable => Daemons = {}
      BY <2>1, ServiceManagerAssumption DEF ChainInv, Daemons
    <3>2. /\ call[c].cmd # "start" /\ Stopped(c, "NOT_RUNNING") /\ Daemons' = Daemons
          /\ UNCHANGED <<writable, failed, died>>
      BY <1>6, <2>1 DEF ReadPid, TypeInv, CallInv, Daemons
    <3> QED BY <1>0, <3>1, <3>2 DEF Stopped, Goes, Returns, Idle
  <2>2. CASE pidFile # Absent
    BY <1>0, <1>6, <2>2 DEF ReadPid
  <2> QED BY <2>1, <2>2
<1>7. CASE Kill(c)
  BY <1>0, <1>7 DEF Kill, Stopped, Goes, Returns, Idle, TypeInv, CallInv
<1>8. CASE Unlink(c)
  <2>1. /\ call[c].at = "unlink" /\ Stopped(c, "SUCCESS") /\ call[c].cmd \in {"stop", "restart"}
        /\ UNCHANGED <<writable, failed, died>>
    BY <1>0, <1>8 DEF Unlink, TypeInv, CallInv
  <2>2. writable => Daemons' = {}
    <3>1. \A p \in Pids : process[p] # "writing" /\ (writable => process[p] # "running")
      BY <2>1 DEF ChainInv, Starting, Daemons
    <3>2. process' = [p \in Pids |-> IF process[p] = "writing" THEN "running" ELSE process[p]]
      BY <1>8 DEF Unlink
    <3> QED BY <3>1, <3>2 DEF Daemons
  <2>3. CASE call[c].cmd = "restart"
    <3>1. call'[c].at = "look" /\ call'[c].cmd = "restart"
      BY <1>0, <2>1, <2>3 DEF Stopped, Goes
    <3> QED BY <3>1
  <2>4. CASE call[c].cmd # "restart"
    <3>1. /\ call'[c] = Idle /\ last'[c].cmd = call[c].cmd /\ last'[c].status = "SUCCESS"
          /\ call[c].cmd = "stop"
      BY <1>0, <2>1, <2>4 DEF Stopped, Returns
    <3>2. call'[c].at = "idle"
      BY <3>1 DEF Idle
    <3>3. writable' => Daemons' = {}
      BY <2>1, <2>2
    <3> QED BY <3>1, <3>2, <3>3
  <2> QED BY <2>3, <2>4
<1>9. ASSUME NEW p \in Pids, FirstFork(p) \/ SecondFork(p) PROVE ReportInv(c)'
  <2>1. /\ Starting' # {} /\ Daemons' = Daemons /\ (reused => reused')
        /\ UNCHANGED <<writable, call, last, failed, died>>
    BY <1>0, <1>9 DEF FirstFork, SecondFork, Succeeds, Unused, Given, Starting, Daemons, Forking
  <2> QED BY <2>1
<1>10. ASSUME NEW p \in Pids, InitFails(p) PROVE ReportInv(c)'
  BY <1>0, <1>10 DEF InitFails, Starting, Daemons, Forking
<1>11. ASSUME NEW p \in Pids, Dies(p) PROVE ReportInv(c)'
  BY <1>0, <1>11 DEF Dies, Starting, Daemons, Forking
<1>12. ASSUME NEW p \in Pids, OpenPidFile(p) PROVE ReportInv(c)'
  BY <1>0, <1>12 DEF OpenPidFile, Starting, Daemons, Forking, ChainInv
<1>13. ASSUME NEW p \in Pids, WritePid(p) PROVE ReportInv(c)'
  BY <1>0, <1>13 DEF WritePid, Starting, Daemons, Forking, ChainInv
<1>14. ASSUME NEW p \in Pids, OtherBegins(p) \/ OtherEnds(p) PROVE ReportInv(c)'
  <2>1. /\ Starting' = Starting /\ Daemons' = Daemons
        /\ UNCHANGED <<writable, call, last, failed, died>>
    BY <1>0, <1>14 DEF OtherBegins, OtherEnds, Unused, Starting, Daemons, Forking
  <2>2. reused => reused'
    BY <1>14, Zenon DEF OtherBegins, OtherEnds, Given, hist
  <2> QED BY <2>1, <2>2
<1>15. CASE Reboot
  BY <1>0, <1>15 DEF Reboot, Idle, Daemons
<1>16. CASE UNCHANGED vars
  BY <1>16 DEF vars, Starting, Daemons
<1> HIDE DEF ReportInv
<1> QED
  BY <1>1, <1>2, <1>3, <1>4, <1>5, <1>6, <1>7, <1>8, <1>9, <1>10, <1>11, <1>12, <1>13, <1>14,
     <1>15, <1>16
     DEF Next, CallStep, DaemonStep

-----------------------------------------------------------------------------
(* Theorems                                                                 *)

\* TypeOK for every number of callers and pids: in particular stop never signals a pid
\* it has not read (service_manager.c:258).
THEOREM TypeCorrect == Spec => []TypeOK
<1>1. Init => TypeInv
  BY TypeInit
<1>2. TypeInv /\ [Next]_vars => TypeInv'
  BY TypeStep
<1>3. TypeInv => TypeOK
  BY DEF TypeInv, CallInv, TypeOK, Places, Cmds, Kinds
<1> QED BY <1>1, <1>2, <1>3, PTL DEF Spec

\* The pid file names a daemon or a pid nobody has, however many callers there are and
\* wherever a fork, a daemon or the machine fails (service_manager.c:200).
THEOREM FileCorrect == Spec => []FileNamesDaemon
<1>1. Init => TypeInv /\ FileNamesDaemon
  BY TypeInit, FileInit
<1>2. TypeInv /\ FileNamesDaemon /\ [Next]_vars => TypeInv' /\ FileNamesDaemon'
  BY TypeStep, FileStep
<1> QED BY <1>1, <1>2, PTL DEF Spec

\* One caller whose daemons are up in time: at rest no daemon runs that the file does not
\* name (service_manager.c:215, :235), even where the system reuses pids.
THEOREM OneDaemonAtRest ==
  ASSUME NEW CONSTANT c, Callers = {c}, Prompt
  PROVE  Spec => []OneDaemon
<1> DEFINE IInv == TypeInv /\ ChainInv(c)
<1>1. Init => IInv
  BY TypeInit, ChainInit
<1>2. IInv /\ [Next]_vars => IInv'
  BY TypeStep, ChainStep
<1>3. IInv => OneDaemon
  BY DEF ChainInv, OneDaemon
<1> QED BY <1>1, <1>2, <1>3, PTL DEF Spec

\* And its reports are true, whoever the system gives the pids to: only a start
\* that finds the service running, or one the system refused something, may
\* have taken another process for it (service_manager.c:139, 213, 249, 276).
THEOREM ReportsTrue ==
  ASSUME NEW CONSTANT c, Callers = {c}, Prompt
  PROVE  Spec => []ReportIsTrue
<1> DEFINE IInv == TypeInv /\ FileNamesDaemon /\ ChainInv(c) /\ ReportInv(c)
<1>1. Init => IInv
  BY TypeInit, FileInit, ChainInit, ReportInit
<1>2. IInv /\ [Next]_vars => IInv'
  BY TypeStep, FileStep, ChainStep, ReportStep
<1>3. IInv => ReportIsTrue
  BY DEF ReportInv, ReportIsTrue, AtRest, Idle
<1> QED BY <1>1, <1>2, <1>3, PTL DEF Spec

=============================================================================
