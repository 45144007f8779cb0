--------------------------- MODULE ServiceManager ----------------------------
(***************************************************************************)
(* The service manager (src/service_manager.c): start, stop and restart    *)
(* know the daemon by the pid in a file, which the daemon writes itself    *)
(* once it has forked twice.  A start waits 100 ms and looks whether that  *)
(* has happened; with Prompt it has, with every process it forked settled. *)
(* The system, external, gives pids to other processes too, also one that  *)
(* the file still holds.                                                   *)
(***************************************************************************)
EXTENDS Integers, FiniteSets

CONSTANTS
  Callers,  \* processes that call start, stop or restart
  Pids,
  Absent,   \* there is no pid file
  Prompt

ASSUME ServiceManagerAssumption ==
  /\ Absent \notin Pids
  /\ Prompt \in BOOLEAN

VARIABLES
  process,   \* what the process with each pid is
  pidFile,   \* what read_pid_file returns: a pid, or Absent for -1
  writable,  \* external: the pid file can be opened for writing
  call,      \* each caller's command: what it does next, the pid it has read
  last,      \* history: how the caller's last command ended
  failed,    \* history: the system refused that command a fork or a file
  died,      \* history: a daemon has died of itself since the last command
  harmed,    \* history: a process that is no daemon was signalled
  reused     \* history: the pid in the file has been given away since it was written

hist == <<last, failed, died, harmed, reused>>
vars == <<process, pidFile, writable, call, hist>>

\* The stages of run_daemon's chain of processes, before it opens the file.
Forking  == {"child", "leader", "daemon"}
Starting == {p \in Pids : process[p] \in Forking \union {"writing"}}
Daemons  == {p \in Pids : process[p] = "running"}

Idle == [at |-> "idle", cmd |-> "none", pid |-> Absent]

Init ==
  /\ process \in [Pids -> {"free", "stranger", "foreign"}]
  /\ pidFile = Absent /\ writable \in BOOLEAN
  /\ call = [c \in Callers |-> Idle]
  /\ last = [c \in Callers |-> [cmd |-> "none", status |-> "none"]]
  /\ failed = FALSE /\ died = FALSE /\ harmed = FALSE /\ reused = FALSE

\* The pids fork may return.
Unused == {p \in Pids : process[p] = "free"}
Given(p) == reused' = (reused \/ p = pidFile)

\* kill succeeds on a process of the same user.
Reaches(pid) == pid # Absent /\ process[pid] \notin {"free", "foreign"}

service_is_running == Reaches(pidFile)

Goes(c, next) == call' = [call EXCEPT ![c].at = next]

Returns(c, status) ==
  /\ call' = [call EXCEPT ![c] = Idle]
  /\ last' = [last EXCEPT ![c] = [cmd |-> call[c].cmd, status |-> status]]

-----------------------------------------------------------------------------
(* The commands                                                             *)

Begin(c, cmd, first) ==
  /\ call[c] = Idle
  /\ call' = [call EXCEPT ![c] = [at |-> first, cmd |-> cmd, pid |-> Absent]]
  /\ failed' = FALSE /\ died' = FALSE
  /\ UNCHANGED <<process, pidFile, writable, last, harmed, reused>>

Start(c)   == Begin(c, "start", "look")
Stop(c)    == Begin(c, "stop", "read")
Restart(c) == Begin(c, "restart", "read")

\* As it would be if start did not look first.
LookNot(c) ==
  /\ call[c].at = "look"
  /\ Goes(c, "fork") /\ UNCHANGED last
  /\ UNCHANGED <<process, pidFile, writable, failed, died, harmed, reused>>
Look(c) ==
  /\ call[c].at = "look"
  /\ IF service_is_running
     THEN Returns(c, "ALREADY_RUNNING")
     ELSE Goes(c, "fork") /\ UNCHANGED last
  /\ UNCHANGED <<process, pidFile, writable, failed, died, harmed, reused>>

Fork(c) ==
  /\ call[c].at = "fork"
  /\ \E p \in Unused : process' = [process EXCEPT ![p] = "child"] /\ Given(p)
  /\ Goes(c, "wait")
  /\ UNCHANGED <<pidFile, writable, last, failed, died, harmed>>

ForkFails(c) ==
  /\ call[c].at = "fork"
  /\ Returns(c, "ERROR")
  /\ failed' = TRUE
  /\ UNCHANGED <<process, pidFile, writable, died, harmed, reused>>

\* As it would be if a fork that succeeds were a start that succeeds.
LookNoMore(c) ==
  /\ call[c].at = "wait"
  /\ Prompt => Starting = {}
  /\ Returns(c, "SUCCESS")
  /\ UNCHANGED <<process, pidFile, writable, failed, died, harmed, reused>>

\* The 100 ms are over.
LookAgain(c) ==
  /\ call[c].at = "wait"
  /\ Prompt => Starting = {}
  /\ Returns(c, IF service_is_running THEN "SUCCESS" ELSE "ERROR")
  /\ UNCHANGED <<process, pidFile, writable, failed, died, harmed, reused>>

\* What a stop's outcome leads to: the end, or the start that follows.
Stopped(c, status) ==
  IF call[c].cmd = "restart" /\ status # "ERROR"
  THEN Goes(c, "look") /\ UNCHANGED last
  ELSE Returns(c, status)

\* As it would be if stop did not look whether there is a pid.
ReadAny(c) ==
  /\ call[c].at = "read"
  /\ call' = [call EXCEPT ![c].at = "kill", ![c].pid = pidFile]
  /\ UNCHANGED <<process, pidFile, writable, last, failed, died, harmed, reused>>

ReadPid(c) ==
  /\ call[c].at = "read"
  /\ IF pidFile = Absent
     THEN Stopped(c, "NOT_RUNNING")
     ELSE /\ call' = [call EXCEPT ![c].at = "kill", ![c].pid = pidFile]
          /\ UNCHANGED last
  /\ UNCHANGED <<process, pidFile, writable, failed, died, harmed, reused>>

\* SIGTERM; the daemon does not handle it.  A pid that nobody has, or another
\* user's process, is an error, and the file stays.
Kill(c) ==
  LET pid == call[c].pid IN
  /\ call[c].at = "kill"
  /\ IF Reaches(pid)
     THEN /\ process' = [process EXCEPT ![pid] = "free"]
          /\ harmed' = (harmed \/ process[pid] = "stranger")
          /\ Goes(c, "unlink") /\ UNCHANGED last
     ELSE Stopped(c, "ERROR") /\ UNCHANGED <<process, harmed>>
  /\ UNCHANGED <<pidFile, writable, failed, died, reused>>

\* A daemon that has the file open writes where nobody looks any more.
Unlink(c) ==
  /\ call[c].at = "unlink"
  /\ pidFile' = Absent /\ reused' = FALSE
  /\ process' = [p \in Pids |-> IF process[p] = "writing" THEN "running" ELSE process[p]]
  /\ Stopped(c, "SUCCESS")
  /\ UNCHANGED <<writable, failed, died, harmed>>

-----------------------------------------------------------------------------
(* run_daemon                                                               *)

\* fork and exit: the successor goes on.
Succeeds(p, from, to) ==
  /\ process[p] = from
  /\ \E q \in Unused : process' = [process EXCEPT ![p] = "free", ![q] = to] /\ Given(q)
  /\ UNCHANGED <<pidFile, writable, call, last, failed, died, harmed>>

\* As it would be if the pid were written before the second fork.
FirstForkWrites(p) ==
  /\ process[p] = "child" /\ writable
  /\ \E q \in Unused : /\ process' = [process EXCEPT ![p] = "free", ![q] = "leader"]
                      /\ pidFile' = q /\ reused' = FALSE
  /\ UNCHANGED <<writable, call, last, failed, died, harmed>>

FirstFork(p)  == Succeeds(p, "child", "leader")
SecondFork(p) == Succeeds(p, "leader", "daemon")

\* A fork, setsid, chdir or /dev/null fails: the process exits.
InitFails(p) ==
  /\ process[p] \in Forking
  /\ process' = [process EXCEPT ![p] = "free"]
  /\ failed' = TRUE
  /\ UNCHANGED <<pidFile, writable, call, last, died, harmed, reused>>

\* fopen truncates the file; without it the daemon runs all the same.
OpenPidFile(p) ==
  /\ process[p] = "daemon"
  /\ IF writable
     THEN process' = [process EXCEPT ![p] = "writing"] /\ pidFile' = Absent /\ reused' = FALSE
     ELSE process' = [process EXCEPT ![p] = "running"] /\ UNCHANGED <<pidFile, reused>>
  /\ UNCHANGED <<writable, call, last, failed, died, harmed>>

WritePid(p) ==
  /\ process[p] = "writing"
  /\ pidFile' = p /\ reused' = FALSE
  /\ process' = [process EXCEPT ![p] = "running"]
  /\ UNCHANGED <<writable, call, last, failed, died, harmed>>

Dies(p) ==
  /\ process[p] = "running"
  /\ process' = [process EXCEPT ![p] = "free"]
  /\ died' = TRUE
  /\ UNCHANGED <<pidFile, writable, call, last, failed, harmed, reused>>

-----------------------------------------------------------------------------
(* The rest of the system                                                   *)

OtherBegins(p) ==
  /\ p \in Unused /\ Given(p)
  /\ process' \in {[process EXCEPT ![p] = kind] : kind \in {"stranger", "foreign"}}
  /\ UNCHANGED <<pidFile, writable, call, last, failed, died, harmed>>

OtherEnds(p) ==
  /\ process[p] \in {"stranger", "foreign"}
  /\ process' = [process EXCEPT ![p] = "free"]
  /\ UNCHANGED <<pidFile, writable, call, hist>>

\* Every process ends; the file stays.
Reboot ==
  /\ process' = [p \in Pids |-> "free"]
  /\ call' = [c \in Callers |-> Idle]
  /\ died' = TRUE
  /\ UNCHANGED <<pidFile, writable, last, failed, harmed, reused>>

-----------------------------------------------------------------------------
CallStep(c) ==
  \/ Look(c) \/ Fork(c) \/ ForkFails(c) \/ LookAgain(c) \/ ReadPid(c) \/ Kill(c) \/ Unlink(c)

DaemonStep(p) ==
  FirstFork(p) \/ SecondFork(p) \/ InitFails(p) \/ OpenPidFile(p) \/ WritePid(p)

Next ==
  \/ \E c \in Callers : Start(c) \/ Stop(c) \/ Restart(c) \/ CallStep(c)
  \/ \E p \in Pids : DaemonStep(p) \/ Dies(p) \/ OtherBegins(p) \/ OtherEnds(p)
  \/ Reboot

Spec == Init /\ [][Next]_vars

-----------------------------------------------------------------------------
(* Properties                                                               *)

Statuses == {"none", "SUCCESS", "ERROR", "ALREADY_RUNNING", "NOT_RUNNING"}

\* The state is well formed: a command that is about to send a signal has read
\* a pid, and only the commands that stop send one.
TypeOK ==
  /\ process \in [Pids -> {"free", "stranger", "foreign", "writing", "running"} \union Forking]
  /\ pidFile \in Pids \union {Absent} /\ writable \in BOOLEAN
  /\ \A c \in Callers :
       /\ call[c].at \in {"idle", "look", "fork", "wait", "read", "kill", "unlink"}
       /\ call[c].cmd \in {"none", "start", "stop", "restart"}
       /\ call[c].at \in {"kill", "unlink"} => call[c].pid \in Pids /\ call[c].cmd # "start"
       /\ last[c].status \in Statuses
  /\ {failed, died, harmed, reused} \subseteq BOOLEAN

\* The pid in the file is that of the daemon itself, never that of one of the
\* processes that forked it (service_manager.c:200), however many start at
\* once; a pid whose daemon has ended is nobody's, unless the system has given
\* it away again.
FileNamesDaemon ==
  ~reused /\ pidFile # Absent => process[pidFile] \in {"running", "free"}

AtRest == Starting = {} /\ \A c \in Callers : call[c] = Idle

\* When the commands are over and nothing is starting, every daemon that runs
\* is the one that the file names and that stop can reach.
OneDaemon == AtRest /\ writable => Daemons \subseteq {pidFile}

\* What a command reported is what it left.  A start or a restart that went
\* well leaves a daemon, unless that died, or the system refused it something
\* while the pid of an old one was somebody else's; one that found the service
\* running is right unless the pid in the file had been given away.  A start
\* fails only for what the system refused or a daemon that died.  After a stop
\* that went well there is none, whoever had the pid.
ReportIsTrue ==
  AtRest =>
    \A c \in Callers : LET cmd == last[c].cmd  status == last[c].status IN
      /\ status = "SUCCESS" /\ cmd # "stop" => died \/ Daemons # {} \/ (failed /\ reused)
      /\ status = "ALREADY_RUNNING" => died \/ Daemons # {} \/ reused
      /\ cmd = "start" /\ status = "ERROR" => died \/ failed \/ ~writable
      /\ cmd = "stop" /\ status # "ERROR" /\ writable => Daemons = {}

\* A start that finds the service running leaves it running
\* (service_manager.h:34), whoever has the pid.
RunningIsTrue ==
  AtRest =>
    \A c \in Callers : last[c].status = "ALREADY_RUNNING" => died \/ Daemons # {}

\* A restart, too, fails only for such a reason: a daemon that died earlier is
\* what one restarts the service for.
RestartStarts ==
  AtRest => \A c \in Callers :
    last[c] = [cmd |-> "restart", status |-> "ERROR"] => died \/ failed \/ ~writable

\* stop signals daemons only.
StrangersUnharmed == ~harmed

=============================================================================
