--------------------------- MODULE SessionProofs ----------------------------
(***************************************************************************)
(* For any devices, any number of commands and whatever the user does: the *)
(* state is well formed (WellFormed).  If services start in time           *)
(* (PromptStart), however late they end, the one use-virtual spawned stays *)
(* and the others are told to end, and none is left after use-physical     *)
(* (ServInv, StopInv).  If CoreAudio is in time (PromptSwitch), the old    *)
(* device comes back (AudioInv) and the router plays to the one asked for  *)
(* (RouteInv).                                                             *)
(***************************************************************************)
EXTENDS Session, TLAPS

-----------------------------------------------------------------------------
(* Where a command is                                                       *)

UV == {"bind-default", "save", "set-default", "check", "verify", "kill", "unlink", "spawn",
       "play", "kill-router", "route", "return"}
UP == {"kill-router", "unbind", "kill", "unlink", "restore", "return"}
ST == {"bind", "kill-router", "route", "return"}

Places == UV \union UP \union ST \union {"idle"}

Names == {"use_virtual", "use_physical", "set"}
Hows  == Names \union {"none", "restored", "fell-back", "failed"}

In(name, places) == command.name = name /\ command.at \in places

CommandInv ==
  /\ command \in [name : Names \union {"none"}, at : Places, device : Devices \union {NoDevice},
                  tries : {0, 1, 2}, how : Hows]
  /\ command.name = "none" <=> command.at = "idle"
  /\ command.name = "none" => command = Idle
  /\ command.name = "use_virtual" => command.at \in UV /\ command.how = "use_virtual"
  /\ command.name = "use_physical" => /\ command.at \in UP
                                      /\ command.how \in {"use_physical", "restored", "fell-back",
                                                          "failed"}
  /\ In("use_physical", UP \ {"return"}) => command.how = "use_physical"
  /\ command.name = "set" => /\ command.at \in ST /\ command.device \in Physical
                             /\ command.how \in {"set", "failed"}
  /\ In("use_virtual", {"kill-router", "route"}) => command.device \in Devices
  /\ last # "none" => command.name = "none"

TypeInv ==
  /\ plugged \subseteq Physical /\ default \in Devices /\ pending \in Devices \union {NoDevice}
  /\ input \in BOOLEAN /\ writable \in BOOLEAN /\ inProcess \in BOOLEAN
  /\ saved \in Devices \union {NoDevice} /\ binding \in Devices \union {NoDevice}
  /\ wanted \in Devices \union {NoDevice} /\ before \in Devices \union {NoDevice}
  /\ lost \subseteq {"uid", "service", "router"}

\* A router is spawned only when there is none; the other one runs inside
\* use-virtual.
RouterInv ==
  /\ \A r \in routers : r \in [at : {"starting", "running"}, target : Devices]
  /\ \A r, q \in routers : r = q
  /\ command.at = "route" => routers = {}
  /\ inProcess => In("use_virtual", {"kill-router", "route", "return"})

\* What follows a step, command by command.
After(name, at) ==
  CASE at = "bind-default" -> "save"
    [] at = "save" -> "set-default"
    [] at = "set-default" -> "check"
    [] at = "check" -> "verify"
    [] at = "verify" -> "kill"
    [] at = "unbind" -> "kill"
    [] at = "kill" -> "unlink"
    [] at = "unlink" -> IF name = "use_virtual" THEN "spawn" ELSE "restore"
    [] at = "spawn" -> "play"
    [] at = "play" -> "kill-router"
    [] at = "bind" -> "kill-router"
    [] at = "kill-router" -> IF name = "use_physical" THEN "unbind" ELSE "route"
    [] OTHER -> "return"

Follow(steps, name) == \A j \in DOMAIN steps : steps[j] # "return" => steps[j + 1] = After(name, steps[j])

\* After says what the sequences of steps say.
LEMMA StepsFollow == \A name \in Names : Follow(Steps[name], name)
<1>1. DOMAIN UseVirtualSteps = 1..12 /\ DOMAIN UsePhysicalSteps = 1..6 /\ DOMAIN SetSteps = 1..4
  BY DEF UseVirtualSteps, UsePhysicalSteps, SetSteps
<1>2. \A j \in 1..12 :
        UseVirtualSteps[j] # "return" => UseVirtualSteps[j + 1] = After("use_virtual", UseVirtualSteps[j])
  BY DEF UseVirtualSteps, After
<1>3. \A j \in 1..6 :
        UsePhysicalSteps[j] # "return" => UsePhysicalSteps[j + 1] = After("use_physical", UsePhysicalSteps[j])
  BY DEF UsePhysicalSteps, After
<1>4. \A j \in 1..4 : SetSteps[j] # "return" => SetSteps[j + 1] = After("set", SetSteps[j])
  BY DEF SetSteps, After
<1>5. /\ Follow(UseVirtualSteps, "use_virtual") /\ Follow(UsePhysicalSteps, "use_physical")
      /\ Follow(SetSteps, "set")
  BY <1>1, <1>2, <1>3, <1>4 DEF Follow
<1>6. /\ Steps["use_virtual"] = UseVirtualSteps /\ Steps["use_physical"] = UsePhysicalSteps
      /\ Steps["set"] = SetSteps
  BY DEF Steps
<1> QED BY <1>5, <1>6 DEF Names

\* A step that goes on goes to the next one.
LEMMA GoesOnTo ==
  ASSUME CommandInv, NEW new, GoesOn(new), command.name # "none", command.at # "return"
  PROVE  command' = [new EXCEPT !.at = After(command.name, command.at)] /\ last' = last
<1> DEFINE steps == Steps[command.name]
<1>1. PICK i \in DOMAIN steps :
        steps[i] = command.at /\ command' = [new EXCEPT !.at = steps[i + 1]]
  BY DEF GoesOn
<1>2. Follow(steps, command.name)
  BY StepsFollow DEF CommandInv
<1>3. steps[i + 1] = After(command.name, command.at)
  BY <1>1, <1>2 DEF Follow
<1> HIDE DEF steps
<1>4. command' = [new EXCEPT !.at = After(command.name, command.at)]
  BY <1>1, <1>3
<1> QED BY <1>4 DEF GoesOn

\* The same for a step that changes nothing else of the command.
LEMMA GoOnTo ==
  ASSUME CommandInv, GoOn, command.name # "none", command.at # "return"
  PROVE  /\ command' = [command EXCEPT !.at = After(command.name, command.at)] /\ last' = last
         /\ command'.name = command.name /\ command'.at = After(command.name, command.at)
         /\ command'.device = command.device /\ command'.how = command.how
         /\ command'.tries = command.tries
<1>1. command' = [command EXCEPT !.at = After(command.name, command.at)] /\ last' = last
  BY GoesOnTo DEF GoOn
<1> QED BY <1>1 DEF CommandInv

\* A command begins, or ends.
LEMMA BeginInv ==
  ASSUME NEW name \in Names, NEW d \in Devices \union {NoDevice}, Begin(name, d),
         name = "set" => d \in Physical
  PROVE  CommandInv'
<1>1. /\ UseVirtualSteps[1] = "bind-default" /\ UsePhysicalSteps[1] = "kill-router"
      /\ SetSteps[1] = "bind"
  BY DEF UseVirtualSteps, UsePhysicalSteps, SetSteps
<1>2. /\ Steps["use_virtual"][1] = "bind-default" /\ Steps["use_physical"][1] = "kill-router"
      /\ Steps["set"][1] = "bind"
  BY <1>1 DEF Steps
<1>3. /\ command' = [name |-> name, at |-> Steps[name][1], device |-> d, tries |-> 0, how |-> name]
      /\ last' = "none"
  BY DEF Begin
<1>4. Steps[name][1] = CASE name = "use_virtual" -> "bind-default"
                          [] name = "use_physical" -> "kill-router"
                          [] OTHER -> "bind"
  BY <1>2 DEF Names
<1> HIDE DEF Steps
<1> QED BY <1>3, <1>4 DEF CommandInv, Names, In, UV, UP, ST, Places, Hows

\* The command that has ended is the idle one.
LEMMA EndsInv == ASSUME NEW how, Ends(how) PROVE CommandInv'
BY DEF Ends, CommandInv, Idle, Names, In, Places, Hows

\* Where nothing else of the command changes, it goes on.
LEMMA GoOnInv ==
  ASSUME CommandInv, GoOn, command.name # "none", command.at # "return",
         command.name = "use_virtual" /\ command.at \in {"play", "kill-router"} =>
           command.device \in Devices
  PROVE  CommandInv'
<1>1. /\ command' = [command EXCEPT !.at = After(command.name, command.at)] /\ last' = last
  BY GoOnTo
<1>2. CASE command.name = "use_virtual"
  BY <1>1, <1>2 DEF CommandInv, After, In, UV, Names, Places
<1>3. CASE command.name = "use_physical"
  BY <1>1, <1>3 DEF CommandInv, After, In, UP, Names, Places
<1>4. CASE command.name = "set"
  BY <1>1, <1>4 DEF CommandInv, After, In, ST, Names, Places
<1> QED BY <1>2, <1>3, <1>4 DEF CommandInv, Names

\* Nothing happens to a command but its own steps.
LEMMA StaysInv == ASSUME CommandInv, UNCHANGED <<command, last>> PROVE CommandInv'
BY DEF CommandInv, In

\* The steps that are not a command's.
Others ==
  \/ TakeEffect \/ \E d \in Devices : Pick(d)
  \/ \E d \in Physical : Unplug(d) \/ Plug(d)
  \/ PickInput \/ Renumber
  \/ \E r \in routers : RouterRuns(r) \/ RouterEnds(r)
  \/ ServiceMoves

\* They leave the command alone; between commands the user has the last word.
LEMMA OthersLeaveCommand ==
  Others => /\ UNCHANGED <<command, binding, writable, before>>
            /\ last' = last \/ (command = Idle /\ last' = "picked")
BY DEF Others, TakeEffect, Pick, Chosen, Unplug, Plug, PickInput, Renumber, RouterRuns, RouterEnds,
       ServiceMoves, files, hist

\* Every step is a command's beginning, one of its steps, or another one.
LEMMA NextIs ==
  ASSUME [Next]_vars
  PROVE  \/ UseVirtual \/ UsePhysical \/ \E d \in Physical : Rebind(d)
         \/ Proceed \/ Others \/ UNCHANGED vars
BY DEF Next, Others

\* A command is always somewhere on its way.
LEMMA CommandStep == TypeInv /\ CommandInv /\ [Next]_vars => CommandInv'
<1> SUFFICES ASSUME TypeInv, CommandInv, [Next]_vars PROVE CommandInv'
  OBVIOUS
<1>1. CASE UseVirtual \/ UsePhysical
  BY <1>1, BeginInv DEF UseVirtual, UsePhysical, Names
<1>2. ASSUME NEW d \in Physical, Rebind(d) PROVE CommandInv'
  BY <1>2, BeginInv DEF Rebind, Names, Devices
<1>3. ASSUME GoOn, command.at \in {"bind", "unbind", "save", "set-default", "check", "verify",
                                   "kill", "unlink", "spawn", "kill-router", "route", "restore"}
      PROVE  CommandInv'
  <2>1. command.name # "none" /\ command.at # "return" /\ command.at # "play"
    BY <1>3 DEF CommandInv
  <2>2. command.name = "use_virtual" /\ command.at \in {"play", "kill-router"} =>
          command.device \in Devices
    BY <2>1 DEF CommandInv, In
  <2> QED BY <1>3, <2>1, <2>2, GoOnInv
<1>4. ASSUME TryAgain, command.at \in {"set-default", "check"} PROVE CommandInv'
  <2>1. command.name = "use_virtual"
    BY <1>4 DEF CommandInv, UP, ST, Names
  <2>2. ASSUME command' = [command EXCEPT !.at = "set-default", !.tries = @ + 1],
               command.tries + 1 < MaxTries, UNCHANGED last
        PROVE  CommandInv'
    <3>1. command.tries \in {0, 1, 2} /\ command.tries + 1 < 3
      BY <2>2 DEF CommandInv, MaxTries
    <3>2. command.tries + 1 \in {0, 1, 2}
      BY <3>1
    <3> QED BY <2>1, <2>2, <3>2 DEF CommandInv, In, UV, Places, Names
  <2> QED BY <1>4, <2>2, EndsInv DEF TryAgain
<1>5. CASE BindDefault
  <2>1. /\ command.at = "bind-default" /\ command.name = "use_virtual"
    BY <1>5 DEF BindDefault, Does, CommandInv, UP, ST, Names
  <2>2. CASE GoesOn([command EXCEPT !.device = default])
    <3>1. command' = [[command EXCEPT !.device = default] EXCEPT !.at = "save"] /\ last' = last
      BY <2>1, <2>2, GoesOnTo DEF After
    <3> QED BY <2>1, <3>1 DEF CommandInv, In, UV, Names, Places, TypeInv
  <2>3. CASE GoOn
    BY <2>1, <2>3, GoOnInv
  <2> QED BY <1>5, <2>2, <2>3 DEF BindDefault
<1>6. CASE SetDefault \/ CheckDefault
  BY <1>3, <1>4, <1>6 DEF SetDefault, CheckDefault, Does
<1>7. CASE VerifyDefault
  BY <1>3, <1>7, EndsInv DEF VerifyDefault, Does
<1>8. CASE SaveBinding \/ Unbind \/ Save \/ Kill \/ Unlink \/ Spawn \/ KillRouter
  BY <1>3, <1>8 DEF SaveBinding, Unbind, Save, Kill, Unlink, Spawn, KillRouter, Does
<1>9. CASE Play
  <2>1. command.at = "play" /\ command.name = "use_virtual"
    BY <1>9 DEF Play, Does, CommandInv, UP, ST, Names
  <2>2. CASE command.device # NoDevice /\ GoOn
    <3>1. command.device \in Devices
      BY <2>2 DEF CommandInv
    <3> QED BY <2>1, <2>2, <3>1, GoOnInv
  <2>3. CASE command' = [command EXCEPT !.at = "return"] /\ UNCHANGED last
    BY <2>1, <2>3 DEF CommandInv, In, UV, Names, Places
  <2> QED BY <1>9, <2>2, <2>3 DEF Play
<1>10. CASE Route
  <2>1. command.at = "route" /\ command.name \in {"use_virtual", "set"}
    BY <1>10 DEF Route, Does, CommandInv, UP, Names
  <2>2. CASE GoesOn([command EXCEPT !.how = IF command.name = "set" THEN "failed" ELSE @])
    <3> DEFINE how == IF command.name = "set" THEN "failed" ELSE command.how
    <3>1. how \in Hows /\ (command.name = "use_virtual" => how = "use_virtual")
          /\ (command.name = "set" => how = "failed")
      BY <2>1 DEF CommandInv, Hows
    <3>2. command' = [[command EXCEPT !.how = how] EXCEPT !.at = "return"] /\ last' = last
      BY <2>1, <2>2, GoesOnTo DEF After
    <3> HIDE DEF how
    <3> QED BY <2>1, <3>1, <3>2 DEF CommandInv, In, UV, UP, ST, Names, Places
  <2> QED BY <1>3, <1>10, <2>1, <2>2 DEF Route
<1>11. CASE Restore
  <2>1. command.at = "restore" /\ command.name = "use_physical"
    BY <1>11 DEF Restore, Does, CommandInv, UV, ST, Names
  <2>2. ASSUME NEW d, NEW how \in {"restored", "fell-back", "failed"}, Restored(d, how)
        PROVE  CommandInv'
    <3>1. command' = [[command EXCEPT !.how = how] EXCEPT !.at = "return"] /\ last' = last
      BY <2>1, <2>2, GoesOnTo DEF After, Restored
    <3> QED BY <2>1, <3>1 DEF CommandInv, In, UP, Names, Places, Hows
  <2>3. CASE GoOn
    BY <1>3, <2>1, <2>3
  <2> QED BY <1>11, <2>2, <2>3 DEF Restore
<1>12. CASE Return
  BY <1>12, EndsInv DEF Return
<1>13. CASE Others
  <2>1. UNCHANGED command /\ (last' = last \/ command = Idle)
    BY <1>13, OthersLeaveCommand
  <2> QED BY <2>1, StaysInv DEF CommandInv, Idle, In
<1>14. CASE UNCHANGED vars
  BY <1>14, StaysInv DEF vars
<1> QED
  BY <1>1, <1>2, <1>5, <1>6, <1>7, <1>8, <1>9, <1>10, <1>11, <1>12, <1>13, <1>14, NextIs
     DEF Proceed

-----------------------------------------------------------------------------
(* The state is well formed                                                 *)

\* The rest of the state stays what it is.
LEMMA TypeStep == TypeInv /\ CommandInv /\ [Next]_vars => TypeInv'
<1> SUFFICES ASSUME TypeInv, CommandInv, [Next]_vars PROVE TypeInv'
  OBVIOUS
<1> USE DEF TypeInv, audio, files, hist, procs, Devices
<1>1. CASE UseVirtual \/ UsePhysical \/ \E d \in Physical : Rebind(d)
  BY <1>1 DEF UseVirtual, UsePhysical, Rebind, Begin
<1>2. CASE BindDefault \/ SaveBinding \/ Save
  <2>1. command.device \in Devices \union {NoDevice}
    BY DEF CommandInv
  <2> QED BY <1>2, <2>1 DEF BindDefault, SaveBinding, Save, Saved
<1>3. CASE Unbind \/ SetDefault \/ CheckDefault \/ VerifyDefault \/ Kill \/ Unlink
  BY <1>3 DEF Unbind, SetDefault, CheckDefault, VerifyDefault, Kill, Unlink
<1>4. CASE Spawn \/ Route
  <2>1. lost' \in {lost, lost \union {"service"}, lost \union {"router"}, lost \ {"router"}}
    BY <1>4 DEF Spawn, Route
  <2>2. lost' \subseteq {"uid", "service", "router"}
    BY <2>1
  <2> QED BY <1>4, <2>2 DEF Spawn, Route
<1>4a. CASE Play
  <2>1. inProcess' \in BOOLEAN
    BY <1>4a DEF Play
  <2> QED BY <1>4a, <2>1 DEF Play
<1>4b. CASE KillRouter \/ Return
  BY <1>4b DEF KillRouter, Return
<1>5. CASE Restore
  <2>1. FirstPhysical \subseteq plugged
    BY DEF FirstPhysical
  <2> QED BY <1>5, <2>1 DEF Restore, Restored
<1>6. CASE TakeEffect \/ PickInput \/ ServiceMoves
  BY <1>6 DEF TakeEffect, PickInput, ServiceMoves
<1>7. ASSUME NEW d \in Devices, Pick(d) PROVE TypeInv'
  BY <1>7 DEF Pick, Chosen
<1>8. ASSUME NEW d \in Physical, Unplug(d) \/ Plug(d) PROVE TypeInv'
  BY <1>8 DEF Unplug, Plug
<1>9. CASE Renumber
  BY <1>9 DEF Renumber
<1>10. ASSUME NEW r \in routers, RouterRuns(r) \/ RouterEnds(r) PROVE TypeInv'
  BY <1>10 DEF RouterRuns, RouterEnds
<1>11. CASE UNCHANGED vars
  BY <1>11 DEF vars
<1> HIDE DEF TypeInv
<1> QED
  BY <1>1, <1>2, <1>3, <1>4, <1>4a, <1>4b, <1>5, <1>6, <1>7, <1>8, <1>9, <1>10, <1>11, NextIs
     DEF Proceed, Others

\* The services and their path.
LEMMA ServiceTypeStep == ServiceType /\ [Next]_vars => ServiceType'
<1> SUFFICES ASSUME ServiceType, [Next]_vars PROVE ServiceType'
  OBVIOUS
<1>a. /\ Servers \subseteq Int /\ NoFile \notin Servers /\ MaxSpawns \in Nat
  BY IPCServiceAssumption DEF Servers, NoFile
<1>0. ASSUME UNCHANGED service PROVE ServiceType'
  BY <1>0 DEF ServiceType, service
<1>1. CASE Kill
  <2>1. /\ server' = [s \in Servers |-> Signalled(server[s])]
        /\ UNCHANGED <<path, spawned, swept>>
    BY <1>1 DEF Kill, KillService
  <2>2. \A s \in Servers : /\ server'[s] \in {"running"} \union Starting \union Ending \union Over
                           /\ server'[s] = "none" <=> server[s] = "none"
                           /\ server'[s] \in {"spawned", "handlers", "unlinked", "none"} =>
                                server[s] \in {"spawned", "handlers", "unlinked", "none"}
    BY <2>1 DEF Signalled, ServiceType, Starting, Ending, Over
  <2> QED BY <2>1, <2>2, <1>a DEF ServiceType
<1>2. CASE Unlink
  BY <1>2 DEF Unlink, UnlinkSocket, ServiceType
<1>3. CASE SpawnService
  <2>1. /\ spawned \in 0..MaxSpawns /\ spawned < MaxSpawns
        /\ spawned' = spawned + 1
        /\ server' = [server EXCEPT ![spawned + 1] = "spawned"] /\ UNCHANGED <<path, swept>>
    BY <1>3 DEF SpawnService, ServiceType
  <2>2. spawned + 1 \in Servers /\ spawned' \in 0..MaxSpawns
    BY <2>1, <1>a DEF Servers
  <2>3. server[spawned + 1] = "none"
    BY <2>1, <2>2 DEF ServiceType
  <2>4. path # NoFile => path # spawned + 1
    BY <2>3 DEF ServiceType
  <2>5. \A s \in Servers : server'[s] = "none" <=> s > spawned'
    BY <2>1, <2>2, <1>a DEF ServiceType
  <2>6. server' \in [Servers -> {"running"} \union Starting \union Ending \union Over]
    BY <2>1, <2>2 DEF ServiceType, Starting
  <2>7. path # NoFile => server'[path] \notin {"spawned", "handlers", "unlinked", "none"}
    BY <2>1, <2>4 DEF ServiceType
  <2> QED BY <2>1, <2>2, <2>5, <2>6, <2>7 DEF ServiceType
<1>4. ASSUME NEW s \in Servers, ServiceStep(s) \/ InitFails(s) \/ Crash(s) PROVE ServiceType'
  <2>1. ASSUME NEW from \in {"running"} \union Starting \union Ending \union Over, from # "none",
               NEW to \in {"running"} \union Starting \union Ending \union Over, to # "none",
               Step(s, from, to), path' \in {path, NoFile, s},
               to \in {"spawned", "handlers", "unlinked"} => path' # s,
               swept' \in {swept, swept \union {path}}, swept' # swept => path # NoFile
        PROVE  ServiceType'
    <3>1. /\ server[s] = from /\ server' = [server EXCEPT ![s] = to] /\ spawned' = spawned
          /\ server \in [Servers -> {"running"} \union Starting \union Ending \union Over]
      BY <2>1 DEF Step, ServiceType
    <3>2. \A t \in Servers : server'[t] = "none" <=> t > spawned'
      BY <2>1, <3>1 DEF ServiceType
    <3>3. path' # NoFile => server'[path'] \notin {"spawned", "handlers", "unlinked", "none"}
      <4>1. CASE path' = s
        BY <2>1, <3>1, <4>1
      <4>2. CASE path' = path /\ path' # s
        BY <3>1, <4>2 DEF ServiceType
      <4> QED BY <2>1, <4>1, <4>2
    <3>4. swept' \subseteq Servers
      BY <2>1 DEF ServiceType
    <3> QED BY <2>1, <3>1, <3>2, <3>3, <3>4 DEF ServiceType
  <2>2. server[s] \in {"spawned", "handlers", "unlinked"} => path # s
    BY <1>a DEF ServiceType
  <2>3. CASE InstallHandlers(s)
    <3>1. Step(s, "spawned", "handlers") /\ path' = path /\ path # s /\ swept' = swept
      BY <2>2, <2>3 DEF InstallHandlers, Step
    <3> QED BY <2>1, <3>1 DEF Starting
  <2>4. CASE UnlinkOld(s)
    BY <2>1, <2>4, <1>a DEF UnlinkOld, Starting
  <2>5. CASE Bind(s)
    BY <2>1, <2>5 DEF Bind, Starting, Over
  <2>6. CASE Ready(s) \/ Crash(s)
    BY <2>1, <2>6 DEF Ready, Crash, Starting, Over
  <2>7. CASE RemoveSocket(s)
    BY <2>1, <2>7 DEF RemoveSocket, Sweep, Ending, Over
  <2>8. CASE InitFails(s)
    BY <2>1, <2>8 DEF InitFails, Sweep, Starting, Over
  <2> QED BY <1>4, <2>3, <2>4, <2>5, <2>6, <2>7, <2>8 DEF ServiceStep
<1>5. CASE Spawn
  BY <1>0, <1>3, <1>5 DEF Spawn
<1>6. CASE ServiceMoves
  BY <1>4, <1>6 DEF ServiceMoves
<1>7. CASE UseVirtual \/ UsePhysical \/ \E d \in Physical : Rebind(d)
  BY <1>0, <1>7 DEF UseVirtual, UsePhysical, Rebind, Begin, procs
<1>8. CASE \/ BindDefault \/ SaveBinding \/ Unbind \/ Save \/ SetDefault \/ CheckDefault
           \/ VerifyDefault \/ Play \/ KillRouter \/ Route \/ Restore \/ Return
  BY <1>0, <1>8 DEF BindDefault, SaveBinding, Unbind, Save, SetDefault, CheckDefault,
     VerifyDefault, Play, KillRouter, Route, Restore, Return, procs
<1>9. CASE Others /\ ~ServiceMoves
  BY <1>0, <1>9 DEF Others, TakeEffect, Pick, Unplug, Plug, PickInput, Renumber, RouterRuns,
     RouterEnds, procs
<1>10. CASE UNCHANGED vars
  BY <1>0, <1>10 DEF vars, procs
<1> QED
  BY <1>1, <1>2, <1>5, <1>6, <1>7, <1>8, <1>9, <1>10, NextIs DEF Proceed

\* The routers.
LEMMA RouterStep == TypeInv /\ CommandInv /\ RouterInv /\ [Next]_vars => RouterInv'
<1> SUFFICES ASSUME TypeInv, CommandInv, RouterInv, [Next]_vars PROVE RouterInv'
  OBVIOUS
<1>0. inProcess => In("use_virtual", {"kill-router", "route", "return"})
  BY DEF RouterInv
<1>a. ASSUME UNCHANGED <<routers, inProcess>>,
             command' = command \/ command'.at \notin {"route", "idle"} \/ command' = Idle,
             inProcess => In("use_virtual", {"kill-router", "route", "return"})'
      PROVE  RouterInv'
  BY <1>a DEF RouterInv, Idle
<1>b. ASSUME GoOn, command.at \in UV \union UP \union ST, command.at # "return"
      PROVE  /\ command'.name = command.name /\ command'.at = After(command.name, command.at)
             /\ command.name # "none"
  <2>1. command.name # "none"
    BY <1>b DEF CommandInv, UV, UP, ST
  <2> QED BY <1>b, <2>1, GoOnTo
<1>c. ASSUME command.at \in UV \union UP \union ST, inProcess,
             command.at \notin {"kill-router", "route", "return"}
      PROVE  FALSE
  BY <1>c, <1>0 DEF In
<1>d. command.name = "none" => ~inProcess
  BY <1>0 DEF In
<1>1. ASSUME NEW name \in Names, NEW d, Begin(name, d) PROVE RouterInv'
  <2>1. /\ UseVirtualSteps[1] = "bind-default" /\ UsePhysicalSteps[1] = "kill-router"
        /\ SetSteps[1] = "bind"
    BY DEF UseVirtualSteps, UsePhysicalSteps, SetSteps
  <2>2. Steps[name][1] \in {"bind-default", "kill-router", "bind"}
    BY <2>1 DEF Steps, Names
  <2>3. command = Idle /\ command'.at \notin {"route", "idle"} /\ UNCHANGED <<routers, inProcess>>
    BY <1>1, <2>2 DEF Begin, procs
  <2>4. ~inProcess
    BY <1>d, <2>3 DEF Idle
  <2> QED BY <1>a, <2>3, <2>4
<1>2. CASE UseVirtual \/ UsePhysical \/ \E d \in Physical : Rebind(d)
  BY <1>1, <1>2 DEF UseVirtual, UsePhysical, Rebind, Names
<1>3. ASSUME GoOn, UNCHANGED <<routers, inProcess>>,
             command.at \in {"bind-default", "save", "set-default", "check", "verify", "kill", "unlink",
                            "spawn", "bind", "unbind", "restore"}
      PROVE  RouterInv'
  <2>1. command.at \in UV \union UP \union ST /\ command.at \notin {"kill-router", "route", "return"}
    BY <1>3 DEF UV, UP, ST
  <2>2. command'.at = After(command.name, command.at) /\ ~inProcess
    BY <1>3, <1>b, <1>c, <2>1
  <2>3. command'.at \notin {"route", "idle"}
    BY <1>3, <2>2 DEF After
  <2> QED BY <1>a, <1>3, <2>2, <2>3
<1>4. ASSUME TryAgain, UNCHANGED <<routers, inProcess>>, command.at \in {"set-default", "check"}
      PROVE  RouterInv'
  <2>1. command.at \in UV \union UP \union ST /\ command.at \notin {"kill-router", "route", "return"}
    BY <1>4 DEF UV, UP, ST
  <2>2. ~inProcess
    BY <1>c, <2>1
  <2>3. command'.at = "set-default" \/ command' = Idle
    BY <1>4 DEF TryAgain, Ends, CommandInv
  <2> QED BY <1>a, <1>4, <2>2, <2>3
<1>5. CASE BindDefault
  <2>1. command.at = "bind-default" /\ command.name # "none" /\ UNCHANGED <<routers, inProcess>>
    BY <1>5 DEF BindDefault, Does, CommandInv, procs
  <2>2. CASE GoesOn([command EXCEPT !.device = default])
    <3>1. command' = [[command EXCEPT !.device = default] EXCEPT !.at = "save"]
      BY <2>1, <2>2, GoesOnTo DEF After
    <3>2. command'.at = "save"
      BY <3>1 DEF CommandInv
    <3>3. ~inProcess
      BY <1>c, <2>1 DEF UV
    <3> QED BY <1>a, <2>1, <3>2, <3>3
  <2> QED BY <1>3, <1>5, <2>1, <2>2 DEF BindDefault
<1>6. CASE SetDefault \/ CheckDefault
  BY <1>3, <1>4, <1>6 DEF SetDefault, CheckDefault, Does, procs
<1>7. CASE VerifyDefault
  <2>1. CASE GoOn
    BY <1>3, <1>7, <2>1 DEF VerifyDefault, Does, procs
  <2>2. CASE Ends("failed")
    <3>1. command.at = "verify" /\ UNCHANGED <<routers, inProcess>>
      BY <1>7 DEF VerifyDefault, Does, procs
    <3>2. ~inProcess
      BY <1>c, <3>1 DEF UV
    <3> QED BY <1>a, <2>2, <3>1, <3>2 DEF Ends
  <2> QED BY <1>7, <2>1, <2>2 DEF VerifyDefault
<1>8. CASE SaveBinding \/ Unbind \/ Save \/ Kill \/ Unlink \/ Spawn
  BY <1>3, <1>8 DEF SaveBinding, Unbind, Save, Kill, Unlink, Spawn, Does, procs
<1>9. CASE Play
  <2>1. command.at = "play" /\ command.name = "use_virtual" /\ routers' = routers
    BY <1>9 DEF Play, Does, CommandInv, UP, ST, Names
  <2>2. ~inProcess
    BY <1>c, <2>1 DEF UV
  <2>3. command'.name = "use_virtual" /\ command'.at \in {"kill-router", "return"}
    <3>1. CASE GoOn
      BY <1>b, <2>1, <3>1 DEF After, UV
    <3>2. CASE command' = [command EXCEPT !.at = "return"]
      BY <2>1, <3>2 DEF CommandInv
    <3> QED BY <1>9, <3>1, <3>2 DEF Play
  <2> QED BY <2>1, <2>3 DEF RouterInv, In
<1>10. CASE KillRouter
  <2>1. /\ command.at = "kill-router" /\ routers' = {} /\ inProcess' = inProcess
        /\ command'.name = command.name /\ command'.at = After(command.name, command.at)
    BY <1>10, <1>b DEF KillRouter, Does, UV
  <2>2. inProcess => command'.name = "use_virtual" /\ command'.at = "route"
    BY <1>0, <2>1 DEF In, After
  <2> QED BY <2>1, <2>2 DEF RouterInv, In
<1>11. CASE Route
  <2>1. /\ command.at = "route" /\ command.name \in {"use_virtual", "set"} /\ routers = {}
        /\ inProcess' = inProcess /\ command.device \in Devices
    BY <1>11 DEF Route, Does, CommandInv, RouterInv, UP, Names, In, Devices
  <2>2. routers' \in {{}, {[at |-> "starting", target |-> command.device]}}
    BY <1>11, <2>1 DEF Route
  <2>3. command'.name = command.name /\ command'.at = "return"
    <3>1. CASE GoOn
      BY <1>b, <2>1, <3>1 DEF After, UV
    <3>2. CASE GoesOn([command EXCEPT !.how = IF command.name = "set" THEN "failed" ELSE @])
      <4> DEFINE how == IF command.name = "set" THEN "failed" ELSE command.how
      <4>1. command' = [[command EXCEPT !.how = how] EXCEPT !.at = "return"]
        BY <2>1, <3>2, GoesOnTo DEF After
      <4> HIDE DEF how
      <4> QED BY <4>1 DEF CommandInv
    <3> QED BY <1>11, <3>1, <3>2 DEF Route
  <2>4. inProcess => command.name = "use_virtual"
    BY <1>0 DEF In
  <2> QED BY <2>1, <2>2, <2>3, <2>4 DEF RouterInv, In
<1>12. CASE Restore
  <2>1. command.at = "restore" /\ command.name = "use_physical" /\ UNCHANGED <<routers, inProcess>>
    BY <1>12 DEF Restore, Does, CommandInv, UV, ST, Names, procs
  <2>2. ~inProcess
    BY <1>c, <2>1 DEF UP
  <2>3. ASSUME NEW d, NEW how, Restored(d, how) PROVE command'.at = "return"
    <3>1. command' = [[command EXCEPT !.how = how] EXCEPT !.at = "return"]
      BY <2>1, <2>3, GoesOnTo DEF After, Restored
    <3> QED BY <3>1 DEF CommandInv
  <2>4. CASE GoOn
    BY <1>3, <2>1, <2>4
  <2> QED BY <1>a, <1>12, <2>1, <2>2, <2>3, <2>4 DEF Restore
<1>13. CASE Return
  BY <1>13 DEF Return, Ends, RouterInv, Idle
<1>14. CASE Others
  <2>1. command' = command
    BY <1>14, OthersLeaveCommand
  <2>2. CASE UNCHANGED <<routers, inProcess>>
    BY <1>a, <1>0, <2>1, <2>2 DEF In
  <2>3. ASSUME NEW r \in routers, RouterRuns(r) PROVE RouterInv'
    <3>1. routers = {r} /\ r \in [at : {"starting", "running"}, target : Devices]
      BY DEF RouterInv
    <3>2. routers' = {[r EXCEPT !.at = "running"]} /\ inProcess' = inProcess
      BY <2>3, <3>1 DEF RouterRuns
    <3>3. command.at # "route"
      BY <3>1 DEF RouterInv
    <3> QED BY <1>0, <2>1, <3>1, <3>2, <3>3 DEF RouterInv, In
  <2>4. ASSUME NEW r \in routers, RouterEnds(r) PROVE RouterInv'
    BY <1>0, <2>1, <2>4 DEF RouterEnds, RouterInv, In
  <2>5. \/ UNCHANGED <<routers, inProcess>>
        \/ \E r \in routers : RouterRuns(r) \/ RouterEnds(r)
    BY <1>14 DEF Others, TakeEffect, Pick, Unplug, Plug, PickInput, Renumber, ServiceMoves, procs
  <2> QED BY <2>2, <2>3, <2>4, <2>5
<1>15. CASE UNCHANGED vars
  BY <1>15, <1>a, <1>0 DEF vars, procs, In
<1> QED
  BY <1>2, <1>5, <1>6, <1>7, <1>8, <1>9, <1>10, <1>11, <1>12, <1>13, <1>14, <1>15, NextIs DEF Proceed

WellFormed == ServiceType /\ TypeInv /\ CommandInv /\ RouterInv

\* That holds from the beginning.
LEMMA InitWellFormed == Init => WellFormed
<1> SUFFICES ASSUME Init PROVE WellFormed
  OBVIOUS
<1>1. ServiceType
  BY IPCServiceAssumption DEF Init, ServiceInit, ServiceType, Servers, NoFile, Over
<1>2. TypeInv /\ RouterInv
  BY DEF Init, TypeInv, RouterInv, Devices, Idle
<1>3. CommandInv
  BY DEF Init, CommandInv, Idle, Places, Names, Hows, In
<1> QED BY <1>1, <1>2, <1>3 DEF WellFormed

\* All of that together.
LEMMA WellFormedStep == WellFormed /\ [Next]_vars => WellFormed'
BY ServiceTypeStep, TypeStep, CommandStep, RouterStep DEF WellFormed

\* The state is well formed at all times.
LEMMA AlwaysWellFormed == Spec => []WellFormed
BY InitWellFormed, WellFormedStep, PTL DEF Spec

\* Whatever the user, CoreAudio and the processes do, the state is well
\* formed: a router plays to a device, there is one in the background at most
\* (main.c:18: the old one is killed first), and the other one runs inside
\* use-virtual only.
THEOREM TypeCorrect == Spec => []TypeOK
<1>1. WellFormed => TypeOK
  <2> SUFFICES ASSUME WellFormed PROVE TypeOK
    OBVIOUS
  <2>1. command.device \in Devices \union {NoDevice} /\ command.tries \in 0..(MaxTries - 1)
    BY DEF WellFormed, CommandInv, MaxTries
  <2>2. \A r, q \in routers : r.target \in Devices /\ r = q
    BY DEF WellFormed, RouterInv
  <2>3. inProcess => command.name = "use_virtual"
    BY DEF WellFormed, RouterInv, In
  <2> QED BY <2>1, <2>2, <2>3 DEF WellFormed, TypeInv, TypeOK
<1> QED BY <1>1, AlwaysWellFormed, PTL

-----------------------------------------------------------------------------
(* The service, when it starts in time                                      *)

Quiet == ~Busy(Starting \union {"running"})

Ended == {"use_physical", "restored", "fell-back"}

\* A command that is going to kill the service was begun when none was
\* starting; ...
Begun == \/ In("use_virtual", {"bind-default", "save", "set-default", "check", "verify", "kill"})
         \/ In("use_physical", {"kill-router", "unbind", "kill"})

\* ... after the unlink none starts or runs; ...
Down == command.at \in {"spawn", "restore"} \/ In("use_physical", {"return"}) \/ last \in Ended

\* ... and after the spawn only the one spawned does.  An older one that ends
\* may take its path away.
Up == In("use_virtual", {"play", "kill-router", "route", "return"}) \/ last = "use_virtual"

Serves ==
  /\ spawned \in Servers
  /\ \A s \in Servers : s # spawned => server[s] \in Ending \union Over
  /\ server[spawned] \in Starting \union {"running", "failed"}
  /\ server[spawned] \in {"spawned", "handlers", "unlinked"} => path = NoFile
  /\ server[spawned] \in {"bound", "running"} =>
       path = spawned \/ (path = NoFile /\ spawned \in swept)

ServInv ==
  /\ Begun => ~Busy(Starting)
  /\ command.at = "unlink" => Quiet
  /\ Down => Quiet /\ path = NoFile
  /\ Up /\ "service" \notin lost => Serves

StopInv ==
  /\ In("use_physical", UP \ {"kill-router"}) \/ last \in Ended => routers = {}
  /\ In("use_physical", UP \ {"kill-router", "unbind"}) \/ last \in Ended => binding = NoDevice

\* CoreAudio, when it has done what it accepted before a command looks.
AudioInv ==
  /\ pending # NoDevice => \/ In("use_virtual", {"check"}) /\ pending = Virtual
                           \/ In("use_physical", {"return"}) \/ command = Idle
  /\ In("use_virtual", UV) => wanted = before
  /\ command.name = "use_virtual" /\ "use_virtual" \notin meddled =>
       /\ command.at = "bind-default" => default = before
       /\ command.at = "save" => default = before
       /\ command.at \in UV \ {"bind-default", "save", "set-default", "check"} => default = Virtual
  /\ ~writable => saved = NoDevice
  /\ saved # NoDevice /\ "use_virtual" \notin meddled /\ ~In("use_virtual", {"bind-default", "save"}) =>
       saved = before
  /\ "restored" \in {command.how, last} /\ meddled \intersect {"use_virtual", "use_physical"} = {} =>
       before # NoDevice /\ (pending = before \/ (pending = NoDevice /\ default = before))
  /\ {command.how, last} \intersect {"restored", "fell-back"} # {} /\ "use_physical" \notin meddled =>
       pending \in Physical \/ (pending = NoDevice /\ default \in Physical)
  /\ (In("use_physical", {"return"}) /\ command.how = "use_physical") \/ last = "use_physical" =>
       "use_physical" \in meddled \/ (pending = NoDevice /\ default \in Physical)

\* The binding and the routers.
Bound  == ~writable \/ "uid" \in lost \/ binding = wanted
Routed == lost \intersect {"uid", "router"} # {} \/ {r.target : r \in routers} = {wanted}

RouteInv ==
  /\ "none" \notin meddled
  /\ In("use_virtual", UV) => before \in Devices
  /\ In("set", ST) => wanted = command.device
  /\ last \in {"use_virtual", "set"} => wanted \in Devices
  /\ In("set", ST) /\ "set" \notin meddled => default = Virtual /\ pending = NoDevice
  /\ last \in {"use_virtual", "set"} /\ last \notin meddled => default = Virtual /\ pending = NoDevice
  /\ In("use_virtual", UV \ {"bind-default"}) /\ "use_virtual" \notin meddled /\ "uid" \notin lost =>
       command.device = wanted
  /\ \A name \in {"use_virtual", "set"} :
       name \notin meddled =>
         /\ In(name, (UV \union ST) \ {"bind-default", "bind"}) \/ last = name => Bound
         /\ In(name, {"return"}) \/ last = name => Routed

-----------------------------------------------------------------------------
(* Where each step leads                                                    *)

To(name, at, next) ==
  /\ command.name = name /\ command.at = at /\ last = "none"
  /\ command'.name = name /\ command'.at = next /\ last' = "none"
Keeps == command'.device = command.device /\ command'.how = command.how

Stops(name, at, how) ==
  command.name = name /\ command.at = at /\ last = "none" /\ command' = Idle /\ last' = how

\* A step of GoOn, at one of the places it is a step of.
LEMMA GoOnMoves ==
  ASSUME CommandInv, GoOn, command.name # "none", command.at # "return"
  PROVE  To(command.name, command.at, After(command.name, command.at)) /\ Keeps
BY GoOnTo DEF CommandInv, To, Keeps

\* Where the steps that only use-virtual has lead.
LEMMA UseVirtualMoves ==
  ASSUME CommandInv
  PROVE  /\ BindDefault => /\ To("use_virtual", "bind-default", "save")
                           /\ \/ command'.device = default
                              \/ command'.device = command.device /\ "uid" \in lost'
         /\ Save => To("use_virtual", "save", "set-default") /\ Keeps
         /\ SetDefault \/ CheckDefault =>
              \/ /\ To("use_virtual", command.at, "set-default") /\ Keeps
                 /\ pending' = pending
              \/ Stops("use_virtual", command.at, "failed") /\ pending' = pending
              \/ SetDefault /\ To("use_virtual", "set-default", "check") /\ Keeps
              \/ CheckDefault /\ To("use_virtual", "check", "verify") /\ Keeps /\ default = Virtual
                   /\ pending' = pending
         /\ VerifyDefault => \/ To("use_virtual", "verify", "kill") /\ Keeps
                             \/ Stops("use_virtual", "verify", "failed")
         /\ Spawn => To("use_virtual", "spawn", "play") /\ Keeps
         /\ Play => \/ To("use_virtual", "play", "kill-router") /\ Keeps
                    \/ /\ To("use_virtual", "play", "return") /\ Keeps
                       /\ command.device = NoDevice
<1>0. ASSUME command.at \in {"bind-default", "save", "set-default", "check", "verify", "spawn", "play"}
      PROVE  command.name = "use_virtual" /\ last = "none"
  BY <1>0 DEF CommandInv, UP, ST, Names
<1>1. ASSUME GoOn, command.at \in {"bind-default", "save", "set-default", "check", "verify", "spawn",
                                  "play"}
      PROVE  To("use_virtual", command.at, After("use_virtual", command.at)) /\ Keeps
  <2>1. command.name = "use_virtual" /\ last = "none" /\ command.at # "return"
    BY <1>0, <1>1
  <2> QED BY <1>1, <2>1, GoOnMoves
<1>2. ASSUME TryAgain, command.at \in {"set-default", "check"}
      PROVE  \/ To("use_virtual", command.at, "set-default") /\ Keeps
             \/ Stops("use_virtual", command.at, "failed")
  <2>1. CASE command' = [command EXCEPT !.at = "set-default", !.tries = @ + 1] /\ UNCHANGED last
    BY <1>0, <1>2, <2>1 DEF CommandInv, To, Keeps
  <2>2. CASE Ends("failed")
    BY <1>0, <1>2, <2>2 DEF Ends, Stops
  <2> QED BY <1>2, <2>1, <2>2 DEF TryAgain
<1>3. ASSUME BindDefault
      PROVE  /\ To("use_virtual", "bind-default", "save")
             /\ \/ command'.device = default
                \/ command'.device = command.device /\ "uid" \in lost'
  <2>1. command.at = "bind-default" /\ command.name = "use_virtual" /\ last = "none"
    BY <1>0, <1>3 DEF BindDefault, Does
  <2>2. CASE GoesOn([command EXCEPT !.device = default])
    <3>1. command' = [[command EXCEPT !.device = default] EXCEPT !.at = "save"] /\ last' = last
      BY <2>1, <2>2, GoesOnTo DEF After
    <3> QED BY <2>1, <3>1 DEF CommandInv, To
  <2>3. CASE GoOn /\ lost' = lost \union {"uid"}
    BY <1>1, <2>1, <2>3 DEF After, Keeps
  <2> QED BY <1>3, <2>2, <2>3 DEF BindDefault
<1>4. Save => To("use_virtual", "save", "set-default") /\ Keeps
  BY <1>1 DEF Save, Does, After
<1>5. ASSUME SetDefault
      PROVE  \/ To("use_virtual", command.at, "set-default") /\ Keeps /\ pending' = pending
             \/ Stops("use_virtual", command.at, "failed") /\ pending' = pending
             \/ To("use_virtual", "set-default", "check") /\ Keeps
  BY <1>1, <1>2, <1>5 DEF SetDefault, Does, After
<1>6. ASSUME CheckDefault
      PROVE  /\ pending' = pending
             /\ \/ To("use_virtual", command.at, "set-default") /\ Keeps
                \/ Stops("use_virtual", command.at, "failed")
                \/ To("use_virtual", "check", "verify") /\ Keeps /\ default = Virtual
  BY <1>1, <1>2, <1>6 DEF CheckDefault, Does, After, audio
<1>7. VerifyDefault => \/ To("use_virtual", "verify", "kill") /\ Keeps
                       \/ Stops("use_virtual", "verify", "failed")
  BY <1>0, <1>1 DEF VerifyDefault, Does, After, Ends, Stops
<1>8. Spawn => To("use_virtual", "spawn", "play") /\ Keeps
  BY <1>1 DEF Spawn, Does, After
<1>9. ASSUME Play
      PROVE  \/ To("use_virtual", "play", "kill-router") /\ Keeps
             \/ To("use_virtual", "play", "return") /\ Keeps /\ command.device = NoDevice
  <2>1. CASE GoOn
    BY <1>1, <1>9, <2>1 DEF Play, Does, After
  <2>2. CASE command.device = NoDevice /\ command' = [command EXCEPT !.at = "return"] /\ UNCHANGED last
    BY <1>0, <1>9, <2>2 DEF Play, Does, CommandInv, To, Keeps
  <2> QED BY <1>9, <2>1, <2>2 DEF Play
<1> QED BY <1>3, <1>4, <1>5, <1>6, <1>7, <1>8, <1>9

\* Where the steps of the other commands, and those they share, lead.
LEMMA OtherMoves ==
  ASSUME CommandInv
  PROVE  /\ SaveBinding => To("set", "bind", "kill-router") /\ Keeps
         /\ Unbind => To("use_physical", "unbind", "kill") /\ Keeps
         /\ Kill => \/ To("use_virtual", "kill", "unlink") /\ Keeps
                    \/ To("use_physical", "kill", "unlink") /\ Keeps
         /\ Unlink => \/ To("use_virtual", "unlink", "spawn") /\ Keeps
                      \/ To("use_physical", "unlink", "restore") /\ Keeps
         /\ KillRouter => \/ To("use_virtual", "kill-router", "route") /\ Keeps
                          \/ To("use_physical", "kill-router", "unbind") /\ Keeps
                          \/ To("set", "kill-router", "route") /\ Keeps
         /\ Route => /\ command'.device = command.device
                     /\ \/ To("use_virtual", "route", "return") /\ command'.how = command.how
                        \/ To("set", "route", "return") /\ command'.how \in {command.how, "failed"}
                     /\ command'.how = command.how \/ "router" \in lost'
         /\ Return => /\ Stops(command.name, "return", command.how)
                      /\ command.name \in Names
<1>0. ASSUME command.at \in {"bind", "unbind", "kill", "unlink", "kill-router", "route", "return"}
      PROVE  /\ command.name \in Names /\ last = "none"
             /\ command.at = "bind" => command.name = "set"
             /\ command.at = "unbind" => command.name = "use_physical"
             /\ command.at \in {"kill", "unlink"} => command.name # "set"
             /\ command.at = "route" => command.name # "use_physical"
  BY <1>0 DEF CommandInv, UV, UP, ST, Names
<1>1. ASSUME GoOn, command.at \in {"bind", "unbind", "kill", "unlink", "kill-router", "route"}
      PROVE  To(command.name, command.at, After(command.name, command.at)) /\ Keeps
  <2>1. command.name # "none" /\ command.at # "return"
    BY <1>0, <1>1 DEF Names
  <2> QED BY <1>1, <2>1, GoOnMoves
<1>2. SaveBinding => To("set", "bind", "kill-router") /\ Keeps
  BY <1>0, <1>1 DEF SaveBinding, Does, After
<1>3. Unbind => To("use_physical", "unbind", "kill") /\ Keeps
  BY <1>0, <1>1 DEF Unbind, Does, After
<1>4. Kill => \/ To("use_virtual", "kill", "unlink") /\ Keeps
              \/ To("use_physical", "kill", "unlink") /\ Keeps
  BY <1>0, <1>1 DEF Kill, Does, After, Names
<1>5. Unlink => \/ To("use_virtual", "unlink", "spawn") /\ Keeps
                \/ To("use_physical", "unlink", "restore") /\ Keeps
  BY <1>0, <1>1 DEF Unlink, Does, After, Names
<1>6. KillRouter => \/ To("use_virtual", "kill-router", "route") /\ Keeps
                    \/ To("use_physical", "kill-router", "unbind") /\ Keeps
                    \/ To("set", "kill-router", "route") /\ Keeps
  BY <1>0, <1>1 DEF KillRouter, Does, After, Names
<1>7. ASSUME Route
      PROVE  /\ command'.device = command.device
             /\ \/ To("use_virtual", "route", "return") /\ command'.how = command.how
                \/ To("set", "route", "return") /\ command'.how \in {command.how, "failed"}
             /\ command'.how = command.how \/ "router" \in lost'
  <2>1. command.at = "route" /\ command.name \in {"use_virtual", "set"} /\ last = "none"
    BY <1>0, <1>7 DEF Route, Does, Names
  <2>2. CASE GoOn
    BY <1>1, <2>1, <2>2 DEF After, Keeps
  <2>3. CASE /\ GoesOn([command EXCEPT !.how = IF command.name = "set" THEN "failed" ELSE @])
             /\ lost' = lost \union {"router"}
    <3> DEFINE how == IF command.name = "set" THEN "failed" ELSE command.how
    <3>1. command' = [[command EXCEPT !.how = how] EXCEPT !.at = "return"] /\ last' = last
      BY <2>1, <2>3, GoesOnTo DEF After
    <3>2. how = command.how \/ (command.name = "set" /\ how = "failed")
      BY <2>1
    <3>3. "router" \in lost'
      BY <2>3
    <3> HIDE DEF how
    <3> QED BY <2>1, <3>1, <3>2, <3>3 DEF CommandInv, To
  <2> QED BY <1>7, <2>2, <2>3 DEF Route
<1>8. Return => Stops(command.name, "return", command.how) /\ command.name \in Names
  BY <1>0 DEF Return, Does, Ends, Stops
<1> QED BY <1>2, <1>3, <1>4, <1>5, <1>6, <1>7, <1>8

\* use-physical restores in one of four ways.
LEMMA RestoreMoves ==
  ASSUME CommandInv, Restore
  PROVE  /\ To("use_physical", "restore", "return")
         /\ \/ command'.how = "use_physical" /\ default # Virtual /\ ~input /\ pending' = pending
            \/ command'.how = "restored" /\ saved \in plugged /\ pending' = saved
            \/ command'.how = "fell-back" /\ pending' \in plugged
            \/ command'.how = "failed" /\ pending' = pending
<1>1. command.at = "restore" /\ command.name = "use_physical" /\ last = "none"
  BY DEF Restore, Does, CommandInv, UV, ST, Names
<1>2. ASSUME NEW d, NEW how, Restored(d, how)
      PROVE  To("use_physical", "restore", "return") /\ command'.how = how /\ pending' = d
  <2>1. command' = [[command EXCEPT !.how = how] EXCEPT !.at = "return"] /\ last' = last
    BY <1>1, <1>2, GoesOnTo DEF After, Restored
  <2> QED BY <1>1, <1>2, <2>1 DEF CommandInv, To, Restored
<1>3. FirstPhysical \subseteq plugged
  BY DEF FirstPhysical
<1>4. command.how = "use_physical"
  BY <1>1 DEF CommandInv, In, UP
<1>5. ASSUME GoOn
      PROVE  To("use_physical", "restore", "return") /\ command'.how = "use_physical"
  BY <1>1, <1>4, <1>5, GoOnMoves DEF After, Keeps
<1> QED BY <1>2, <1>3, <1>5 DEF Restore

-----------------------------------------------------------------------------
(* The service                                                              *)

\* What leaves the services alone disturbs nothing that is said of them.
LEMMA ServStays ==
  ASSUME ServInv, UNCHANGED service, Begun' => Begun,
         command'.at = "unlink" => command.at = "unlink",
         Down' => Down, Up' /\ "service" \notin lost' => Up /\ "service" \notin lost
  PROVE  ServInv'
BY DEF ServInv, service, Quiet, Serves, Busy

\* A service that moves: none begins to start or to run but one that started.
LEMMA ServMoves ==
  ASSUME ServiceType, ServInv, ServiceMoves, CommandInv
  PROVE  ServInv'
<1>0. /\ Servers \subseteq Int /\ NoFile \notin Servers
      /\ server \in [Servers -> {"running"} \union Starting \union Ending \union Over]
  BY IPCServiceAssumption DEF Servers, NoFile, ServiceType
<1>1. PICK s \in Servers : ServiceStep(s) \/ InitFails(s) \/ Crash(s)
  BY DEF ServiceMoves
<1>2. UNCHANGED <<command, last, lost, spawned>>
  BY <1>1 DEF ServiceMoves, hist, ServiceStep, InitFails, Crash, InstallHandlers, UnlinkOld, Bind, Ready,
     RemoveSocket, Step
<1>3. server' = [server EXCEPT ![s] = server'[s]] /\ server[s] \notin Over
  BY <1>0, <1>1 DEF ServiceStep, InitFails, Crash, InstallHandlers, UnlinkOld, Bind, Ready, RemoveSocket,
     Step, Over
<1>4. \A t \in Servers : t # s => server'[t] = server[t]
  BY <1>0, <1>3
<1>5. server[s] \notin Starting => server'[s] \notin Starting
  BY <1>0, <1>1 DEF ServiceStep, InitFails, Crash, InstallHandlers, UnlinkOld, Bind, Ready, RemoveSocket,
     Step, Starting
<1>6. server[s] \notin Starting \union {"running"} =>
        /\ server[s] = "stopping" /\ server'[s] = "exited" /\ Sweep(s)
  BY <1>0, <1>1 DEF ServiceStep, InitFails, Crash, InstallHandlers, UnlinkOld, Bind, Ready, RemoveSocket,
     Step, Starting
<1>7. Quiet => Quiet' /\ (path = NoFile => path' = NoFile)
  <2> SUFFICES ASSUME Quiet PROVE Quiet' /\ (path = NoFile => path' = NoFile)
    OBVIOUS
  <2>1. server[s] \notin Starting \union {"running"}
    BY DEF Quiet, Busy
  <2>2. server'[s] = "exited" /\ path' = NoFile
    BY <1>6, <2>1 DEF Sweep
  <2> QED BY <1>4, <2>2 DEF Quiet, Busy, Starting
<1>8. Begun' => ~Busy(Starting)'
  BY <1>2, <1>4, <1>5 DEF ServInv, Begun, In, Busy
<1>9. command'.at = "unlink" => Quiet'
  BY <1>2, <1>7 DEF ServInv
<1>10. Down' => Quiet' /\ path' = NoFile
  BY <1>2, <1>7 DEF ServInv, Down, In
<1>11. ASSUME Up', "service" \notin lost' PROVE Serves'
  <2>1. Serves
    BY <1>2, <1>11 DEF ServInv, Up, In
  <2>2. CASE s # spawned
    <3>1. server[s] \notin Starting \union {"running"}
      BY <2>1, <2>2 DEF Serves, Starting, Ending, Over
    <3>2. server'[s] = "exited" /\ server'[spawned] = server[spawned] /\ Sweep(s)
      BY <1>4, <1>6, <2>1, <2>2, <3>1 DEF Serves
    <3>3. \A t \in Servers : t # spawned' => server'[t] \in Ending \union Over
      BY <1>2, <1>4, <2>1, <3>2 DEF Serves, Over
    <3>4. path' = NoFile /\ (path = spawned => spawned \in swept') /\ swept \subseteq swept'
      BY <1>0, <2>1, <2>2, <3>2 DEF Sweep, Serves
    <3> QED BY <1>2, <2>1, <3>2, <3>3, <3>4 DEF Serves
  <2>3. CASE s = spawned
    <3>1. \A t \in Servers : t # spawned' => server'[t] \in Ending \union Over
      BY <1>2, <1>4, <2>1, <2>3 DEF Serves
    <3>2. server[s] \in Starting \union {"running"}
      BY <1>3, <2>1, <2>3 DEF Serves, Over
    <3>3. CASE InstallHandlers(s)
      BY <1>0, <1>2, <2>1, <2>3, <3>1, <3>3 DEF InstallHandlers, Step, Serves, Starting
    <3>4. CASE UnlinkOld(s)
      BY <1>0, <1>2, <2>1, <2>3, <3>1, <3>4 DEF UnlinkOld, Step, Serves, Starting
    <3>5. CASE Bind(s)
      <4>1. path = NoFile
        BY <2>1, <2>3, <3>5 DEF Bind, Step, Serves
      <4> QED BY <1>0, <1>2, <2>1, <2>3, <3>1, <3>5, <4>1 DEF Bind, Step, Serves, Starting
    <3>6. CASE Ready(s) \/ Crash(s)
      BY <1>0, <1>2, <2>1, <2>3, <3>1, <3>6 DEF Ready, Crash, Step, Serves, Starting
    <3>7. CASE InitFails(s)
      BY <1>0, <1>2, <2>1, <2>3, <3>1, <3>7 DEF InitFails, Step, Serves, Starting
    <3>8. ~RemoveSocket(s)
      BY <3>2 DEF RemoveSocket, Step, Starting
    <3> QED BY <1>1, <3>3, <3>4, <3>5, <3>6, <3>7, <3>8 DEF ServiceStep
  <2> QED BY <2>2, <2>3
<1> QED BY <1>8, <1>9, <1>10, <1>11 DEF ServInv

\* A signal reaches a service that runs, or none: none is starting.
LEMMA KillServ ==
  ASSUME ServiceType, ServInv, Kill, CommandInv
  PROVE  ServInv'
<1>1. /\ server' = [s \in Servers |-> Signalled(server[s])]
      /\ server \in [Servers -> {"running"} \union Starting \union Ending \union Over]
  BY DEF Kill, KillService, ServiceType
<1>2. ~Busy(Starting)
  BY OtherMoves DEF To, ServInv, Begun, In
<1>3. \A s \in Servers : server'[s] \in Ending \union Over
  <2>1. \A s \in Servers : server[s] \in {"running"} \union Ending \union Over
    BY <1>1, <1>2 DEF Busy
  <2> QED BY <1>1, <2>1 DEF Signalled, Ending, Over
<1>5. command'.at = "unlink" /\ last' = "none"
  BY OtherMoves DEF To
<1>6. ~Begun' /\ ~Down' /\ ~Up'
  BY <1>5 DEF Begun, Down, Up, In, Ended
<1>7. Quiet'
  BY <1>3 DEF Quiet, Busy, Starting, Ending, Over
<1> QED BY <1>5, <1>6, <1>7 DEF ServInv

\* What was told to end may still be ending; nothing else is left.
LEMMA UnlinkServ ==
  ASSUME ServiceType, ServInv, Unlink, CommandInv
  PROVE  ServInv'
<1>1. UNCHANGED <<server, spawned>> /\ path' = NoFile
  BY DEF Unlink, UnlinkSocket
<1>2. command.at = "unlink" /\ command'.at \in {"spawn", "restore"} /\ last' = "none"
  BY OtherMoves DEF To
<1>3. Quiet'
  BY <1>1, <1>2 DEF ServInv, Quiet, Busy
<1>4. ~Begun' /\ ~Up'
  BY <1>2 DEF Begun, Up, In
<1> QED BY <1>1, <1>2, <1>3, <1>4 DEF ServInv

\* The one spawned is the only one that starts.
LEMMA SpawnServ ==
  ASSUME ServiceType, ServInv, Spawn, CommandInv
  PROVE  ServInv'
<1>1. command.at = "spawn" /\ command'.at = "play" /\ last' = "none"
  BY UseVirtualMoves DEF To
<1>2. Quiet /\ path = NoFile
  BY <1>1 DEF ServInv, Down
<1>3. ~Begun' /\ command'.at # "unlink" /\ ~Down'
  BY <1>1 DEF Begun, Down, In, Ended
<1>4. CASE UNCHANGED service /\ "service" \in lost'
  BY <1>3, <1>4, ServStays
<1>5. CASE SpawnService
  <2>1. /\ spawned' = spawned + 1 /\ spawned < MaxSpawns /\ spawned \in 0..MaxSpawns
        /\ server' = [server EXCEPT ![spawned + 1] = "spawned"] /\ path' = NoFile
        /\ server \in [Servers -> {"running"} \union Starting \union Ending \union Over]
    BY <1>2, <1>5 DEF SpawnService, ServiceType
  <2>2. spawned' \in Servers
    BY <2>1, IPCServiceAssumption DEF Servers
  <2>3. \A s \in Servers : server[s] \in Ending \union Over
    BY <1>2, <2>1 DEF Quiet, Busy
  <2>4. /\ \A s \in Servers : s # spawned' => server'[s] \in Ending \union Over
        /\ server'[spawned'] = "spawned"
    BY <2>1, <2>2, <2>3
  <2>5. Serves'
    BY <2>1, <2>2, <2>4 DEF Serves, Starting
  <2> QED BY <1>3, <2>5 DEF ServInv
<1> QED BY <1>4, <1>5 DEF Spawn

\* What a command begins with.
LEMMA BeginsAt ==
  ASSUME NEW name \in Names, NEW d, Begin(name, d)
  PROVE  /\ command = Idle /\ command'.name = name /\ last' = "none" /\ lost' = {}
         /\ command'.at = CASE name = "use_virtual" -> "bind-default"
                            [] name = "use_physical" -> "kill-router" [] OTHER -> "bind"
         /\ command'.device = d /\ command'.how = name /\ meddled' = meddled \ {name}
         /\ UNCHANGED <<service, routers, inProcess, plugged, default, pending, input, writable, saved,
                       binding>>
<1>1. /\ UseVirtualSteps[1] = "bind-default" /\ UsePhysicalSteps[1] = "kill-router"
      /\ SetSteps[1] = "bind"
  BY DEF UseVirtualSteps, UsePhysicalSteps, SetSteps
<1>2. Steps[name][1] = CASE name = "use_virtual" -> "bind-default"
                          [] name = "use_physical" -> "kill-router" [] OTHER -> "bind"
  BY <1>1 DEF Steps, Names
<1> QED BY <1>2 DEF Begin, procs, audio, files

\* No step of anybody leaves a second service, or the wrong one.
LEMMA ServStep ==
  ASSUME PromptStart
  PROVE  WellFormed /\ ServInv /\ [Next]_vars => ServInv'
<1> SUFFICES ASSUME WellFormed, ServInv, [Next]_vars PROVE ServInv'
  OBVIOUS
<1>0. CommandInv /\ ServiceType
  BY DEF WellFormed
<1>1. ASSUME NEW name \in Names, NEW d, Begin(name, d) PROVE ServInv'
  <2>1. UNCHANGED service /\ command'.at \in {"bind-default", "kill-router", "bind"}
        /\ last' = "none" /\ (command'.at = "kill-router" => command'.name = "use_physical")
    BY <1>1, BeginsAt DEF Names
  <2>2. ~Busy(Starting)'
    BY <1>1, <2>1 DEF Begin, Busy, service
  <2>3. command'.at # "unlink" /\ ~Down' /\ ~Up'
    BY <2>1 DEF Down, Up, In, Ended
  <2> QED BY <2>2, <2>3 DEF ServInv
<1>2. CASE UseVirtual \/ UsePhysical \/ \E d \in Physical : Rebind(d)
  BY <1>1, <1>2 DEF UseVirtual, UsePhysical, Rebind, Names
<1>3. ASSUME UNCHANGED <<service, lost>>,
             \/ To("use_virtual", "save", "set-default") \/ To("use_virtual", "set-default", "check")
             \/ To("use_virtual", "check", "verify") \/ To("use_virtual", "verify", "kill")
             \/ To("use_virtual", "set-default", "set-default")
             \/ To("use_virtual", "check", "set-default")
             \/ To("use_virtual", "play", "kill-router") \/ To("use_virtual", "play", "return")
             \/ To("use_virtual", "kill-router", "route")
             \/ To("use_physical", "kill-router", "unbind") \/ To("use_physical", "unbind", "kill")
             \/ To("set", "bind", "kill-router") \/ To("set", "kill-router", "route")
             \/ To("use_physical", "restore", "return")
      PROVE  ServInv'
  <2>1. /\ Begun' => Begun
        /\ command'.at # "unlink"
        /\ Down' => Down
        /\ Up' => Up
    BY <1>3 DEF To, Begun, Down, Up, In, Ended
  <2> QED BY <1>0, <1>3, <2>1, ServStays
<1>4. CASE BindDefault
  <2>1. UNCHANGED service /\ To("use_virtual", "bind-default", "save")
    BY <1>0, <1>4, UseVirtualMoves DEF BindDefault, procs
  <2>2. (Begun' => Begun) /\ command'.at # "unlink" /\ ~Down' /\ ~Up'
    BY <2>1 DEF To, Begun, Down, Up, In, Ended
  <2> QED BY <2>1, <2>2, ServStays
<1>5. ASSUME NEW at, Stops("use_virtual", at, "failed"), UNCHANGED service PROVE ServInv'
  <2>1. command'.at = "idle" /\ command'.name = "none" /\ last' = "failed"
    BY <1>5 DEF Stops, Idle
  <2>2. ~Begun' /\ command'.at # "unlink" /\ ~Down' /\ ~Up'
    BY <2>1 DEF Begun, Down, Up, In, Ended
  <2> QED BY <1>5, <2>2, ServStays
<1>6. CASE Save \/ SetDefault \/ CheckDefault \/ VerifyDefault
  <2>1. UNCHANGED <<service, lost>>
    BY <1>6 DEF Save, SetDefault, CheckDefault, VerifyDefault, procs, hist
  <2>2. \/ To("use_virtual", "save", "set-default") \/ To("use_virtual", "set-default", "check")
        \/ To("use_virtual", "check", "verify") \/ To("use_virtual", "verify", "kill")
        \/ To("use_virtual", "set-default", "set-default")
        \/ To("use_virtual", "check", "set-default")
        \/ \E at \in Places : Stops("use_virtual", at, "failed")
    BY <1>0, <1>6, UseVirtualMoves DEF SetDefault, CheckDefault, Does, Places, UV
  <2> QED BY <1>3, <1>5, <2>1, <2>2
<1>7. CASE Play
  <2>1. UNCHANGED <<service, lost>>
    BY <1>7 DEF Play, hist
  <2> QED BY <1>0, <1>3, <1>7, <2>1, UseVirtualMoves
<1>8. CASE SaveBinding \/ Unbind \/ KillRouter
  <2>1. UNCHANGED <<service, lost>>
    BY <1>8 DEF SaveBinding, Unbind, KillRouter, procs, hist
  <2> QED BY <1>0, <1>3, <1>8, <2>1, OtherMoves
<1>9. CASE Restore
  <2>1. UNCHANGED <<service, lost>>
    BY <1>9 DEF Restore, procs, hist
  <2> QED BY <1>0, <1>3, <1>9, <2>1, RestoreMoves
<1>10. CASE Route
  <2>1. /\ UNCHANGED service /\ ("service" \in lost => "service" \in lost')
        /\ To("use_virtual", "route", "return") \/ To("set", "route", "return")
    BY <1>0, <1>10, OtherMoves DEF Route
  <2>2. ~Begun' /\ command'.at # "unlink" /\ ~Down' /\ (Up' => Up)
    BY <2>1 DEF To, Begun, Down, Up, In, Ended
  <2> QED BY <2>1, <2>2, ServStays
<1>11. CASE Return
  <2>1. UNCHANGED <<service, lost>> /\ Stops(command.name, "return", command.how) /\ command.name \in Names
    BY <1>0, <1>11, OtherMoves DEF Return, hist
  <2>2. /\ last' \in Ended => command.name = "use_physical"
        /\ last' = "use_virtual" => command.name = "use_virtual"
    BY <1>0, <2>1 DEF Stops, CommandInv, Names, Ended
  <2>3. ~Begun' /\ command'.at # "unlink" /\ (Down' => Down) /\ (Up' => Up)
    BY <2>1, <2>2 DEF Stops, Idle, Begun, Down, Up, In
  <2> QED BY <2>1, <2>3, ServStays
<1>12. CASE Others /\ ~ServiceMoves
  <2>1. /\ UNCHANGED <<service, command>> /\ (last' = last \/ last' = "picked")
        /\ "service" \in lost /\ "service" \notin lost' => last' = "picked" /\ command.name = "none"
    BY <1>12 DEF Others, TakeEffect, Pick, Chosen, Unplug, Plug, PickInput, Renumber, RouterRuns,
       RouterEnds, procs, hist, Idle
  <2>2. /\ Begun' => Begun
        /\ command'.at = "unlink" => command.at = "unlink"
        /\ Down' => Down
        /\ Up' /\ "service" \notin lost' => Up /\ "service" \notin lost
    BY <2>1 DEF Begun, Down, Up, In, Ended
  <2> QED BY <2>1, <2>2, ServStays
<1>13. CASE UNCHANGED vars
  <2>1. UNCHANGED <<service, command, last, lost>>
    BY <1>13 DEF vars, procs, hist
  <2> QED BY <2>1, ServStays DEF Begun, Down, Up, In
<1> QED
  BY <1>0, <1>2, <1>4, <1>6, <1>7, <1>8, <1>9, <1>10, <1>11, <1>12, <1>13, NextIs, ServMoves, KillServ,
     UnlinkServ, SpawnServ DEF Proceed

\* There is none at first.
LEMMA InitServ == Init => ServInv
<1> SUFFICES ASSUME Init PROVE ServInv
  OBVIOUS
<1>1. command = Idle /\ last = "none"
  BY DEF Init
<1>2. ~Begun /\ command.at # "unlink" /\ ~Down /\ ~Up
  BY <1>1 DEF Idle, Begun, Down, Up, In, Ended
<1> QED BY <1>2 DEF ServInv

\* The service is what the commands made it.
LEMMA AlwaysServ == ASSUME PromptStart PROVE Spec => []ServInv
<1>1. WellFormed /\ ServInv /\ [Next]_vars => ServInv'
  BY ServStep
<1> QED BY <1>1, InitServ, AlwaysWellFormed, PTL DEF Spec

\* While a service that was spawned is ready before the next command
\* (main.c:122), and however late one that was told to end does end: the
\* service use-virtual spawned is there when everything has settled, unless it
\* could not be spawned, could not begin or crashed, and the path leads to it
\* unless an older one has removed it at its own end (ipc_server.c:745).
THEOREM ServiceThere == PromptStart /\ Spec => []ServedAfterUseVirtual
<1>1. WellFormed /\ ServInv => ServedAfterUseVirtual
  <2> SUFFICES ASSUME WellFormed, ServInv, AtRest, last = "use_virtual", "service" \notin lost
               PROVE  \/ server[spawned] = "failed"
                      \/ /\ server[spawned] = "running"
                         /\ path = spawned \/ (path = NoFile /\ spawned \in swept)
    BY DEF ServedAfterUseVirtual
  <2>1. Serves
    BY DEF ServInv, Up
  <2>2. server[spawned] \notin Starting
    BY <2>1 DEF AtRest, Busy, Serves
  <2> QED BY <2>1, <2>2 DEF Serves
<1> SUFFICES ASSUME PromptStart PROVE Spec => []ServedAfterUseVirtual
  OBVIOUS
<1> QED BY <1>1, AlwaysServ, AlwaysWellFormed, PTL

-----------------------------------------------------------------------------
(* What use-physical takes down                                             *)

\* What was taken down stays down until the next command.
LEMMA StopStep == WellFormed /\ StopInv /\ [Next]_vars => StopInv'
<1> SUFFICES ASSUME WellFormed, StopInv, [Next]_vars PROVE StopInv'
  OBVIOUS
<1>0. CommandInv
  BY DEF WellFormed
<1> DEFINE Killed  == In("use_physical", UP \ {"kill-router"}) \/ last \in Ended
           Unbound == In("use_physical", UP \ {"kill-router", "unbind"}) \/ last \in Ended
<1>1. ASSUME (Killed' => Killed) \/ routers' = {}, (Unbound' => Unbound) \/ binding' = NoDevice,
             ~Killed' \/ routers' = routers \/ routers' = {},
             ~Unbound' \/ binding' = binding \/ binding' = NoDevice
      PROVE  StopInv'
  BY <1>1 DEF StopInv
<1>2. ASSUME last' \notin Ended, command'.name # "use_physical" PROVE ~Killed' /\ ~Unbound'
  BY <1>2 DEF In
<1>3. CASE UseVirtual \/ UsePhysical \/ \E d \in Physical : Rebind(d)
  <2>1. PICK name \in Names, d \in Devices \union {NoDevice} : Begin(name, d)
    BY <1>3 DEF UseVirtual, UsePhysical, Rebind, Names, Devices
  <2>2. last' = "none" /\ (command'.name = "use_physical" => command'.at = "kill-router")
    BY <2>1, BeginsAt DEF Names
  <2>3. ~Killed' /\ ~Unbound'
    BY <2>2 DEF In, Ended
  <2> QED BY <1>1, <2>3
<1>4. CASE BindDefault \/ Save \/ SetDefault \/ CheckDefault \/ VerifyDefault \/ Spawn \/ Play
           \/ SaveBinding \/ Route
  <2>1. last' \notin Ended /\ command'.name # "use_physical"
    BY <1>0, <1>4, UseVirtualMoves, OtherMoves DEF To, Stops, Idle, Ended
  <2> QED BY <1>1, <1>2, <2>1
<1>5. CASE Unbind
  <2>1. To("use_physical", "unbind", "kill") /\ binding' = NoDevice /\ routers' = routers
    BY <1>0, <1>5, OtherMoves DEF Unbind, procs
  <2>2. Killed
    BY <2>1 DEF To, In, UP
  <2> QED BY <1>1, <2>1, <2>2
<1>6. CASE Kill \/ Unlink \/ Restore
  <2>1. UNCHANGED <<routers, binding>>
    BY <1>6 DEF Kill, Unlink, Restore, procs, files
  <2>2. \/ To("use_virtual", "kill", "unlink") \/ To("use_physical", "kill", "unlink")
        \/ To("use_virtual", "unlink", "spawn") \/ To("use_physical", "unlink", "restore")
        \/ To("use_physical", "restore", "return")
    BY <1>0, <1>6, OtherMoves, RestoreMoves
  <2>3. (Killed' => Killed) /\ (Unbound' => Unbound)
    BY <2>2 DEF To, In, Ended, UP
  <2> HIDE DEF Killed, Unbound
  <2> QED BY <1>1, <2>1, <2>3
<1>7. CASE KillRouter
  <2>1. routers' = {} /\ binding' = binding
    BY <1>7 DEF KillRouter, files
  <2>2. \/ To("use_virtual", "kill-router", "route") \/ To("use_physical", "kill-router", "unbind")
        \/ To("set", "kill-router", "route")
    BY <1>0, <1>7, OtherMoves
  <2>3. ~Unbound'
    BY <2>2 DEF To, In, Ended
  <2> HIDE DEF Killed, Unbound
  <2> QED BY <1>1, <2>1, <2>3
<1>8. CASE Return
  <2>1. UNCHANGED <<routers, binding>> /\ Stops(command.name, "return", command.how)
        /\ command.name \in Names
    BY <1>0, <1>8, OtherMoves DEF Return, files
  <2>2. last' \in Ended => command.name = "use_physical"
    BY <1>0, <2>1 DEF Stops, CommandInv, Names, Ended
  <2>3. (Killed' => Killed) /\ (Unbound' => Unbound)
    BY <2>1, <2>2 DEF Stops, Idle, In, UP
  <2> HIDE DEF Killed, Unbound
  <2> QED BY <1>1, <2>1, <2>3
<1>9. CASE Others
  <2>1. UNCHANGED <<command, binding>> /\ (last' = last \/ last' = "picked")
    BY <1>9, OthersLeaveCommand
  <2>2. (Killed' => Killed) /\ (Unbound' => Unbound)
    BY <2>1 DEF In, Ended
  <2>3. routers' = routers \/ \E r \in routers : RouterRuns(r) \/ RouterEnds(r)
    BY <1>9 DEF Others, TakeEffect, Pick, Unplug, Plug, PickInput, Renumber, ServiceMoves, procs
  <2>4. CASE routers' = routers
    <3> HIDE DEF Killed, Unbound
    <3> QED BY <1>1, <2>1, <2>2, <2>4
  <2>5. CASE routers # {}
    <3>1. ~Killed
      BY <2>5 DEF StopInv
    <3> HIDE DEF Killed, Unbound
    <3> QED BY <1>1, <2>1, <2>2, <3>1
  <2> QED BY <2>3, <2>4, <2>5
<1>10. CASE UNCHANGED vars
  <2>1. UNCHANGED <<command, last, routers, binding>>
    BY <1>10 DEF vars, procs, files
  <2> QED BY <2>1 DEF StopInv, In
<1> HIDE DEF Killed, Unbound
<1> QED
  BY <1>3, <1>4, <1>5, <1>6, <1>7, <1>8, <1>9, <1>10, NextIs DEF Proceed

\* So it is at all times.
LEMMA AlwaysStop == Spec => []StopInv
<1>1. Init => StopInv
  BY DEF Init, StopInv, Idle, In, Ended
<1> QED BY <1>1, StopStep, AlwaysWellFormed, PTL DEF Spec

\* And after use-physical there is no service, socket, router or binding left
\* (README.md:59, 90), whatever the user did to the devices meanwhile.
THEOREM NothingLeft == PromptStart /\ Spec => []StoppedAfterUsePhysical
<1>1. ServInv /\ StopInv => StoppedAfterUsePhysical
  <2> SUFFICES ASSUME ServInv, StopInv, last \in Ended
               PROVE  ~Busy({"running"}) /\ path = NoFile /\ routers = {} /\ binding = NoDevice
    BY DEF StoppedAfterUsePhysical, Ended
  <2>1. Quiet /\ path = NoFile
    BY DEF ServInv, Down
  <2>2. ~Busy({"running"})
    BY <2>1 DEF Quiet, Busy
  <2> QED BY <2>1, <2>2 DEF StopInv
<1> SUFFICES ASSUME PromptStart PROVE Spec => []StoppedAfterUsePhysical
  OBVIOUS
<1> QED BY <1>1, AlwaysServ, AlwaysStop, PTL

-----------------------------------------------------------------------------
(* The devices                                                              *)

devices == <<default, pending, saved, writable, before, wanted, meddled>>

\* use-virtual goes on: in front of the save, between it and the check, or
\* after the check.
LEMMA AudioGoesOn ==
  ASSUME CommandInv, AudioInv, UNCHANGED devices, pending = NoDevice,
         NEW at \in UV, NEW next \in UV, To("use_virtual", at, next), command'.how = command.how,
         next \in {"bind-default", "save"} <=> at \in {"bind-default", "save"},
         next \notin {"bind-default", "save", "set-default", "check"} =>
           \/ at \notin {"bind-default", "save", "set-default", "check"}
           \/ default = Virtual
  PROVE  AudioInv'
<1>1. command.how = "use_virtual" /\ command'.how = "use_virtual" /\ last' = "none"
      /\ command.name = "use_virtual" /\ command'.name = "use_virtual" /\ command.at = at
      /\ command'.at = next
  BY DEF CommandInv, To
<1>2. pending' = NoDevice /\ UNCHANGED <<default, saved, writable, before, wanted, meddled>>
  BY DEF devices
<1>3. wanted' = before'
  BY <1>1, <1>2 DEF AudioInv, In
<1>4. command'.name = "use_virtual" /\ "use_virtual" \notin meddled' =>
        /\ command'.at = "bind-default" => default' = before'
        /\ command'.at = "save" => default' = before'
        /\ command'.at \in UV \ {"bind-default", "save", "set-default", "check"} => default' = Virtual
  BY <1>1, <1>2 DEF AudioInv
<1>5. /\ ~writable' => saved' = NoDevice
      /\ saved' # NoDevice /\ "use_virtual" \notin meddled' /\ ~In("use_virtual", {"bind-default", "save"})' =>
           saved' = before'
  BY <1>1, <1>2 DEF AudioInv, In
<1> QED BY <1>1, <1>2, <1>3, <1>4, <1>5 DEF AudioInv, In

\* The steps of the other commands, which leave CoreAudio alone.
LEMMA AudioOther ==
  ASSUME CommandInv, AudioInv, UNCHANGED devices, pending = NoDevice,
         NEW name \in {"use_physical", "set"}, NEW at, NEW next \in UP \union ST,
         To(name, at, next), command'.how \in {command.how, "failed"},
         command.how \in {"set", "use_physical", "failed"},
         name = "use_physical" => next # "return"
  PROVE  AudioInv'
<1>1. command'.how \in {"set", "use_physical", "failed"} /\ last' = "none"
      /\ command.name = name /\ command'.name = name /\ command'.at = next
  BY DEF CommandInv, To
<1>2. pending' = NoDevice /\ UNCHANGED <<default, saved, writable, before, wanted, meddled>>
  BY DEF devices
<1>3. /\ ~writable' => saved' = NoDevice
      /\ saved' # NoDevice /\ "use_virtual" \notin meddled' => saved' = before'
  BY <1>1, <1>2 DEF AudioInv, In
<1> QED BY <1>1, <1>2, <1>3 DEF AudioInv, In

\* No step of anybody loses the device to go back to.
LEMMA AudioStep ==
  ASSUME PromptSwitch
  PROVE  WellFormed /\ AudioInv /\ [Next]_vars => AudioInv'
<1> SUFFICES ASSUME WellFormed, AudioInv, [Next]_vars PROVE AudioInv'
  OBVIOUS
<1>0. CommandInv /\ TypeInv
  BY DEF WellFormed
<1>a. command # Idle /\ ~In("use_virtual", {"check"}) /\ ~In("use_physical", {"return"}) =>
        pending = NoDevice
  BY DEF AudioInv
<1>b. Virtual \notin Physical /\ NoDevice \notin Physical /\ NoDevice # Virtual
  BY SessionAssumption DEF Devices
<1>1. ASSUME NEW name \in Names, NEW d, Begin(name, d), before' = IF name = "use_virtual" THEN default ELSE before,
             name = "use_virtual" => wanted' = default
      PROVE  AudioInv'
  <2>1. /\ command'.name = name /\ last' = "none" /\ command'.how = name
        /\ command'.at \in {"bind-default", "kill-router", "bind"} /\ command = Idle
        /\ UNCHANGED <<default, pending, saved, writable>> /\ meddled' = meddled \ {name}
        /\ pending = NoDevice
        /\ name = "use_virtual" => command'.at = "bind-default"
    BY <1>1, BeginsAt DEF Begin
  <2>2. /\ ~writable => saved = NoDevice
        /\ saved # NoDevice /\ "use_virtual" \notin meddled => saved = before
    BY <2>1 DEF AudioInv, In, Idle
  <2>3. CASE name = "use_virtual"
    BY <1>1, <2>1, <2>2, <2>3 DEF AudioInv, In
  <2>4. CASE name # "use_virtual"
    BY <1>1, <2>1, <2>2, <2>4 DEF AudioInv, In, Names
  <2> QED BY <2>3, <2>4
<1>2. CASE UseVirtual \/ UsePhysical \/ \E d \in Physical : Rebind(d)
  BY <1>1, <1>2 DEF UseVirtual, UsePhysical, Rebind, Names
<1>3. CASE BindDefault
  <2>1. UNCHANGED devices /\ To("use_virtual", "bind-default", "save") /\ pending = NoDevice
    BY <1>0, <1>3, <1>a, UseVirtualMoves DEF BindDefault, audio, devices, To, In, Idle
  <2>2. command'.how = command.how
    <3>1. CommandInv'
      BY <1>0, CommandStep
    <3> QED BY <1>0, <2>1, <3>1 DEF To, CommandInv
  <2> QED BY <1>0, <2>1, <2>2, AudioGoesOn DEF UV
<1>4. CASE Save
  <2>1. /\ To("use_virtual", "save", "set-default") /\ Keeps /\ pending = NoDevice
        /\ saved' = IF writable THEN default ELSE saved
        /\ UNCHANGED <<default, pending, writable, before, wanted, meddled>>
    BY <1>0, <1>4, <1>a, UseVirtualMoves DEF Save, audio, hist, Saved, To, In, Idle
  <2>2. /\ command.how = "use_virtual" /\ command'.how = "use_virtual" /\ last' = "none"
        /\ command'.name = "use_virtual" /\ command'.at = "set-default"
    BY <1>0, <2>1 DEF To, Keeps, CommandInv
  <2>3. /\ wanted = before /\ (~writable => saved = NoDevice)
        /\ "use_virtual" \notin meddled => default = before
    BY <2>1 DEF To, AudioInv, In, UV
  <2> QED BY <2>1, <2>2, <2>3 DEF AudioInv, In, UV
<1>5. CASE SetDefault
  <2>1. command.at = "set-default" /\ command.name = "use_virtual" /\ pending = NoDevice
        /\ pending' \in {NoDevice, Virtual}
        /\ UNCHANGED <<default, saved, writable, before, wanted, meddled>>
    BY <1>0, <1>5, <1>a, UseVirtualMoves DEF SetDefault, files, hist, Does, To, Stops, In, Idle
  <2>2. CASE To("use_virtual", "set-default", "check") /\ Keeps
    <3>1. /\ command.how = "use_virtual" /\ command'.how = "use_virtual" /\ last' = "none"
          /\ command'.name = "use_virtual" /\ command'.at = "check"
      BY <1>0, <2>2 DEF To, Keeps, CommandInv
    <3>2. /\ wanted = before /\ (~writable => saved = NoDevice)
          /\ saved # NoDevice /\ "use_virtual" \notin meddled => saved = before
      BY <2>1 DEF AudioInv, In, UV
    <3> QED BY <2>1, <3>1, <3>2 DEF AudioInv, In, UV
  <2>3. CASE To("use_virtual", "set-default", "set-default") /\ Keeps /\ pending' = pending
    BY <1>0, <2>1, <2>3, AudioGoesOn DEF devices, UV, Keeps
  <2>4. CASE Stops("use_virtual", "set-default", "failed") /\ pending' = pending
    <3>1. /\ ~writable => saved = NoDevice
          /\ saved # NoDevice /\ "use_virtual" \notin meddled => saved = before
      BY <2>1 DEF AudioInv, In
    <3> QED BY <2>1, <2>4, <3>1 DEF Stops, AudioInv, In, Idle
  <2> QED BY <1>0, <1>5, <2>1, <2>2, <2>3, <2>4, UseVirtualMoves DEF SetDefault, CheckDefault, To, Stops
<1>6. CASE CheckDefault
  <2>1. command.at = "check" /\ command.name = "use_virtual" /\ pending = NoDevice
        /\ UNCHANGED devices
    BY <1>0, <1>6, UseVirtualMoves DEF CheckDefault, audio, files, hist, devices, Does, To, Stops
  <2>2. CASE To("use_virtual", "check", "verify") /\ Keeps /\ default = Virtual
    BY <1>0, <2>1, <2>2, AudioGoesOn DEF UV, Keeps
  <2>3. CASE To("use_virtual", "check", "set-default") /\ Keeps
    BY <1>0, <2>1, <2>3, AudioGoesOn DEF UV, Keeps
  <2>4. CASE Stops("use_virtual", "check", "failed")
    <3>1. /\ ~writable => saved = NoDevice
          /\ saved # NoDevice /\ "use_virtual" \notin meddled => saved = before
      BY <2>1 DEF AudioInv, In
    <3> QED BY <2>1, <2>4, <3>1 DEF Stops, AudioInv, In, Idle, devices
  <2> QED BY <1>0, <1>6, <2>1, <2>2, <2>3, <2>4, UseVirtualMoves DEF SetDefault, Does, To, Stops
<1>7. CASE VerifyDefault
  <2>1. UNCHANGED devices /\ command.at = "verify" /\ command.name = "use_virtual" /\ pending = NoDevice
    BY <1>0, <1>7, <1>a, UseVirtualMoves DEF VerifyDefault, audio, files, hist, devices, To, Stops, In, Idle
  <2>2. CASE To("use_virtual", "verify", "kill") /\ Keeps
    BY <1>0, <2>1, <2>2, AudioGoesOn DEF UV, Keeps
  <2>3. CASE Stops("use_virtual", "verify", "failed")
    <3>1. /\ ~writable => saved = NoDevice
          /\ saved # NoDevice /\ "use_virtual" \notin meddled => saved = before
      BY <2>1 DEF AudioInv, In
    <3> QED BY <2>1, <2>3, <3>1 DEF Stops, AudioInv, In, Idle, devices
  <2> QED BY <1>0, <1>7, <2>2, <2>3, UseVirtualMoves
<1>8. CASE Kill \/ Unlink \/ Spawn \/ Play \/ KillRouter \/ Route \/ SaveBinding \/ Unbind
  <2>1. UNCHANGED devices
    BY <1>8 DEF Kill, Unlink, Spawn, Play, KillRouter, Route, SaveBinding, Unbind, audio, files, hist, devices
  <2>2. \/ \E at \in UV \ {"bind-default", "save", "set-default", "check"},
            next \in UV \ {"bind-default", "save", "set-default", "check"} :
             To("use_virtual", at, next) /\ command'.how = command.how
        \/ \E name \in {"use_physical", "set"}, at \in (UP \union ST) \ {"return"}, next \in UP \union ST :
             /\ To(name, at, next) /\ command'.how \in {command.how, "failed"}
             /\ name = "use_physical" => next # "return"
    BY <1>0, <1>8, UseVirtualMoves, OtherMoves DEF Keeps, UV, UP, ST
  <2>3. ASSUME NEW at \in UV \ {"bind-default", "save", "set-default", "check"},
               NEW next \in UV \ {"bind-default", "save", "set-default", "check"},
               To("use_virtual", at, next), command'.how = command.how
        PROVE  AudioInv'
    <3>1. pending = NoDevice
      BY <1>a, <2>3 DEF To, In, Idle
    <3> QED BY <1>0, <2>1, <2>3, <3>1, AudioGoesOn
  <2>4. ASSUME NEW name \in {"use_physical", "set"}, NEW at \in (UP \union ST) \ {"return"},
               NEW next \in UP \union ST, To(name, at, next), command'.how \in {command.how, "failed"},
               name = "use_physical" => next # "return"
        PROVE  AudioInv'
    <3>1. pending = NoDevice
      BY <1>a, <2>4 DEF To, In, Idle
    <3>2. command.how \in {"set", "use_physical", "failed"}
      BY <1>0, <2>4 DEF To, CommandInv, In
    <3> QED BY <1>0, <2>1, <2>4, <3>1, <3>2, AudioOther
  <2> QED BY <2>2, <2>3, <2>4
<1>9. CASE Restore
  <2>1. /\ command.name = "use_physical" /\ command'.name = "use_physical" /\ command'.at = "return"
        /\ last' = "none" /\ pending = NoDevice
        /\ UNCHANGED <<default, saved, writable, before, wanted, meddled>>
    BY <1>0, <1>9, <1>a, RestoreMoves DEF Restore, files, hist, To, In, Idle
  <2>2. /\ ~writable => saved = NoDevice
        /\ saved # NoDevice /\ "use_virtual" \notin meddled => saved = before
    BY <2>1 DEF AudioInv, In
  <2>3. plugged \subseteq Physical /\ default \in Physical \union {Virtual}
    BY <1>0 DEF TypeInv, Devices
  <2>4. CASE command'.how = "use_physical" /\ default # Virtual /\ pending' = pending
    BY <2>1, <2>2, <2>3, <2>4 DEF AudioInv, In
  <2>5. CASE command'.how = "restored" /\ saved \in plugged /\ pending' = saved
    BY <1>b, <2>1, <2>2, <2>3, <2>5 DEF AudioInv, In
  <2>6. CASE command'.how = "fell-back" /\ pending' \in plugged
    BY <1>b, <2>1, <2>2, <2>3, <2>6 DEF AudioInv, In
  <2>7. CASE command'.how = "failed" /\ pending' = pending
    BY <2>1, <2>2, <2>7 DEF AudioInv, In
  <2> QED BY <1>0, <1>9, <2>4, <2>5, <2>6, <2>7, RestoreMoves
<1>10. CASE Return
  <2>1. /\ command.name \in Names /\ command.at = "return" /\ command' = Idle /\ last' = command.how
        /\ UNCHANGED devices
    BY <1>0, <1>10, OtherMoves DEF Return, Stops, audio, files, hist, devices
  <2>2. /\ ~writable => saved = NoDevice
        /\ saved # NoDevice /\ "use_virtual" \notin meddled => saved = before
    BY <2>1 DEF AudioInv, In
  <2>3. command.how \in {"restored", "fell-back", "use_physical"} => command.name = "use_physical"
    BY <1>0, <2>1 DEF CommandInv, Names
  <2>4. command'.how = "none" /\ command'.name = "none" /\ command'.at = "idle"
    BY <2>1 DEF Idle
  <2> QED BY <2>1, <2>2, <2>3, <2>4 DEF AudioInv, In, devices
<1>11. CASE TakeEffect
  <2>1. /\ pending # NoDevice /\ default' = pending /\ pending' = NoDevice
        /\ UNCHANGED <<command, last, saved, writable, before, wanted, meddled>>
    BY <1>11 DEF TakeEffect, files, hist
  <2>2. command.name = "use_virtual" => command.at = "check"
    BY <2>1 DEF AudioInv, In, Idle
  <2>3. \/ /\ ~(In("use_physical", {"return"}) /\ command.how = "use_physical")
           /\ last # "use_physical"
        \/ "use_physical" \in meddled
    BY <2>1 DEF AudioInv
  <2> QED BY <2>1, <2>2, <2>3 DEF AudioInv, In, UV
<1>12. ASSUME NEW d \in Devices, Pick(d) PROVE AudioInv'
  <2>1. /\ pending = NoDevice /\ pending' = NoDevice
        /\ UNCHANGED <<command, saved, writable, before>>
    BY <1>12 DEF Pick, files
  <2>2. CASE command = Idle /\ last' = "picked" /\ UNCHANGED meddled
    BY <1>12, <2>1, <2>2 DEF AudioInv, In, Idle
  <2>3. CASE command # Idle /\ meddled' = meddled \union {command.name} /\ UNCHANGED <<last, wanted>>
    <3>1. last = "none" /\ command.name # "none"
      BY <1>0, <2>3 DEF CommandInv
    <3>2. command.how \in {"restored", "fell-back", "use_physical"} => command.name = "use_physical"
      BY <1>0, <3>1 DEF CommandInv, Names
    <3> QED BY <2>1, <2>3, <3>1, <3>2 DEF AudioInv, In
  <2> QED BY <1>12, <2>2, <2>3 DEF Pick, Chosen
<1>13. ASSUME NEW d \in Physical, Unplug(d) PROVE AudioInv'
  <2>1. /\ pending' = IF pending = d THEN NoDevice ELSE pending
        /\ default # d => default' = default
        /\ last' = IF command = Idle /\ d \in {default, pending} THEN "picked" ELSE last
        /\ meddled' = IF command = Idle THEN meddled ELSE meddled \union {command.name}
        /\ UNCHANGED <<command, saved, writable, before, wanted>>
    BY <1>13 DEF Unplug, files
  <2>2. CASE command = Idle /\ d \in {default, pending}
    <3>1. last' = "picked" /\ meddled' = meddled
      BY <2>1, <2>2
    <3> QED BY <2>1, <2>2, <3>1 DEF AudioInv, In, Idle
  <2>3. CASE d \notin {default, pending} /\ command = Idle
    <3>1. UNCHANGED <<default, pending, last, meddled>>
      BY <2>1, <2>3
    <3> QED BY <2>1, <2>3, <3>1 DEF AudioInv, In
  <2>4. CASE command # Idle
    <3>1. last = "none" /\ command.name # "none"
      BY <1>0, <2>4 DEF CommandInv
    <3>2. command.how \in {"restored", "fell-back", "use_physical"} => command.name = "use_physical"
      BY <1>0, <3>1 DEF CommandInv, Names
    <3>3. pending' \in {pending, NoDevice} /\ last' = last /\ meddled' = meddled \union {command.name}
      BY <2>1, <2>4
    <3> QED BY <2>1, <2>4, <3>1, <3>2, <3>3 DEF AudioInv, In
  <2> QED BY <2>2, <2>3, <2>4
<1>14. ASSUME UNCHANGED <<default, pending, saved, writable, before, meddled, command, last, wanted>>
       PROVE  AudioInv'
  BY <1>14 DEF AudioInv, In
<1>15. CASE Others
  <2>1. ASSUME NEW d \in Physical, Plug(d) PROVE AudioInv'
    BY <1>14, <2>1 DEF Plug, files, hist
  <2>2. ASSUME NEW r \in routers, RouterRuns(r) \/ RouterEnds(r) PROVE AudioInv'
    BY <1>14, <2>2 DEF RouterRuns, RouterEnds, audio, files, hist
  <2>3. CASE PickInput \/ ServiceMoves
    BY <1>14, <2>3 DEF PickInput, ServiceMoves, audio, files, hist
  <2>4. CASE Renumber
    <3>1. /\ writable /\ meddled' = meddled \union {"use_virtual"}
          /\ UNCHANGED <<default, pending, writable, before, command, last, wanted>>
      BY <1>0, <2>4 DEF Renumber, audio, AudioInv, TypeInv
    <3> QED BY <3>1 DEF AudioInv, In
  <2> QED BY <1>11, <1>12, <1>13, <1>15, <2>1, <2>2, <2>3, <2>4 DEF Others
<1>16. CASE UNCHANGED vars
  BY <1>14, <1>16 DEF vars, audio, files, hist
<1> QED
  BY <1>2, <1>3, <1>4, <1>5, <1>6, <1>7, <1>8, <1>9, <1>10, <1>15, <1>16, NextIs DEF Proceed

\* The device to go back to is known at all times.
LEMMA AlwaysAudio == ASSUME PromptSwitch PROVE Spec => []AudioInv
<1>1. Init => AudioInv
  BY DEF Init, AudioInv, Idle, In
<1>2. WellFormed /\ AudioInv /\ [Next]_vars => AudioInv'
  BY AudioStep
<1> QED BY <1>1, <1>2, AlwaysWellFormed, PTL DEF Spec

\* While CoreAudio has done what it accepted before the command looks, the
\* device that was the default before use-virtual comes back, whatever devices
\* there are and however many commands ran in between, unless somebody meddled
\* or its number was given away; and use-physical ends on a physical device
\* unless CoreAudio refuses (virtual_device_manager.c:609).
THEOREM OldDeviceBack == PromptSwitch /\ Spec => []DeviceRestored
<1>1. AudioInv => DeviceRestored
  <2> SUFFICES ASSUME AudioInv, pending = NoDevice PROVE DeviceRestored
    BY DEF DeviceRestored, AtRest
  <2>1. ASSUME last = "restored", meddled \intersect {"use_virtual", "use_physical"} = {}
        PROVE  default = before
    BY <2>1, SessionAssumption DEF AudioInv
  <2>2. ASSUME last \in {"restored", "fell-back"}, "use_physical" \notin meddled
        PROVE  default \in Physical
    BY <2>2, SessionAssumption DEF AudioInv, Devices
  <2>3. ASSUME last = "use_physical", "use_physical" \notin meddled
        PROVE  default \in Physical
    BY <2>3 DEF AudioInv
  <2> QED BY <2>1, <2>2, <2>3 DEF DeviceRestored
<1> SUFFICES ASSUME PromptSwitch PROVE Spec => []DeviceRestored
  OBVIOUS
<1> QED BY <1>1, AlwaysAudio, PTL

-----------------------------------------------------------------------------
(* The binding and the router                                               *)

\* use-virtual goes on, after the binding and before the end.
LEMMA RouteGoesOn ==
  ASSUME RouteInv, NEW at \in UV \ {"bind-default"}, NEW next \in UV \ {"bind-default", "return"},
         To("use_virtual", at, next), command'.device = command.device,
         UNCHANGED <<binding, writable, wanted, before, meddled>>, "uid" \in lost => "uid" \in lost'
  PROVE  RouteInv'
<1>1. /\ command.name = "use_virtual" /\ command'.name = "use_virtual" /\ last' = "none"
      /\ command.at = at /\ command'.at = next
  BY DEF To
<1>2. "use_virtual" \notin meddled => Bound
  <2>1. In("use_virtual", (UV \union ST) \ {"bind-default", "bind"})
    BY <1>1 DEF In, UV
  <2> QED BY <2>1 DEF RouteInv
<1>3. "use_virtual" \notin meddled /\ "uid" \notin lost => command.device = wanted
  BY <1>1 DEF RouteInv, In
<1>4. "use_virtual" \notin meddled' => Bound'
  BY <1>2 DEF Bound
<1>5. "none" \notin meddled /\ before \in Devices
  BY <1>1 DEF RouteInv, In
<1> HIDE DEF Bound
<1> QED BY <1>1, <1>3, <1>4, <1>5 DEF RouteInv, In

\* Nothing is said of use-physical, nor of a command that failed.
LEMMA RouteElse ==
  ASSUME RouteInv, meddled' \subseteq meddled, last' \notin {"use_virtual", "set"},
         command'.name \notin {"use_virtual", "set"}
  PROVE  RouteInv'
BY DEF RouteInv, In

\* No step of anybody leaves the router on another device.
LEMMA RouteStep ==
  ASSUME PromptSwitch
  PROVE  WellFormed /\ AudioInv /\ RouteInv /\ [Next]_vars => RouteInv'
<1> SUFFICES ASSUME WellFormed, AudioInv, RouteInv, [Next]_vars PROVE RouteInv'
  OBVIOUS
<1>0. CommandInv /\ TypeInv /\ RouterInv
  BY DEF WellFormed
<1>b. Virtual \notin Physical /\ NoDevice \notin Devices /\ NoDevice # Virtual
  BY SessionAssumption DEF Devices
<1>1. CASE UseVirtual
  <2>1. /\ command'.name = "use_virtual" /\ command'.at = "bind-default" /\ last' = "none"
        /\ before' = default /\ meddled' = meddled \ {"use_virtual"}
    BY <1>1, BeginsAt DEF UseVirtual, Names
  <2>2. "none" \notin meddled /\ default \in Devices
    BY <1>0 DEF RouteInv, TypeInv
  <2> QED BY <2>1, <2>2 DEF RouteInv, In
<1>2. CASE UsePhysical
  <2>1. /\ command'.name = "use_physical" /\ last' = "none" /\ meddled' = meddled \ {"use_physical"}
    BY <1>2, BeginsAt DEF UsePhysical, Names
  <2> QED BY <2>1, RouteElse
<1>3. ASSUME NEW d \in Physical, Rebind(d) PROVE RouteInv'
  <2>1. /\ command'.name = "set" /\ command'.at = "bind" /\ last' = "none" /\ command'.device = d
        /\ meddled' = meddled \ {"set"} /\ default' = Virtual /\ pending' = NoDevice /\ wanted' = d
    BY <1>3, BeginsAt DEF Rebind, Begin, Names
  <2>2. "none" \notin meddled
    BY DEF RouteInv
  <2> QED BY <2>1, <2>2 DEF RouteInv, In
<1>4. CASE BindDefault
  <2>1. /\ command.name = "use_virtual" /\ command.at = "bind-default"
        /\ command'.name = "use_virtual" /\ command'.at = "save" /\ last' = "none"
        /\ UNCHANGED <<writable, wanted, before, meddled>>
        /\ \/ command'.device = default
           \/ command'.device = command.device /\ "uid" \in lost'
    BY <1>0, <1>4, UseVirtualMoves DEF BindDefault, To
  <2>2. /\ before \in Devices /\ wanted = before /\ "none" \notin meddled
        /\ "use_virtual" \notin meddled => default = before
    BY <2>1 DEF RouteInv, AudioInv, In, UV
  <2>3. binding' = Saved(binding, default) \/ "uid" \in lost'
    BY <1>4 DEF BindDefault
  <2>4. "use_virtual" \notin meddled => Bound'
    BY <2>1, <2>2, <2>3 DEF Bound, Saved
  <2>5. "use_virtual" \notin meddled /\ "uid" \notin lost' => command'.device = wanted'
    BY <2>1, <2>2
  <2> HIDE DEF Bound
  <2> QED BY <2>1, <2>2, <2>4, <2>5 DEF RouteInv, In
<1>5. ASSUME NEW at, Stops("use_virtual", at, "failed"), UNCHANGED meddled PROVE RouteInv'
  BY <1>5, RouteElse DEF Stops, Idle
<1>6. CASE Save \/ SetDefault \/ CheckDefault \/ VerifyDefault
  <2>1. UNCHANGED <<binding, writable, wanted, before, meddled, lost>>
    BY <1>6 DEF Save, SetDefault, CheckDefault, VerifyDefault, files, hist
  <2>2. \/ \E at \in UV \ {"bind-default"}, next \in UV \ {"bind-default", "return"} :
             To("use_virtual", at, next) /\ Keeps
        \/ \E at \in Places : Stops("use_virtual", at, "failed")
    BY <1>0, <1>6, UseVirtualMoves DEF SetDefault, CheckDefault, Does, Places, UV
  <2> QED BY <1>5, <2>1, <2>2, RouteGoesOn DEF Keeps
<1>7. CASE Kill \/ Unlink
  <2>1. UNCHANGED <<binding, writable, wanted, before, meddled, lost>>
    BY <1>7 DEF Kill, Unlink, files, hist
  <2>2. \/ \E at \in UV \ {"bind-default"}, next \in UV \ {"bind-default", "return"} :
             To("use_virtual", at, next) /\ Keeps
        \/ command'.name = "use_physical" /\ last' = "none"
    BY <1>0, <1>7, OtherMoves DEF UV, To
  <2> QED BY <2>1, <2>2, RouteGoesOn, RouteElse DEF Keeps
<1>8. CASE Spawn
  <2>1. UNCHANGED <<binding, writable, wanted, before, meddled>> /\ ("uid" \in lost => "uid" \in lost')
    BY <1>8 DEF Spawn, files
  <2> QED BY <1>0, <1>8, <2>1, UseVirtualMoves, RouteGoesOn DEF UV, Keeps
<1>9. CASE Play
  <2>1. UNCHANGED <<binding, writable, wanted, before, meddled, lost>>
    BY <1>9 DEF Play, files, hist
  <2>2. CASE To("use_virtual", "play", "kill-router") /\ Keeps
    BY <2>1, <2>2, RouteGoesOn DEF UV, Keeps
  <2>3. CASE To("use_virtual", "play", "return") /\ Keeps /\ command.device = NoDevice
    <3>1. /\ command.name = "use_virtual" /\ command.at = "play" /\ command'.name = "use_virtual"
          /\ command'.at = "return" /\ last' = "none" /\ command'.device = NoDevice
      BY <2>3 DEF To, Keeps
    <3>2. wanted = before /\ before \in Devices /\ "none" \notin meddled
      BY <3>1 DEF RouteInv, AudioInv, In, UV
    <3>3. "use_virtual" \notin meddled => "uid" \in lost'
      BY <1>b, <2>1, <2>3, <3>1, <3>2 DEF RouteInv, In, UV
    <3>4. "use_virtual" \notin meddled => Bound' /\ Routed'
      BY <3>3 DEF Bound, Routed
    <3> HIDE DEF Bound, Routed
    <3> QED BY <2>1, <3>1, <3>2, <3>3, <3>4 DEF RouteInv, In
  <2> QED BY <1>0, <1>9, <2>2, <2>3, UseVirtualMoves
<1>10. CASE KillRouter
  <2>1. UNCHANGED <<default, pending, binding, writable, wanted, before, meddled, lost>>
    BY <1>10 DEF KillRouter, audio, files, hist
  <2>2. CASE To("use_virtual", "kill-router", "route") /\ Keeps
    BY <2>1, <2>2, RouteGoesOn DEF UV, Keeps
  <2>3. CASE To("use_physical", "kill-router", "unbind")
    BY <2>1, <2>3, RouteElse DEF To
  <2>4. CASE To("set", "kill-router", "route") /\ Keeps
    <3>1. /\ command.name = "set" /\ command.at = "kill-router" /\ command'.name = "set"
          /\ command'.at = "route" /\ last' = "none" /\ command'.device = command.device
      BY <2>4 DEF To, Keeps
    <3>2. "set" \notin meddled => Bound
      BY <3>1 DEF RouteInv, In, ST
    <3>3. Bound' <=> Bound
      BY <2>1 DEF Bound
    <3> HIDE DEF Bound
    <3> QED BY <2>1, <3>1, <3>2, <3>3 DEF RouteInv, In, ST
  <2> QED BY <1>0, <1>10, <2>2, <2>3, <2>4, OtherMoves
<1>11. CASE SaveBinding
  <2>1. /\ command.name = "set" /\ command.at = "bind" /\ command'.name = "set"
        /\ command'.at = "kill-router" /\ last' = "none" /\ command'.device = command.device
        /\ binding' = Saved(binding, command.device)
        /\ UNCHANGED <<default, pending, writable, wanted, meddled>>
    BY <1>0, <1>11, OtherMoves DEF SaveBinding, To, Keeps, audio, hist
  <2>2. wanted = command.device
    BY <2>1 DEF RouteInv, In, ST
  <2>3. Bound'
    BY <2>1, <2>2 DEF Bound, Saved
  <2> HIDE DEF Bound
  <2> QED BY <2>1, <2>2, <2>3 DEF RouteInv, In, ST
<1>12. CASE Unbind
  <2>1. command'.name = "use_physical" /\ last' = "none" /\ meddled' = meddled
    BY <1>0, <1>12, OtherMoves DEF Unbind, To, hist
  <2> QED BY <2>1, RouteElse
<1>13. CASE Restore
  <2>1. command'.name = "use_physical" /\ last' = "none" /\ meddled' = meddled
    BY <1>0, <1>13, RestoreMoves DEF Restore, To, hist
  <2> QED BY <2>1, RouteElse
<1>14. CASE Route
  <2>1. /\ command.name \in {"use_virtual", "set"} /\ command.at = "route"
        /\ command'.name = command.name /\ command'.at = "return" /\ last' = "none"
        /\ command'.device = command.device
        /\ UNCHANGED <<default, pending, binding, writable, wanted, before, meddled>>
    BY <1>0, <1>14, OtherMoves DEF Route, To, audio, files
  <2>2. "uid" \in lost <=> "uid" \in lost'
    BY <1>14 DEF Route
  <2>3. \/ routers' = {[at |-> "starting", target |-> command.device]}
        \/ "router" \in lost'
    <3>1. routers = {}
      BY <1>0, <2>1 DEF RouterInv
    <3> QED BY <1>14, <3>1 DEF Route
  <2>4. command.name \notin meddled => Bound' /\ (command.device = wanted \/ "uid" \in lost)
    <3>1. In(command.name, (UV \union ST) \ {"bind-default", "bind"})
      BY <2>1 DEF In, UV
    <3>2. command.name \notin meddled => Bound
      BY <2>1, <3>1 DEF RouteInv
    <3>3. Bound => Bound'
      BY <2>1, <2>2 DEF Bound
    <3>4. command.name \notin meddled => command.device = wanted \/ "uid" \in lost
      BY <2>1 DEF RouteInv, In, UV, ST
    <3> QED BY <3>2, <3>3, <3>4
  <2>5. command.name \notin meddled => Routed'
    <3>1. CASE "router" \in lost' \/ "uid" \in lost'
      BY <3>1 DEF Routed
    <3>2. CASE routers' = {[at |-> "starting", target |-> command.device]} /\ command.device = wanted
      <4>1. {r.target : r \in routers'} = {wanted'}
        BY <2>1, <3>2
      <4> QED BY <4>1 DEF Routed
    <3> QED BY <2>2, <2>3, <2>4, <3>1, <3>2
  <2>6. /\ "none" \notin meddled
        /\ command.name = "use_virtual" => before \in Devices
        /\ command.name = "set" => wanted = command.device
        /\ command.name = "set" /\ "set" \notin meddled => default = Virtual /\ pending = NoDevice
    BY <2>1 DEF RouteInv, In, UV, ST
  <2> HIDE DEF Bound, Routed
  <2>7. CASE command.name = "use_virtual"
    BY <2>1, <2>2, <2>4, <2>5, <2>6, <2>7 DEF RouteInv, In
  <2>8. CASE command.name = "set"
    BY <2>1, <2>2, <2>4, <2>5, <2>6, <2>8 DEF RouteInv, In
  <2> QED BY <2>1, <2>7, <2>8
<1>15. CASE Return
  <2>1. /\ command.name \in Names /\ command.at = "return" /\ command' = Idle /\ last' = command.how
        /\ UNCHANGED <<default, pending, binding, writable, wanted, before, meddled, lost, routers>>
    BY <1>0, <1>15, OtherMoves DEF Return, Stops, audio, files, hist
  <2>2. command'.name = "none" /\ command'.at = "idle"
    BY <2>1 DEF Idle
  <2>3. CASE last' \notin {"use_virtual", "set"}
    BY <2>1, <2>2, <2>3, RouteElse
  <2>4. CASE last' \in {"use_virtual", "set"}
    <3>1. command.name = last'
      BY <1>0, <2>1, <2>4 DEF CommandInv, Names
    <3>2. last' \notin meddled => Bound /\ Routed
      <4>1. /\ In(command.name, (UV \union ST) \ {"bind-default", "bind"})
            /\ In(command.name, {"return"})
        BY <2>1 DEF In, UV
      <4> QED BY <2>4, <3>1, <4>1 DEF RouteInv
    <3>3. (Bound => Bound') /\ (Routed => Routed')
      BY <2>1 DEF Bound, Routed
    <3>4. wanted \in Devices /\ "none" \notin meddled
      <4>1. CASE command.name = "use_virtual"
        BY <2>1, <4>1 DEF RouteInv, AudioInv, In, UV
      <4>2. CASE command.name = "set"
        BY <1>0, <2>1, <4>2 DEF RouteInv, CommandInv, In, ST, Devices
      <4> QED BY <2>4, <3>1, <4>1, <4>2 DEF RouteInv
    <3>5. last' \notin meddled => default = Virtual /\ pending = NoDevice
      <4>1. CASE command.name = "use_virtual"
        BY <2>1, <3>1, <4>1 DEF AudioInv, In, UV, Idle
      <4>2. CASE command.name = "set"
        BY <2>1, <3>1, <4>2 DEF RouteInv, In, ST
      <4> QED BY <2>4, <3>1, <4>1, <4>2
    <3> HIDE DEF Bound, Routed
    <3> QED BY <2>1, <2>2, <2>4, <3>2, <3>3, <3>4, <3>5 DEF RouteInv, In
  <2> QED BY <2>3, <2>4
<1>16. ASSUME UNCHANGED <<binding, writable, wanted, before, command, last>>,
              \/ UNCHANGED <<default, pending>>
              \/ /\ ~(In("set", ST) /\ "set" \notin meddled')
                 /\ ~(last \in {"use_virtual", "set"} /\ last \notin meddled'),
              \/ UNCHANGED <<routers, lost>>
              \/ "router" \in lost' /\ ("uid" \in lost <=> "uid" \in lost')
              \/ lost' = lost /\ {r.target : r \in routers'} = {r.target : r \in routers}
              \/ lost' = lost /\ wanted = NoDevice,
              meddled \subseteq meddled', "none" \notin meddled'
       PROVE  RouteInv'
  <2>1. Bound => Bound'
    BY <1>16 DEF Bound
  <2>2. wanted # NoDevice => (Routed => Routed')
    BY <1>16 DEF Routed
  <2>3. /\ In("use_virtual", UV) => wanted \in Devices
        /\ In("set", ST) => wanted \in Devices
        /\ last \in {"use_virtual", "set"} => wanted \in Devices
    <3>1. In("set", ST) => command.device \in Devices
      BY <1>0 DEF CommandInv, In, Devices
    <3> QED BY <3>1 DEF RouteInv, AudioInv
  <2>4. ASSUME NEW name \in {"use_virtual", "set"}, In(name, {"return"}) PROVE wanted \in Devices
    BY <2>3, <2>4 DEF In, UV, ST
  <2>5. ASSUME NEW name \in {"use_virtual", "set"}, name \notin meddled, In(name, {"return"}) \/ last = name
        PROVE  Routed'
    <3>1. wanted # NoDevice
      BY <1>b, <2>3, <2>4, <2>5
    <3>2. Routed
      BY <2>5 DEF RouteInv
    <3> QED BY <2>2, <3>1, <3>2
  <2>6. ASSUME NEW name \in {"use_virtual", "set"}, name \notin meddled,
               In(name, (UV \union ST) \ {"bind-default", "bind"}) \/ last = name
        PROVE  Bound'
    BY <2>1, <2>6 DEF RouteInv
  <2>7. "uid" \in lost <=> "uid" \in lost'
    BY <1>16
  <2> HIDE DEF Bound, Routed
  <2> QED BY <1>16, <2>5, <2>6, <2>7 DEF RouteInv, In
<1>17. "none" \notin meddled
  BY DEF RouteInv
<1>18. CASE TakeEffect
  <2>1. /\ pending # NoDevice
        /\ UNCHANGED <<binding, writable, wanted, before, command, last, routers, lost, meddled>>
    BY <1>18 DEF TakeEffect, procs, files, hist
  <2>2. /\ ~(In("set", ST) /\ "set" \notin meddled)
        /\ ~(last \in {"use_virtual", "set"} /\ last \notin meddled)
    BY <2>1 DEF RouteInv
  <2> QED BY <1>16, <1>17, <2>1, <2>2
<1>19. ASSUME NEW d \in Devices, Pick(d) PROVE RouteInv'
  <2>1. UNCHANGED <<binding, writable, before, command, routers>>
    BY <1>19 DEF Pick, procs, files
  <2>2. CASE command = Idle /\ last' = "picked" /\ meddled' = meddled
    BY <2>1, <2>2, RouteElse DEF Idle
  <2>3. CASE /\ command # Idle /\ meddled' = meddled \union {command.name}
             /\ UNCHANGED <<last, wanted, lost>>
    <3>1. last = "none" /\ command.name # "none"
      BY <1>0, <2>3 DEF CommandInv
    <3>2. "none" \notin meddled' /\ ~(In("set", ST) /\ "set" \notin meddled')
      BY <1>17, <2>3, <3>1 DEF In
    <3> QED BY <1>16, <2>1, <2>3, <3>1, <3>2
  <2> QED BY <1>19, <2>2, <2>3 DEF Pick, Chosen
<1>20. ASSUME NEW d \in Physical, Unplug(d) PROVE RouteInv'
  <2>1. /\ UNCHANGED <<binding, writable, before, command, routers, wanted, lost>>
        /\ pending' = IF pending = d THEN NoDevice ELSE pending
        /\ default # d => default' = default
        /\ last' = IF command = Idle /\ d \in {default, pending} THEN "picked" ELSE last
        /\ meddled' = IF command = Idle THEN meddled ELSE meddled \union {command.name}
    BY <1>20 DEF Unplug, procs, files
  <2>2. CASE command = Idle /\ d \in {default, pending}
    <3>1. last' = "picked" /\ meddled' = meddled
      BY <2>1, <2>2
    <3> QED BY <2>1, <2>2, <3>1, RouteElse DEF Idle
  <2>3. CASE d \notin {default, pending} /\ command = Idle
    BY <1>16, <1>17, <2>1, <2>3
  <2>4. CASE command # Idle
    <3>1. last = "none" /\ command.name # "none"
      BY <1>0, <2>4 DEF CommandInv
    <3>2. "none" \notin meddled' /\ ~(In("set", ST) /\ "set" \notin meddled')
      BY <1>17, <2>1, <2>4, <3>1 DEF In
    <3>3. last' = last /\ meddled \subseteq meddled'
      BY <2>1, <2>4
    <3> QED BY <1>16, <2>1, <3>1, <3>2, <3>3
  <2> QED BY <2>2, <2>3, <2>4
<1>21. ASSUME NEW d \in Physical, Plug(d) PROVE RouteInv'
  BY <1>16, <1>17, <1>21 DEF Plug, procs, files, hist
<1>22. CASE PickInput \/ ServiceMoves
  BY <1>16, <1>17, <1>22 DEF PickInput, ServiceMoves, procs, audio, files, hist
<1>23. ASSUME NEW r \in routers, RouterRuns(r) PROVE RouteInv'
  <2>1. /\ UNCHANGED <<binding, writable, wanted, before, command, last, default, pending, lost, meddled>>
        /\ routers' = (routers \ {r}) \union {[r EXCEPT !.at = "running"]}
    BY <1>23 DEF RouterRuns, audio, files, hist
  <2>2. [r EXCEPT !.at = "running"].target = r.target
    BY <1>0 DEF RouterInv
  <2>3. {q.target : q \in routers'} = {q.target : q \in routers}
    <3>1. routers = {r}
      BY <1>0 DEF RouterInv
    <3>2. routers' = {[r EXCEPT !.at = "running"]}
      BY <2>1, <3>1
    <3> QED BY <2>2, <3>1, <3>2
  <2> QED BY <1>16, <1>17, <2>1, <2>3
<1>24. ASSUME NEW r \in routers, RouterEnds(r) PROVE RouteInv'
  <2>1. /\ UNCHANGED <<binding, writable, wanted, before, command, last, default, pending, meddled>>
        /\ lost' = IF wanted = NoDevice THEN lost ELSE lost \union {"router"}
    BY <1>24 DEF RouterEnds, audio, files
  <2>2. CASE wanted = NoDevice
    BY <1>16, <1>17, <2>1, <2>2
  <2>3. CASE wanted # NoDevice
    BY <1>16, <1>17, <2>1, <2>3
  <2> QED BY <2>2, <2>3
<1>25. CASE Others
  <2>1. ASSUME Renumber PROVE RouteInv'
    <3>1. /\ UNCHANGED <<binding, writable, wanted, before, command, last, default, pending, lost,
                          routers>>
          /\ meddled' = meddled \union {"use_virtual"}
      BY <2>1 DEF Renumber, procs, audio
    <3>2. UNCHANGED Bound /\ UNCHANGED Routed
      BY <3>1 DEF Bound, Routed
    <3> HIDE DEF Bound, Routed
    <3> QED BY <3>1, <3>2 DEF RouteInv, In
  <2> QED BY <1>18, <1>19, <1>20, <1>21, <1>22, <1>23, <1>24, <1>25, <2>1 DEF Others
<1>26. CASE UNCHANGED vars
  BY <1>16, <1>17, <1>26 DEF vars, procs, audio, files, hist
<1> QED
  BY <1>1, <1>2, <1>3, <1>4, <1>6, <1>7, <1>8, <1>9, <1>10, <1>11, <1>12, <1>13, <1>14, <1>15, <1>25,
     <1>26, NextIs DEF Proceed

\* The router plays to the device it is bound to.
LEMMA AlwaysRoute == ASSUME PromptSwitch PROVE Spec => []RouteInv
<1>1. Init => RouteInv
  BY DEF Init, RouteInv, Idle, In, UV, ST
<1>2. WellFormed /\ AudioInv /\ RouteInv /\ [Next]_vars => RouteInv'
  BY RouteStep
<1> QED BY <1>1, <1>2, AlwaysWellFormed, AlwaysAudio, PTL DEF Spec

\* Under the same conditions one router plays to the device that was asked for
\* once use-virtual or set is through, and the binding file names it
\* (README.md:55), unless the user meddled, the device's UID could not be read,
\* the router died or the file cannot be written.
THEOREM RouterWhereWanted == PromptSwitch /\ Spec => []RoutedToWanted
<1>1. RouteInv => RoutedToWanted
  BY DEF RouteInv, RoutedToWanted, Bound, Routed
<1> SUFFICES ASSUME PromptSwitch PROVE Spec => []RoutedToWanted
  OBVIOUS
<1> QED BY <1>1, AlwaysRoute, PTL

=============================================================================
