------------------------------ MODULE Sessions ------------------------------
(***************************************************************************)
(* Sessions of the desktop application and what hangs on them: the         *)
(* registration for agents, the virtual disk and continuous sync           *)
(* (commands.rs of src-tauri).  Every command is a task; it waits between  *)
(* two actions.  An id may be used again once it is free: connecting a     *)
(* site whose id is taken gets one never used before, which meets no       *)
(* other, so an id that is taken is not connected here.  Disks are mounted *)
(* as on macOS, where the folder of a volume follows from the id.          *)
(***************************************************************************)
EXTENDS Naturals, FiniteSets

CONSTANTS
    Task,       \* commands under way at a time
    Id,         \* ids of saved sites
    MaxCommands \* bound: commands of a behaviour

ASSUME SessionsAssumption == MaxCommands \in Nat \ {0}

None == 0
Number == 1..MaxCommands        \* drivers, servers and sync runs, by the command that made them

VARIABLES
    sessions,   \* active_sessions: the driver of each id, or None
    configs,    \* session_configs, as the driver they came with
    agents,     \* the registry of the MCP server
    disks,      \* virtual_disks: the server of each id, or None
    mounting,   \* virtual_disks_mounting
    running,    \* servers that answer on their port
    volume,     \* the server behind the volume mounted in the folder of an id
    serves,     \* the driver each server was made with
    guard,      \* continuous_sync_cancel: the run it would cancel, or None
    lock,       \* who holds continuous_sync_cancel
    latest,    \* the run continuous_sync_generation stands for, None after a stop
    active,     \* continuous_sync_active
    target,     \* continuous_sync_session
    runs,       \* the tasks that upload: [id, at]
    cancelled,  \* runs that were told to stop
    cmd,        \* the command of each task
    issued,     \* commands so far
    reused,     \* history: ids connected while their disconnect or mount was under way
    stolen,     \* history: ids whose volume an older server's unmount took
    late        \* history: ids disconnected between a check and what followed it

disksVars == <<disks, mounting, running, volume, serves, stolen>>
syncVars  == <<guard, lock, latest, active, target, runs, cancelled>>
whoVars   == <<sessions, configs, agents, reused>>
sessionVars == <<whoVars, disksVars, syncVars, cmd, issued, late>>

Idle == [op |-> "none", id |-> "none", at |-> "idle", n |-> None, srv |-> None]
NoRun == [id |-> "none", at |-> "none"]
At(t, s)   == cmd[t].at = s
Step(t, s) == cmd' = [cmd EXCEPT ![t].at = s]
Finish(t)  == cmd' = [cmd EXCEPT ![t] = Idle]
IdOf(t)    == cmd[t].id
Doing(op, id) == {t \in Task : cmd[t].op = op /\ IdOf(t) = id}
Quiet      == \A t \in Task : cmd[t] = Idle

Issue(t, op, id, s) ==
    /\ cmd[t] = Idle /\ issued < MaxCommands
    /\ issued' = issued + 1
    /\ cmd' = [cmd EXCEPT ![t] = [op |-> op, id |-> id, at |-> s, n |-> issued', srv |-> None]]

(* --------------------------- connect_session ---------------------------- *)
ConnectSession(t, id) ==
    /\ sessions[id] = None
    /\ Issue(t, "connect", id, "config")
    /\ sessions' = [sessions EXCEPT ![id] = issued']
    /\ reused' = IF Doing("disconnect", id) \cup Doing("mount", id) # {} THEN reused \cup {id} ELSE reused
    /\ UNCHANGED <<configs, agents, disksVars, syncVars, late>>

PutConfig(t) ==
    /\ At(t, "config") /\ Step(t, "register")
    /\ configs' = [configs EXCEPT ![IdOf(t)] = cmd[t].n]
    /\ UNCHANGED <<sessions, agents, reused, disksVars, syncVars, issued, late>>

Register(t) ==
    /\ At(t, "register") /\ Finish(t)
    /\ agents' = [agents EXCEPT ![IdOf(t)] = cmd[t].n]
    /\ UNCHANGED <<sessions, configs, reused, disksVars, syncVars, issued, late>>

(* -------------------------- disconnect_session --------------------------- *)
Disconnect(t, id) ==        \* of what the window knows: connecting has ended
    /\ sessions[id] # None /\ Doing("connect", id) = {}
    /\ Issue(t, "disconnect", id, "dropConfig")
    /\ sessions' = [sessions EXCEPT ![id] = None]
    /\ late' = IF \E s \in Task : cmd[s].id = id /\ cmd[s].at \in {"insert", "startLock", "watch"}
               THEN late \cup {id} ELSE late
    /\ UNCHANGED <<configs, agents, reused, disksVars, syncVars>>

DropConfig(t) ==
    /\ At(t, "dropConfig") /\ Step(t, "unregister")
    /\ configs' = [configs EXCEPT ![IdOf(t)] = None]
    /\ UNCHANGED <<sessions, agents, reused, disksVars, syncVars, issued, late>>

(* Mutant: the agents keep the connection.                                 *)
UnregisterNot(t) ==
    /\ At(t, "unregister") /\ Step(t, "stopTarget")
    /\ UNCHANGED <<whoVars, disksVars, syncVars, issued, late>>
Unregister(t) ==
    /\ At(t, "unregister") /\ Step(t, "stopTarget")
    /\ agents' = [agents EXCEPT ![IdOf(t)] = None]
    /\ UNCHANGED <<sessions, configs, reused, disksVars, syncVars, issued, late>>

(* stop_continuous_sync_locked, under the lock of start and stop.          *)
StopSync ==
    /\ cancelled' = IF guard = None THEN cancelled ELSE cancelled \cup {guard}
    /\ guard' = None /\ latest' = None /\ active' = FALSE /\ target' = "none"
StopIfTargets(t) ==
    /\ At(t, "stopTarget") /\ lock = None
    /\ IF target = IdOf(t) THEN StopSync
       ELSE UNCHANGED <<cancelled, guard, latest, active, target>>
    /\ Step(t, "takeDisk")
    /\ UNCHANGED <<lock, runs, whoVars, disksVars, issued, late>>

(* The disk is taken out of the map first; disconnecting, unmounting, and  *)
(* the clean-up of a disk the user ejected then do the same.               *)
TakeDisk(t) ==
    /\ At(t, "takeDisk")
    /\ disks' = [disks EXCEPT ![IdOf(t)] = None]
    /\ IF disks[IdOf(t)] = None THEN Finish(t)
       ELSE cmd' = [cmd EXCEPT ![t].at = "unmount", ![t].srv = disks[IdOf(t)]]
    /\ UNCHANGED <<mounting, running, volume, serves, stolen, whoVars, syncVars, issued, late>>

(* unmount_and_stop: the folder is unmounted by force, whatever is in it,  *)
(* and the server stops.                                                   *)
ForceUnmount(t) ==
    /\ volume' = [volume EXCEPT ![IdOf(t)] = None]
    /\ stolen' = IF volume[IdOf(t)] \notin {None, cmd[t].srv} THEN stolen \cup {IdOf(t)} ELSE stolen
Unmount(t) ==
    /\ At(t, "unmount") /\ ForceUnmount(t) /\ Step(t, "stop")
    /\ UNCHANGED <<disks, mounting, running, serves, whoVars, syncVars, issued, late>>

StopServer(t) ==
    /\ At(t, "stop")
    /\ running' = running \ {cmd[t].srv}
    /\ CASE cmd[t].op = "mount" /\ cmd[t].srv # cmd[t].n -> Step(t, "start")
         [] cmd[t].op = "mount" /\ cmd[t].srv = cmd[t].n -> Step(t, "release")
         [] cmd[t].op = "status" -> Step(t, "release")
         [] OTHER -> Finish(t)
    /\ UNCHANGED <<disks, mounting, volume, serves, stolen, whoVars, syncVars, issued, late>>

UnmountDisk(t, id) ==
    /\ disks[id] # None /\ Issue(t, "unmount", id, "takeDisk")
    /\ UNCHANGED <<whoVars, disksVars, syncVars, late>>

(* -------------------------- mount_virtual_disk --------------------------- *)
Mount(t, id) ==             \* the driver is looked up first
    /\ sessions[id] # None /\ Issue(t, "mount", id, "claim")
    /\ serves' = [serves EXCEPT ![issued'] = sessions[id]]
    /\ UNCHANGED <<disks, mounting, running, volume, stolen, whoVars, syncVars, late>>

(* Mutant: several mounts of a session at a time.                          *)
ClaimAlways(t) ==
    /\ At(t, "claim") /\ cmd[t].op \in {"mount", "status"}
    /\ mounting' = mounting \cup {IdOf(t)}
    /\ Step(t, IF cmd[t].op = "mount" THEN "look" ELSE "takeOld")
    /\ UNCHANGED <<disks, running, volume, serves, stolen, whoVars, syncVars, issued, late>>
Claim(t) ==
    /\ At(t, "claim")
    /\ IF IdOf(t) \in mounting THEN Finish(t) /\ UNCHANGED mounting
       ELSE /\ mounting' = mounting \cup {IdOf(t)}
            /\ Step(t, IF cmd[t].op = "mount" THEN "look" ELSE "takeOld")
    /\ UNCHANGED <<disks, running, volume, serves, stolen, whoVars, syncVars, issued, late>>

Ejected(id, s) == s \notin running \/ volume[id] = None
LookAtDisk(t) ==                  \* and probe the volume
    /\ At(t, "look")
    /\ LET s == disks[IdOf(t)]
       IN  cmd' = [cmd EXCEPT ![t].at = IF s = None THEN "start"
                                        ELSE IF Ejected(IdOf(t), s) THEN "takeOld" ELSE "release",
                              ![t].srv = s]
    /\ UNCHANGED <<whoVars, disksVars, syncVars, issued, late>>

(* Mutant: whatever disk the session has by now is taken out.              *)
TakeAny(t) ==
    /\ At(t, "takeOld") /\ disks' = [disks EXCEPT ![IdOf(t)] = None] /\ Step(t, "unmount")
    /\ UNCHANGED <<mounting, running, volume, serves, stolen, whoVars, syncVars, issued, late>>
TakeOld(t) ==               \* take_virtual_disk_if_port
    /\ At(t, "takeOld")
    /\ IF disks[IdOf(t)] = cmd[t].srv
       THEN disks' = [disks EXCEPT ![IdOf(t)] = None] /\ Step(t, "unmount")
       ELSE Step(t, IF cmd[t].op = "mount" THEN "start" ELSE "release") /\ UNCHANGED disks
    /\ UNCHANGED <<mounting, running, volume, serves, stolen, whoVars, syncVars, issued, late>>

(* The server starts and a stale mount in the folder is unmounted.         *)
Start(t) ==
    /\ At(t, "start")
    /\ running' = running \cup {cmd[t].n}
    /\ ForceUnmount(t)
    /\ cmd' = [cmd EXCEPT ![t].at = "mountIt", ![t].srv = cmd[t].n]
    /\ UNCHANGED <<disks, mounting, serves, whoVars, syncVars, issued, late>>

MountInOs(t) ==
    /\ At(t, "mountIt")
    /\ \/ volume' = [volume EXCEPT ![IdOf(t)] = cmd[t].srv] /\ Step(t, "check")
       \/ Step(t, "stop") /\ UNCHANGED volume           \* mount_webdav failed
    /\ UNCHANGED <<disks, mounting, running, serves, stolen, whoVars, syncVars, issued, late>>

(* Mutant: the session is not looked up again after the mount.             *)
CheckNothing(t) ==
    /\ At(t, "check") /\ Step(t, "insert")
    /\ UNCHANGED <<whoVars, disksVars, syncVars, issued, late>>
CheckConnected(t) ==
    /\ At(t, "check")
    /\ Step(t, IF sessions[IdOf(t)] = None THEN "unmount" ELSE "insert")
    /\ UNCHANGED <<whoVars, disksVars, syncVars, issued, late>>

InsertDisk(t) ==            \* a server it replaces is dropped: its port closes
    /\ At(t, "insert") /\ Step(t, "release")
    /\ disks' = [disks EXCEPT ![IdOf(t)] = cmd[t].srv]
    /\ running' = running \ {disks[IdOf(t)]}
    /\ UNCHANGED <<mounting, volume, serves, stolen, whoVars, syncVars, issued, late>>

Release(t) ==
    /\ At(t, "release") /\ Finish(t)
    /\ mounting' = mounting \ {IdOf(t)}
    /\ UNCHANGED <<disks, running, volume, serves, stolen, whoVars, syncVars, issued, late>>

(* get_virtual_disks_status, open_virtual_disk_folder: what was ejected    *)
(* when it was probed is retired.                                          *)
Status(t, id) ==
    /\ disks[id] # None /\ Ejected(id, disks[id])
    /\ cmd[t] = Idle /\ issued < MaxCommands /\ issued' = issued + 1
    /\ cmd' = [cmd EXCEPT ![t] = [op |-> "status", id |-> id, at |-> "claim", n |-> issued',
                                  srv |-> disks[id]]]
    /\ UNCHANGED <<whoVars, disksVars, syncVars, late>>

Eject(id) ==                \* the user, in the Finder
    /\ volume[id] # None /\ volume' = [volume EXCEPT ![id] = None]
    /\ stolen' = stolen \cup {id}
    /\ UNCHANGED <<disks, mounting, running, serves, whoVars, syncVars, cmd, issued, late>>

(* --------------------------- continuous sync ----------------------------- *)
SyncCommand(t, id) ==       \* it looks the session up before it takes the lock
    /\ sessions[id] # None /\ Issue(t, "sync", id, "startLock")
    /\ UNCHANGED <<whoVars, disksVars, syncVars, late>>

StartLock(t) ==             \* a run is replaced; the watch is set up meanwhile
    /\ At(t, "startLock") /\ lock = None /\ lock' = cmd[t].n
    /\ IF guard # None \/ active THEN StopSync
       ELSE UNCHANGED <<cancelled, guard, latest, active, target>>
    /\ Step(t, "watch")
    /\ UNCHANGED <<runs, whoVars, disksVars, issued, late>>

Watch(t) ==
    /\ At(t, "watch") /\ Finish(t) /\ lock' = None
    /\ \/ /\ guard' = cmd[t].n /\ latest' = cmd[t].n /\ active' = TRUE /\ target' = IdOf(t)
          /\ runs' = [runs EXCEPT ![cmd[t].n] = [id |-> IdOf(t), at |-> "on"]]
       \/ UNCHANGED <<guard, latest, active, target, runs>>    \* it could not be set up
    /\ UNCHANGED <<cancelled, whoVars, disksVars, issued, late>>

StopCommand(t) ==
    /\ cmd[t] = Idle /\ issued < MaxCommands /\ issued' = issued + 1
    /\ lock = None /\ StopSync
    /\ UNCHANGED <<cmd, lock, runs, whoVars, disksVars, late>>

(* A run ends when it is told to, or at an event once the session is gone. *)
RunEnds(n) ==
    /\ runs[n].at = "on" /\ (n \in cancelled \/ sessions[runs[n].id] = None)
    /\ runs' = [runs EXCEPT ![n].at = "winding"]
    /\ UNCHANGED <<guard, lock, latest, active, target, cancelled, whoVars, disksVars, cmd, issued, late>>

(* Mutant: a run clears the flag without asking whether it is its own.     *)
RunClearsAny(n) ==
    /\ runs[n].at = "winding" /\ lock = None
    /\ runs' = [runs EXCEPT ![n].at = "over"]
    /\ active' = FALSE
    /\ target' = IF target = runs[n].id THEN "none" ELSE target
    /\ UNCHANGED <<guard, lock, latest, cancelled, whoVars, disksVars, cmd, issued, late>>
RunClears(n) ==
    /\ runs[n].at = "winding" /\ lock = None
    /\ runs' = [runs EXCEPT ![n].at = "over"]
    /\ active' = (active /\ latest # n)
    /\ target' = IF latest = n /\ target = runs[n].id THEN "none" ELSE target
    /\ UNCHANGED <<guard, lock, latest, cancelled, whoVars, disksVars, cmd, issued, late>>

SessionsInit ==
    /\ sessions = [i \in Id |-> None] /\ configs = sessions /\ agents = sessions
    /\ disks = sessions /\ mounting = {} /\ running = {} /\ volume = sessions
    /\ serves = [n \in Number |-> None]
    /\ guard = None /\ lock = None /\ latest = None /\ active = FALSE /\ target = "none"
    /\ runs = [n \in Number |-> NoRun] /\ cancelled = {}
    /\ cmd = [t \in Task |-> Idle] /\ issued = 0
    /\ reused = {} /\ stolen = {} /\ late = {}

SessionsNext ==
    \/ \E t \in Task, id \in Id :
          ConnectSession(t, id) \/ Disconnect(t, id) \/ UnmountDisk(t, id) \/ Mount(t, id)
          \/ Status(t, id) \/ SyncCommand(t, id)
    \/ \E t \in Task :
          \/ PutConfig(t) \/ Register(t) \/ DropConfig(t) \/ Unregister(t)
          \/ StopIfTargets(t) \/ TakeDisk(t) \/ Unmount(t) \/ StopServer(t)
          \/ Claim(t) \/ LookAtDisk(t) \/ TakeOld(t) \/ Start(t) \/ MountInOs(t)
          \/ CheckConnected(t) \/ InsertDisk(t) \/ Release(t)
          \/ StartLock(t) \/ Watch(t) \/ StopCommand(t)
    \/ \E id \in Id : Eject(id)
    \/ \E n \in Number : RunEnds(n) \/ RunClears(n)

SessionsSpec == SessionsInit /\ [][SessionsNext]_sessionVars

(* ------------------------------ Properties ------------------------------ *)
(* When no command is under way an id has a configuration and, for agents, *)
(* a connection exactly while it is connected, all of the same driver -    *)
(* unless it was connected again while its disconnect was under way, whose *)
(* clean-up then takes what belongs to the new session.                    *)
OneSessionOneDriver ==
    Quiet => \A id \in Id \ reused : configs[id] = sessions[id] /\ agents[id] = sessions[id]

(* "so Finder/Explorer never keep a volume that points at a dead port": a  *)
(* mounted volume has its server running.                                  *)
VolumesHaveServers == \A id \in Id : volume[id] # None => volume[id] \in running

(* When no command is under way every server that runs is the disk of its  *)
(* session and its volume is mounted, unless the user ejected it or the    *)
(* unmount of an older server of the session took its folder.              *)
DisksAreMounted ==
    Quiet => /\ running \subseteq {disks[id] : id \in Id}
             /\ \A id \in Id \ stolen : disks[id] = volume[id]

(* "Background work that targets this session stops with it": a disk is    *)
(* one of a session that is connected, and serves its driver - unless the  *)
(* session went after the mount had looked for it, or its id was used      *)
(* again.                                                                  *)
DiskOfLiveSession ==
    Quiet => \A id \in Id \ (late \cup reused) :
        disks[id] # None => sessions[id] # None /\ serves[disks[id]] = sessions[id]

(* Continuous sync is reported as active exactly while a run is: a run     *)
(* that winds down clears no flag of a newer one.                          *)
ActiveIsRunning ==
    lock = None =>
        /\ active => runs[latest].at \in {"on", "winding"} /\ target = runs[latest].id
        /\ ~active => target = "none" /\ \A n \in Number : runs[n].at = "on" => n \in cancelled

(* Whatever is mounted, served and listed is one disk of a live session:   *)
(* the three above (mount_virtual_disk, unmount, disconnect_session).      *)
DisksAreServed == VolumesHaveServers /\ DisksAreMounted /\ DiskOfLiveSession

(* All of that: an id is one driver to everybody, the disks are served, and *)
(* the report of continuous sync is true (connect_session,                  *)
(* disconnect_session, mount_virtual_disk, start_continuous_sync).          *)
SessionsAreSound == OneSessionOneDriver /\ DisksAreServed /\ ActiveIsRunning
=============================================================================
