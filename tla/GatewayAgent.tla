---------------------------- MODULE GatewayAgent ----------------------------
(***************************************************************************)
(* The v2 gateway agent (agent/gateway_agent.py and the modules it calls). *)
(*                                                                         *)
(* Every command line call of the agent, the systemd daemon and every      *)
(* request of the unlock server is a process of its own.  They share, with *)
(* no lock, three files of the private runtime directory (session.json,    *)
(* unlock-token.json, state/runtime-children.json), the local encrypted    *)
(* profile and the process table of the host.  A file is replaced or       *)
(* unlinked atomically (os.replace, unlink), so one action of this module  *)
(* is one access of a process to one of those shared objects.              *)
(*                                                                         *)
(* Data abstraction: a session manifest is "lan" when it has a lanProxy    *)
(* listener and "local" otherwise, "legacyLan" and "legacy" when it is one *)
(* without this version and a session id; a token is "fresh" or "expired"; *)
(* the child state file always lists one child, so it is that child's pid. *)
(***************************************************************************)
EXTENDS Naturals, FiniteSets

CONSTANTS
    Agents,     \* processes that run agent commands
    Commands,   \* Commands[a]: the commands process a may be asked to run
    Pids,       \* process ids the host may give to a child
    NoPid,      \* "no process id": an absent child state file
    UsbConfigured, \* is a recovery medium configured (--usb-root or environment)?
    UsbProfile, \* does that medium hold profile/profile.json.enc?
    PidReuse,   \* may the host give a child's old pid to another process?
    MaxCrashes  \* bound: how many commands may be cut short

CommandNames ==
    {"start", "stop", "runtimeStart", "unlock", "unlockServer", "lock",
     "status", "watchdog", "import", "uninstall"}

ASSUME AgentAssumption ==
    /\ NoPid \notin Pids
    /\ Commands \in [Agents -> SUBSET CommandNames]
    /\ UsbConfigured \in BOOLEAN /\ UsbProfile \in BOOLEAN /\ PidReuse \in BOOLEAN
    /\ MaxCrashes \in Nat

VARIABLES
    \* files
    session,    \* session.json
    token,      \* unlock-token.json
    childFile,  \* state/runtime-children.json
    local,      \* is the local profile.json.enc present with a valid envelope?
    \* the host
    procs,      \* process table, restricted to Pids
    usb,        \* what detect_usb finds
    \* processes
    pc,         \* next step of each process
    cmd,        \* command each process runs, "none" when it is not running
    pid,        \* pid read by stop_runtime, or returned by spawn
    saw,        \* what the watchdog of the process has observed
    crashes,    \* number of commands cut short
    \* history, read by properties only
    raced,      \* has a runtime-start overlapped another stop_runtime?
    dropped,    \* has a start removed a legacy manifest under a recorded child?
    leaked,     \* children a failed signal or a cut short start left behind
    settled     \* stops that no creating command has overlapped

files  == <<session, token, childFile, local>>
host   == <<procs, usb>>
locals == <<pc, cmd, pid, saw, settled>>
vars   == <<session, token, childFile, local, procs, usb, pc, cmd, pid, saw,
            crashes, raced, dropped, leaked, settled>>

(***************************************************************************)
(* What the files and the host may hold.                                   *)
(***************************************************************************)
SessionValues == {"absent", "unparsable", "legacy", "legacyLan", "local", "lan"}
TokenValues   == {"absent", "fresh", "expired"}

\* "run" and "term" are LAN proxy children (term: SIGTERM sent, not yet
\* exited); "foreign" is an unrelated process that was given the pid.
ProcValues    == {"free", "run", "term", "foreign"}

\* "bad": missing, manifest_missing or manifest_invalid, which no caller
\* tells apart.
UsbValues     == {"not_configured", "bad", "untrusted", "trusted"}

PcValues ==
    {"idle", "ss_read", "ss_remove", "ss_write", "sr_read", "sr_kill",
     "sr_unlink", "rm_session", "rm_token", "bs_token", "bs_remove",
     "rs_session", "rs_spawn", "rs_write", "un_local", "un_usb", "un_write",
     "wd_session", "wd_runtime", "wd_profile", "im_write", "ui_config",
     "ui_runtime"}

\* read_session() returns a manifest (None for a missing or unparsable file)
HasSession == session \in {"legacy", "legacyLan", "local", "lan"}

\* It has a valid lanProxy listener; build_runtime_plan looks at nothing else.
HasLanListener == session \in {"legacyLan", "lan"}

\* detect_usb()["state"] in {missing, manifest_missing, manifest_invalid,
\* untrusted}
UsbBad == usb \in {"bad", "untrusted"}

\* profile_source_status()["present"]
ProfilePresent == local \/ (UsbProfile /\ usb \in {"trusted", "untrusted"})

\* Mutant: an error of the probe counts as "running".
PidIsRunning_Always(p) == TRUE

\* _pid_is_running(p): signal 0 reaches any process with that pid
PidIsRunning(p) == procs[p] # "free"

RuntimeState ==
    IF childFile = NoPid THEN "stopped"
    ELSE IF PidIsRunning(childFile) THEN "running" ELSE "stale"

----------------------------------------------------------------------------
(* Helpers *)

\* Commands that write a session, a token or a child.
Creating == {"start", "runtimeStart", "unlock", "unlockServer"}

Busy(a) == pc[a] # "idle"

At(a, label) == pc[a] = label

\* Process a is a runtime-start that has spawned p and not yet recorded it.
Starting(a, p) == At(a, "rs_write") /\ pid[a] = p

\* Process a sits between stop_runtime's read of the child state file and the
\* last write it will make to that file.
InSection(a) ==
    \/ pc[a] \in {"sr_kill", "sr_unlink", "rs_spawn", "rs_write"}
    \/ /\ cmd[a] = "uninstall"
       /\ pc[a] \in {"rm_session", "rm_token", "ui_config", "ui_runtime"}

Racing == \E a, b \in Agents :
    a # b /\ cmd[a] = "runtimeStart" /\ InSection(a) /\ InSection(b)

Move(a, label) == pc' = [pc EXCEPT ![a] = label]

\* The next step of the command of a; nothing else of a changes.
Goto(a, label) == Move(a, label) /\ UNCHANGED <<cmd, pid, saw, settled>>

\* The command of a returns and its process ends.
Finish(a) ==
    /\ Move(a, "idle")
    /\ cmd' = [cmd EXCEPT ![a] = "none"]
    /\ pid' = [pid EXCEPT ![a] = NoPid]
    /\ saw' = [saw EXCEPT ![a] = {}]
    /\ settled' = settled \ {a}

Then(a, label) == IF label = "idle" THEN Finish(a) ELSE Goto(a, label)

\* Process a is asked to run command c.
Begin(a, c, label) ==
    /\ pc[a] = "idle"
    /\ c \in Commands[a]
    /\ cmd' = [cmd EXCEPT ![a] = c]
    /\ Move(a, label)

\* A creating command starts: no stop that is under way is undisturbed.
Disturb == settled' = {}

\* Process a enters stop_session.
Settle(a) == settled' =
    IF \A b \in Agents \ {a} : Busy(b) => cmd[b] \notin Creating
    THEN settled \cup {a} ELSE settled \ {a}

----------------------------------------------------------------------------
(* start: start_session *)

\* The feature flag is off or no port can be allocated: only build_status.
StartRefused(a) ==
    /\ Begin(a, "start", "bs_token")
    /\ Disturb
    /\ UNCHANGED <<files, host, pid, saw, crashes, leaked>>

BeginStart(a) ==
    /\ Begin(a, "start", "ss_read")
    /\ Disturb
    /\ UNCHANGED <<files, host, pid, saw, crashes, leaked>>

\* cleanup_stale_session, its read: an absent or unparsable file and a
\* manifest of another version are removed, a valid one is left in place.
CleanupRead(a) ==
    /\ At(a, "ss_read")
    /\ Goto(a, IF session \in {"local", "lan"} THEN "ss_write" ELSE "ss_remove")
    /\ UNCHANGED <<files, host, crashes, leaked>>

CleanupRemove(a) ==
    /\ At(a, "ss_remove")
    /\ session' = "absent"
    /\ Goto(a, "ss_write")
    /\ UNCHANGED <<token, childFile, local, host, crashes, leaked>>

\* write_session replaces whatever manifest is there.
WriteSession(a) ==
    /\ At(a, "ss_write")
    /\ session' \in {"local", "lan"}
    /\ Goto(a, "bs_token")
    /\ UNCHANGED <<token, childFile, local, host, crashes, leaked>>

----------------------------------------------------------------------------
(* stop and lock: stop_session; uninstall --apply *)

BeginStop(a) ==
    /\ \/ Begin(a, "stop", "sr_read")
       \/ Begin(a, "uninstall", "sr_read")
    /\ Settle(a)
    /\ UNCHANGED <<files, host, pid, saw, crashes, leaked>>

\* stop_runtime, its read of the child state file.
StopRead(a) ==
    /\ At(a, "sr_read")
    /\ pid' = [pid EXCEPT ![a] = childFile]
    /\ Move(a, "sr_kill")
    /\ UNCHANGED <<files, host, cmd, saw, crashes, leaked, settled>>

\* _terminate_pid: SIGTERM, no such process, or an error that is collected.
\* A foreign process is signalled when it leads a process group of ours.
Terminate(p) ==
    \/ /\ procs[p] = "free"
       /\ UNCHANGED <<procs, leaked>>
    \/ /\ procs[p] \in {"run", "term"}
       /\ procs' = [procs EXCEPT ![p] = "term"]
       /\ UNCHANGED leaked
    \/ /\ procs[p] = "run"
       /\ leaked' = leaked \cup {p}
       /\ UNCHANGED procs
    \/ /\ procs[p] = "foreign"
       /\ procs' \in {procs, [procs EXCEPT ![p] = "free"]}
       /\ UNCHANGED leaked

\* Mutant: the children are only forgotten, not signalled.
StopKill_NoSignal(a) ==
    /\ At(a, "sr_kill")
    /\ Goto(a, "sr_unlink")
    /\ UNCHANGED <<files, host, crashes, leaked>>

StopKill(a) ==
    /\ At(a, "sr_kill")
    /\ IF pid[a] = NoPid THEN UNCHANGED <<procs, leaked>> ELSE Terminate(pid[a])
    /\ Goto(a, "sr_unlink")
    /\ UNCHANGED <<files, usb, crashes>>

\* The file is unlinked whatever the signals did and whatever it holds now;
\* stop_runtime returns to its caller.
AfterStopRuntime(c) ==
    CASE c = "runtimeStart" -> "rs_spawn"
      [] c = "watchdog"     -> "idle"
      [] OTHER              -> "rm_session"

\* Mutant: the record of a child that could not be signalled is kept.
StopUnlink_KeepsFailed(a) ==
    /\ At(a, "sr_unlink")
    /\ childFile' = IF pid[a] \in leaked THEN childFile ELSE NoPid
    /\ Then(a, AfterStopRuntime(cmd[a]))
    /\ UNCHANGED <<session, token, local, host, crashes, leaked>>

StopUnlink(a) ==
    /\ At(a, "sr_unlink")
    /\ childFile' = NoPid
    /\ Then(a, AfterStopRuntime(cmd[a]))
    /\ UNCHANGED <<session, token, local, host, crashes, leaked>>

\* Mutant: only a manifest of the current version is removed.
RemoveSession_OnlyValid(a) ==
    /\ At(a, "rm_session")
    /\ session' = IF session \in {"local", "lan"} THEN "absent" ELSE session
    /\ Goto(a, "rm_token")
    /\ UNCHANGED <<token, childFile, local, host, crashes, leaked>>

RemoveSession(a) ==
    /\ At(a, "rm_session")
    /\ session' = "absent"
    /\ Goto(a, "rm_token")
    /\ UNCHANGED <<token, childFile, local, host, crashes, leaked>>

\* unlock_server.lock; stop_session goes on with build_status.
AfterRemoveToken(c) ==
    CASE c = "stop"      -> "bs_token"
      [] c = "uninstall" -> "ui_config"
      [] OTHER           -> "idle"

RemoveToken(a) ==
    /\ At(a, "rm_token")
    /\ token' = "absent"
    /\ Then(a, AfterRemoveToken(cmd[a]))
    /\ UNCHANGED <<session, childFile, local, host, crashes, leaked>>

\* uninstall_control_layer removes the configuration directory ...
UninstallConfig(a) ==
    /\ At(a, "ui_config")
    /\ local' = FALSE
    /\ Goto(a, "ui_runtime")
    /\ UNCHANGED <<session, token, childFile, host, crashes, leaked>>

\* ... and then the runtime directory with everything in it.
UninstallRuntime(a) ==
    /\ At(a, "ui_runtime")
    /\ session' = "absent" /\ token' = "absent" /\ childFile' = NoPid
    /\ Finish(a)
    /\ UNCHANGED <<local, host, crashes, leaked>>

----------------------------------------------------------------------------
(* runtime-start: runtime_start_command *)

\* A profile source is present and decrypts.
BeginRuntimeStart(a) ==
    /\ ProfilePresent
    /\ Begin(a, "runtimeStart", "rs_session")
    /\ Disturb
    /\ UNCHANGED <<files, host, pid, saw, crashes, leaked>>

\* Mutant: the child is spawned without stopping the recorded one.
PlanRuntime_NoStop(a) ==
    /\ At(a, "rs_session")
    /\ \/ HasLanListener /\ Goto(a, "rs_spawn")
       \/ Finish(a)
    /\ UNCHANGED <<files, host, crashes, leaked>>

\* Mutant: the manifest is not looked at.
PlanRuntime_NoSession(a) ==
    /\ At(a, "rs_session")
    /\ \/ Goto(a, "sr_read")
       \/ Finish(a)
    /\ UNCHANGED <<files, host, crashes, leaked>>

\* build_runtime_plan(read_session()): without --allow-child or without a
\* lanProxy listener the start is blocked.  Any manifest will do, be it one
\* that cleanup_stale_session takes for stale.
PlanRuntime(a) ==
    /\ At(a, "rs_session")
    /\ \/ HasLanListener /\ Goto(a, "sr_read")
       \/ Finish(a)
    /\ UNCHANGED <<files, host, crashes, leaked>>

\* After stop_runtime: spawn a child, or report the OSError.
Spawn(a) ==
    /\ At(a, "rs_spawn")
    /\ \/ \E p \in Pids :
             /\ procs[p] = "free"
             /\ procs' = [procs EXCEPT ![p] = "run"]
             /\ pid' = [pid EXCEPT ![a] = p]
             /\ Move(a, "rs_write")
             /\ UNCHANGED <<cmd, saw, settled>>
       \/ Finish(a) /\ UNCHANGED procs
    /\ UNCHANGED <<files, usb, crashes, leaked>>

WriteChildState(a) ==
    /\ At(a, "rs_write")
    /\ childFile' = pid[a]
    /\ Finish(a)
    /\ UNCHANGED <<session, token, local, host, crashes, leaked>>

----------------------------------------------------------------------------
(* unlock, unlock-server, /api/lock, status *)

\* main's "unlock": a local profile source selects unlock_local_profile.
BeginUnlock(a) ==
    /\ \/ Begin(a, "unlock", IF local THEN "un_local" ELSE "un_usb")
       \/ Begin(a, "unlockServer", "un_usb")
    /\ Disturb
    /\ UNCHANGED <<files, host, pid, saw, crashes, leaked>>

\* unlock_local_profile looks the source up again; unlock wants a trusted
\* medium with a profile.  A wrong passphrase blocks both.
CheckUnlock(a) ==
    /\ \/ At(a, "un_local") /\ ProfilePresent /\ Goto(a, "un_write")
       \/ At(a, "un_usb") /\ usb = "trusted" /\ UsbProfile /\ Goto(a, "un_write")
       \/ pc[a] \in {"un_local", "un_usb"} /\ Finish(a)
    /\ UNCHANGED <<files, host, crashes, leaked>>

WriteToken(a) ==
    /\ At(a, "un_write")
    /\ token' = "fresh"
    /\ Finish(a)
    /\ UNCHANGED <<session, childFile, local, host, crashes, leaked>>

BeginLock(a) ==
    /\ Begin(a, "lock", "rm_token")
    /\ UNCHANGED <<files, host, pid, saw, crashes, leaked, settled>>

BeginStatus(a) ==
    /\ Begin(a, "status", "bs_token")
    /\ UNCHANGED <<files, host, pid, saw, crashes, leaked, settled>>

\* unlock_status, called by build_status: an expired token is to be removed.
StatusToken(a) ==
    /\ At(a, "bs_token")
    /\ Then(a, IF token = "expired" THEN "bs_remove" ELSE "idle")
    /\ UNCHANGED <<files, host, crashes, leaked>>

\* remove_token unlinks whatever token the file holds by now.
StatusRemoveToken(a) ==
    /\ At(a, "bs_remove")
    /\ token' = "absent"
    /\ Finish(a)
    /\ UNCHANGED <<session, childFile, local, host, crashes, leaked>>

----------------------------------------------------------------------------
(* watchdog-once, and each round of the daemon *)

Observe(a, what, holds) ==
    saw' = [saw EXCEPT ![a] = IF holds THEN @ \cup {what} ELSE @ \ {what}]

BeginWatchdog(a) ==
    /\ Begin(a, "watchdog", "wd_session")
    /\ Observe(a, "usb_bad", UsbBad)
    /\ UNCHANGED <<files, host, pid, crashes, leaked, settled>>

WatchSession(a) ==
    /\ At(a, "wd_session")
    /\ Observe(a, "session", HasSession)
    /\ Move(a, "wd_runtime")
    /\ UNCHANGED <<files, host, cmd, pid, crashes, leaked, settled>>

\* The watchdog calls stop_session.
WatchStop(a) ==
    /\ cmd' = [cmd EXCEPT ![a] = "stop"]
    /\ saw' = [saw EXCEPT ![a] = {}]
    /\ Move(a, "sr_read")
    /\ Settle(a)
    /\ UNCHANGED pid

\* Mutant: stale children are looked for before the recovery medium.
WatchRuntime_StaleFirst(a) ==
    /\ At(a, "wd_runtime")
    /\ \/ /\ RuntimeState # "stale"
          /\ {"session", "usb_bad"} \subseteq saw[a]
          /\ WatchStop(a)
       \/ /\ RuntimeState = "stale" \/ ~({"session", "usb_bad"} \subseteq saw[a])
          /\ Observe(a, "running", RuntimeState = "running")
          /\ Move(a, IF RuntimeState = "stale" THEN "sr_read" ELSE "wd_profile")
          /\ UNCHANGED <<cmd, pid, settled>>
    /\ UNCHANGED <<files, host, crashes, leaked>>

\* runtime_status, then the decisions that need no further observation.
WatchRuntime(a) ==
    /\ At(a, "wd_runtime")
    /\ \/ /\ {"session", "usb_bad"} \subseteq saw[a]
          /\ WatchStop(a)
       \/ /\ ~({"session", "usb_bad"} \subseteq saw[a])
          /\ Observe(a, "running", RuntimeState = "running")
          /\ Move(a, IF RuntimeState = "stale" THEN "sr_read" ELSE "wd_profile")
          /\ UNCHANGED <<cmd, pid, settled>>
    /\ UNCHANGED <<files, host, crashes, leaked>>

\* Mutant: a configured recovery medium is taken for a profile source.
WatchProfile_TrustsMedium(a) ==
    /\ At(a, "wd_profile")
    /\ \/ /\ {"session", "running"} \subseteq saw[a]
          /\ ~ProfilePresent /\ ~UsbConfigured
          /\ WatchStop(a)
       \/ /\ \/ ~({"session", "running"} \subseteq saw[a])
             \/ ProfilePresent \/ UsbConfigured
          /\ Finish(a)
    /\ UNCHANGED <<files, host, crashes, leaked>>

WatchProfile(a) ==
    /\ At(a, "wd_profile")
    /\ \/ /\ {"session", "running"} \subseteq saw[a] /\ ~ProfilePresent
          /\ WatchStop(a)
       \/ /\ ~({"session", "running"} \subseteq saw[a]) \/ ProfilePresent
          /\ Finish(a)
    /\ UNCHANGED <<files, host, crashes, leaked>>

----------------------------------------------------------------------------
(* profile-import: copy_encrypted_profile truncates the target in place *)

BeginImport(a) ==
    /\ Begin(a, "import", "im_write")
    /\ local' = FALSE
    /\ UNCHANGED <<session, token, childFile, host, pid, saw, crashes, leaked,
                   settled>>

ImportWrite(a) ==
    /\ At(a, "im_write")
    /\ local' = TRUE
    /\ Finish(a)
    /\ UNCHANGED <<session, token, childFile, host, crashes, leaked>>

----------------------------------------------------------------------------
(* Failures and the environment *)

\* A process is killed, or an uncaught OSError ends it, between two steps.
Crash(a) ==
    /\ Busy(a)
    /\ crashes < MaxCrashes
    /\ crashes' = crashes + 1
    /\ Finish(a)
    /\ leaked' = leaked \cup {p \in Pids : Starting(a, p) /\ procs[p] = "run"}
    /\ UNCHANGED <<files, host>>

\* A child exits: it could not bind its port, failed, or obeys SIGTERM.
ChildExits(p) ==
    /\ procs[p] \in {"run", "term"}
    /\ procs' = [procs EXCEPT ![p] = "free"]
    /\ leaked' = leaked \ {p}
    /\ UNCHANGED <<files, usb, locals, crashes>>

\* The host gives a free pid to an unrelated process, which later exits.
ForeignProcess(p) ==
    /\ PidReuse
    /\ \/ procs[p] = "free" /\ procs' = [procs EXCEPT ![p] = "foreign"]
       \/ procs[p] = "foreign" /\ procs' = [procs EXCEPT ![p] = "free"]
    /\ UNCHANGED <<files, usb, locals, crashes, leaked>>

\* The recovery medium is plugged in, pulled out or rewritten.
UsbChange ==
    /\ usb # "not_configured"
    /\ usb' \in UsbValues \ {"not_configured", usb}
    /\ UNCHANGED <<files, procs, locals, crashes, leaked>>

\* The operator deletes the local profile.
ProfileDeleted ==
    /\ local
    /\ local' = FALSE
    /\ UNCHANGED <<session, token, childFile, host, locals, crashes, leaked>>

\* TOKEN_TTL_SECONDS pass.
TokenExpires ==
    /\ token = "fresh"
    /\ token' = "expired"
    /\ UNCHANGED <<session, childFile, local, host, locals, crashes, leaked>>

----------------------------------------------------------------------------
Init ==
    /\ session \in {"absent", "unparsable", "legacy", "legacyLan"}
    /\ token = "absent"
    /\ childFile = NoPid
    /\ local \in BOOLEAN
    /\ procs = [p \in Pids |-> "free"]
    /\ usb = IF UsbConfigured THEN "trusted" ELSE "not_configured"
    /\ pc = [a \in Agents |-> "idle"]
    /\ cmd = [a \in Agents |-> "none"]
    /\ pid = [a \in Agents |-> NoPid]
    /\ saw = [a \in Agents |-> {}]
    /\ crashes = 0
    /\ raced = FALSE
    /\ dropped = FALSE
    /\ leaked = {}
    /\ settled = {}

\* Steps that continue a command already begun.
Continue(a) ==
    \/ CleanupRead(a) \/ CleanupRemove(a) \/ WriteSession(a)
    \/ StopRead(a) \/ StopKill(a) \/ StopUnlink(a)
    \/ RemoveSession(a) \/ RemoveToken(a)
    \/ UninstallConfig(a) \/ UninstallRuntime(a)
    \/ PlanRuntime(a) \/ Spawn(a) \/ WriteChildState(a)
    \/ CheckUnlock(a) \/ WriteToken(a)
    \/ StatusToken(a) \/ StatusRemoveToken(a)
    \/ WatchSession(a) \/ WatchRuntime(a) \/ WatchProfile(a)
    \/ ImportWrite(a)

BeginAny(a) ==
    \/ StartRefused(a) \/ BeginStart(a) \/ BeginStop(a)
    \/ BeginRuntimeStart(a) \/ BeginUnlock(a) \/ BeginLock(a)
    \/ BeginStatus(a) \/ BeginWatchdog(a) \/ BeginImport(a)

Environment ==
    \/ \E p \in Pids : ChildExits(p) \/ ForeignProcess(p)
    \/ UsbChange \/ ProfileDeleted \/ TokenExpires

\* A start removes a legacy manifest with a lanProxy listener.
Dropping == session = "legacyLan" /\ \E a \in Agents : At(a, "ss_remove") /\ pc'[a] = "ss_write"

\* What every step adds to the history: a race, and whether the recorded child
\* has lost its manifest to a start.
History ==
    /\ raced' = (raced \/ Racing')
    /\ dropped' = (childFile' # NoPid /\ ~HasSession' /\ (dropped \/ Dropping))

Next ==
    /\ \/ \E a \in Agents : BeginAny(a) \/ Continue(a) \/ Crash(a)
       \/ Environment
    /\ History

Spec == Init /\ [][Next]_vars

\* The scheduler runs every command that was begun, the daemon starts a round
\* again and again (daemon_loop never returns), and a signalled child exits.
Step(A) == A /\ History

Fairness ==
    /\ \A a \in Agents : WF_vars(Step(Continue(a)))
    /\ \A a \in {b \in Agents : "watchdog" \in Commands[b]} :
          WF_vars(Step(BeginWatchdog(a)))
    /\ \A p \in Pids : WF_vars(Step(procs[p] = "term" /\ ChildExits(p)))

FairSpec == Spec /\ Fairness

----------------------------------------------------------------------------
(* Properties *)

TypeOK ==
    /\ session \in SessionValues
    /\ token \in TokenValues
    /\ childFile \in Pids \cup {NoPid}
    /\ local \in BOOLEAN
    /\ procs \in [Pids -> ProcValues]
    /\ usb \in UsbValues
    /\ pc \in [Agents -> PcValues]
    /\ cmd \in [Agents -> CommandNames \cup {"none"}]
    /\ pid \in [Agents -> Pids \cup {NoPid}]
    /\ saw \in [Agents -> SUBSET {"usb_bad", "session", "running"}]
    /\ crashes \in 0..MaxCrashes
    /\ raced \in BOOLEAN /\ dropped \in BOOLEAN
    /\ leaked \subseteq Pids
    /\ settled \subseteq Agents

\* Every child that runs is recorded, about to be, or known to be left behind.
Recorded == \A p \in Pids : procs[p] = "run" =>
    p = childFile \/ p \in leaked \/ \E a \in Agents : Starting(a, p)

\* As long as no runtime-start overlapped another stop_runtime, every LAN
\* proxy child that runs is recorded in runtime-children.json or about to be,
\* however start, stop, watchdog, unlock and status interleave, except one
\* that a failed signal or a start cut short before its write left behind.
NoOrphan == ~raced => Recorded

\* Under the same condition there are never two LAN proxy children at once
\* (start_runtime stops the recorded one before it spawns another).
AtMostOneChild ==
    ~raced => \A p, q \in Pids \ leaked :
        procs[p] = "run" /\ procs[q] = "run" => p = q

\* A stop_session (stop, lock or the watchdog) that no start, runtime-start or
\* unlock overlapped has removed the manifest, the token and the child record
\* when it comes to build its status, and no child it could signal still
\* serves, whatever other stops, watchdogs and status calls ran meanwhile.
StopSettles ==
    \A a \in settled : cmd[a] = "stop" /\ pc[a] \in {"bs_token", "bs_remove"} =>
        /\ session = "absent" /\ token = "absent" /\ childFile = NoPid
        /\ ~raced => \A p \in Pids : procs[p] = "run" => p \in leaked

(***************************************************************************)
(* The inductive invariant behind NoOrphan, AtMostOneChild and StopSettles *)
(***************************************************************************)

\* Which command may be at which step.
StepOfCommand == \A a \in Agents :
    /\ pc[a] = "idle" <=> cmd[a] = "none"
    /\ pc[a] \in {"ss_read", "ss_remove", "ss_write"} => cmd[a] = "start"
    /\ pc[a] \in {"rs_session", "rs_spawn", "rs_write"} => cmd[a] = "runtimeStart"
    /\ pc[a] \in {"un_local", "un_usb", "un_write"} => cmd[a] \in {"unlock", "unlockServer"}
    /\ pc[a] \in {"sr_read", "sr_kill", "sr_unlink"} =>
          cmd[a] \in {"stop", "uninstall", "runtimeStart", "watchdog"}
    /\ pc[a] = "rm_session" => cmd[a] \in {"stop", "uninstall"}
    /\ pc[a] = "rm_token" => cmd[a] \in {"stop", "uninstall", "lock"}
    /\ pc[a] \in {"ui_config", "ui_runtime"} => cmd[a] = "uninstall"
    /\ pc[a] \in {"wd_session", "wd_runtime", "wd_profile"} => cmd[a] = "watchdog"

\* The child state file holds what a process inside stop_runtime read, or
\* nothing; nothing once that process has unlinked it.
SectionOwnsRecord == \A a \in Agents : InSection(a) =>
    childFile \in IF pc[a] \in {"sr_kill", "sr_unlink"} THEN {NoPid, pid[a]} ELSE {NoPid}

\* The child a process is about to forget has been signalled, or cannot be.
SignalledBeforeUnlink == \A a \in Agents :
    pc[a] = "sr_unlink" /\ pid[a] # NoPid /\ procs[pid[a]] = "run" => pid[a] \in leaked

\* What an undisturbed stop has removed so far stays removed.
SettledStops == \A a \in settled :
    /\ cmd[a] \in {"stop", "uninstall"}
    /\ \A b \in Agents : cmd[b] \notin Creating
    /\ pc[a] \in {"rm_session", "rm_token", "bs_token", "bs_remove"} => childFile = NoPid
    /\ pc[a] \in {"rm_token", "bs_token", "bs_remove"} => session = "absent"
    /\ pc[a] \in {"bs_token", "bs_remove"} => token = "absent"

IInv ==
    /\ TypeOK
    /\ StepOfCommand
    /\ SettledStops
    /\ ~raced => /\ ~Racing
                 /\ SectionOwnsRecord
                 /\ SignalledBeforeUnlink
    /\ NoOrphan

----------------------------------------------------------------------------
\* With one process at a time a child record outlives its manifest only where a
\* start has removed a legacy manifest under it: stop_session stops the children
\* before it removes session.json, runtime-start needs a manifest, and start
\* leaves one that is valid in place, also when a command is cut short.
ManifestOutlivesChild ==
    childFile # NoPid => HasSession \/ dropped

\* One process runs all the commands, one after the other.
OneProcess == \A a, b \in Agents : a = b

\* Why it does: a runtime-start goes on with the manifest it has seen, and what
\* removes the manifest has stopped the children, found none or a legacy one.
ManifestInv ==
    /\ ManifestOutlivesChild
    /\ childFile # NoPid => session # "legacy"
    /\ dropped => childFile # NoPid /\ ~HasSession
    /\ \A a \in Agents :
        /\ cmd[a] = "runtimeStart" /\ pc[a] # "rs_session" => HasLanListener
        /\ pc[a] = "ss_remove" => session \notin {"local", "lan"}
        /\ pc[a] = "rm_session" => childFile = NoPid
        /\ cmd[a] = "uninstall" /\ pc[a] \in {"rm_token", "ui_config", "ui_runtime"} =>
              childFile = NoPid

\* A removed or untrusted recovery medium locks the session: the daemon
\* removes the manifest unless the medium comes back first.
UsbRemovalLocks == UsbBad ~> (~UsbBad \/ ~HasSession)

\* A record of a child that is gone is cleaned up by the watchdog, unless the
\* pid is given to another process first.
StaleRecordCleaned == \A p \in Pids :
    (childFile = p /\ procs[p] = "free") ~> (childFile # p \/ procs[p] # "free")

\* A session whose child runs is locked once its profile source is lost.
ProfileLossLocks ==
    (~ProfilePresent /\ HasSession /\ RuntimeState = "running")
        ~> (ProfilePresent \/ ~HasSession \/ RuntimeState # "running")

----------------------------------------------------------------------------
(* What build_status reports, as an implementation of GatewayLifecycle *)

StatusState ==
    IF RuntimeState = "running" THEN "running"
    ELSE IF HasSession THEN "manifest_ready" ELSE "locked"

Lifecycle == INSTANCE GatewayLifecycle WITH state <- StatusState, dropped <- dropped

\* With one process at a time the reported state follows the life cycle.
LifecycleSpec == Lifecycle!Spec
=============================================================================
