------------------------- MODULE GatewayAgentProofs -------------------------
(***************************************************************************)
(* Proofs about GatewayAgent for any number of processes, any commands,    *)
(* any pids and any number of commands cut short.                          *)
(***************************************************************************)
EXTENDS GatewayAgent, TLAPS

\* The step relation of a process without the history it adds to.
AgentStep(a) == BeginAny(a) \/ Continue(a) \/ Crash(a)

\* Every step is a step of a process or of the environment, and adds to the
\* history.
LEMMA NextCases ==
    ASSUME Next
    PROVE  /\ (\E a \in Agents : AgentStep(a)) \/ Environment
           /\ raced' = (raced \/ Racing')
           /\ History
BY DEF Next, AgentStep, History

-----------------------------------------------------------------------------
(* Types *)

\* Begin, Goto and Finish keep the types of what they change.
LEMMA BeginType ==
    ASSUME TypeOK, NEW a \in Agents, NEW c \in CommandNames, NEW l \in PcValues,
           Begin(a, c, l)
    PROVE  /\ pc' \in [Agents -> PcValues]
           /\ cmd' \in [Agents -> CommandNames \cup {"none"}]
BY DEF Begin, Move, TypeOK

LEMMA GotoType ==
    ASSUME TypeOK, NEW a \in Agents, NEW l \in PcValues, Goto(a, l)
    PROVE  /\ pc' \in [Agents -> PcValues]
           /\ cmd' \in [Agents -> CommandNames \cup {"none"}]
           /\ pid' \in [Agents -> Pids \cup {NoPid}]
           /\ saw' \in [Agents -> SUBSET {"usb_bad", "session", "running"}]
           /\ settled' \subseteq Agents
BY DEF Goto, Move, TypeOK

LEMMA FinishType ==
    ASSUME TypeOK, NEW a \in Agents, Finish(a)
    PROVE  /\ pc' \in [Agents -> PcValues]
           /\ cmd' \in [Agents -> CommandNames \cup {"none"}]
           /\ pid' \in [Agents -> Pids \cup {NoPid}]
           /\ saw' \in [Agents -> SUBSET {"usb_bad", "session", "running"}]
           /\ settled' \subseteq Agents
BY DEF Finish, Move, TypeOK, PcValues

LEMMA ThenType ==
    ASSUME TypeOK, NEW a \in Agents, NEW l \in PcValues, Then(a, l)
    PROVE  /\ pc' \in [Agents -> PcValues]
           /\ cmd' \in [Agents -> CommandNames \cup {"none"}]
           /\ pid' \in [Agents -> Pids \cup {NoPid}]
           /\ saw' \in [Agents -> SUBSET {"usb_bad", "session", "running"}]
           /\ settled' \subseteq Agents
BY GotoType, FinishType DEF Then

LEMMA SettleType ==
    ASSUME TypeOK, NEW a \in Agents, Settle(a) PROVE settled' \subseteq Agents
BY DEF Settle, TypeOK

\* Every command a process may begin keeps TypeOK.
LEMMA BeginAnyType ==
    ASSUME TypeOK, NEW a \in Agents, BeginAny(a),
           raced' \in BOOLEAN, dropped' \in BOOLEAN
    PROVE  TypeOK'
<1>1. CASE StartRefused(a)
  BY <1>1, BeginType DEF StartRefused, Disturb, files, host, TypeOK, CommandNames, PcValues
<1>2. CASE BeginStart(a)
  BY <1>2, BeginType DEF BeginStart, Disturb, files, host, TypeOK, CommandNames, PcValues
<1>3. CASE BeginStop(a)
  BY <1>3, BeginType, SettleType DEF BeginStop, files, host, TypeOK, CommandNames, PcValues
<1>4. CASE BeginRuntimeStart(a)
  BY <1>4, BeginType DEF BeginRuntimeStart, Disturb, files, host, TypeOK, CommandNames, PcValues
<1>5. CASE BeginUnlock(a)
  BY <1>5, BeginType DEF BeginUnlock, Disturb, files, host, TypeOK, CommandNames, PcValues
<1>6. CASE BeginLock(a)
  BY <1>6, BeginType DEF BeginLock, files, host, TypeOK, CommandNames, PcValues
<1>7. CASE BeginStatus(a)
  BY <1>7, BeginType DEF BeginStatus, files, host, TypeOK, CommandNames, PcValues
<1>8. CASE BeginWatchdog(a)
  BY <1>8, BeginType DEF BeginWatchdog, Observe, files, host, TypeOK, CommandNames, PcValues
<1>9. CASE BeginImport(a)
  BY <1>9, BeginType DEF BeginImport, files, host, TypeOK, CommandNames, PcValues
<1> QED BY <1>1, <1>2, <1>3, <1>4, <1>5, <1>6, <1>7, <1>8, <1>9 DEF BeginAny

\* Every later step of a command keeps TypeOK.
LEMMA ContinueType ==
    ASSUME TypeOK, NEW a \in Agents, Continue(a),
           raced' \in BOOLEAN, dropped' \in BOOLEAN
    PROVE  TypeOK'
<1>1. CASE CleanupRead(a)
  BY <1>1, GotoType DEF CleanupRead, files, host, TypeOK, PcValues
<1>2. CASE CleanupRemove(a)
  BY <1>2, GotoType DEF CleanupRemove, host, TypeOK, PcValues, SessionValues
<1>3. CASE WriteSession(a)
  BY <1>3, GotoType DEF WriteSession, host, TypeOK, PcValues, SessionValues
<1>4. CASE StopRead(a)
  BY <1>4 DEF StopRead, Move, files, host, TypeOK, PcValues
<1>5. CASE StopKill(a)
  <2>1. pid[a] \in Pids \cup {NoPid}
    BY DEF TypeOK
  <2>2. procs' \in [Pids -> ProcValues] /\ leaked' \subseteq Pids
    <3>1. CASE UNCHANGED <<procs, leaked>>
      BY <3>1 DEF TypeOK
    <3>2. CASE pid[a] \in Pids /\ Terminate(pid[a])
      BY <3>2 DEF Terminate, TypeOK, ProcValues
    <3> QED BY <1>5, <2>1, <3>1, <3>2 DEF StopKill
  <2> QED BY <1>5, <2>2, GotoType DEF StopKill, files, TypeOK, PcValues
<1>6. CASE StopUnlink(a)
  <2>1. AfterStopRuntime(cmd[a]) \in PcValues
    BY DEF AfterStopRuntime, PcValues
  <2> QED BY <1>6, <2>1, ThenType DEF StopUnlink, host, TypeOK
<1>7. CASE RemoveSession(a)
  BY <1>7, GotoType DEF RemoveSession, host, TypeOK, PcValues, SessionValues
<1>8. CASE RemoveToken(a)
  <2>1. AfterRemoveToken(cmd[a]) \in PcValues
    BY DEF AfterRemoveToken, PcValues
  <2> QED BY <1>8, <2>1, ThenType DEF RemoveToken, host, TypeOK, TokenValues
<1>9. CASE UninstallConfig(a)
  BY <1>9, GotoType DEF UninstallConfig, host, TypeOK, PcValues
<1>10. CASE UninstallRuntime(a)
  BY <1>10, FinishType DEF UninstallRuntime, host, TypeOK, SessionValues, TokenValues
<1>11. CASE PlanRuntime(a)
  BY <1>11, GotoType, FinishType DEF PlanRuntime, files, host, TypeOK, PcValues
<1>12. CASE Spawn(a)
  <2>1. CASE Finish(a) /\ UNCHANGED procs
    BY <1>12, <2>1, FinishType DEF Spawn, files, TypeOK
  <2>2. CASE \E p \in Pids :
             /\ procs' = [procs EXCEPT ![p] = "run"]
             /\ pid' = [pid EXCEPT ![a] = p]
             /\ Move(a, "rs_write")
             /\ UNCHANGED <<cmd, saw, settled>>
    BY <1>12, <2>2 DEF Spawn, Move, files, TypeOK, PcValues, ProcValues
  <2> QED BY <1>12, <2>1, <2>2 DEF Spawn
<1>13. CASE WriteChildState(a)
  BY <1>13, FinishType DEF WriteChildState, host, TypeOK
<1>14. CASE CheckUnlock(a)
  BY <1>14, GotoType, FinishType DEF CheckUnlock, files, host, TypeOK, PcValues
<1>15. CASE WriteToken(a)
  BY <1>15, FinishType DEF WriteToken, host, TypeOK, TokenValues
<1>16. CASE StatusToken(a)
  BY <1>16, ThenType DEF StatusToken, files, host, TypeOK, PcValues
<1>17. CASE StatusRemoveToken(a)
  BY <1>17, FinishType DEF StatusRemoveToken, host, TypeOK, TokenValues
<1>18. CASE WatchSession(a)
  BY <1>18 DEF WatchSession, Observe, Move, files, host, TypeOK, PcValues
<1>19. CASE WatchRuntime(a)
  BY <1>19, SettleType DEF WatchRuntime, WatchStop, Observe, Move, files, host, TypeOK,
     PcValues, CommandNames
<1>20. CASE WatchProfile(a)
  BY <1>20, SettleType, FinishType DEF WatchProfile, WatchStop, Move, files, host, TypeOK,
     PcValues, CommandNames
<1>21. CASE ImportWrite(a)
  BY <1>21, FinishType DEF ImportWrite, host, TypeOK
<1> QED
  BY <1>1, <1>2, <1>3, <1>4, <1>5, <1>6, <1>7, <1>8, <1>9, <1>10, <1>11, <1>12,
     <1>13, <1>14, <1>15, <1>16, <1>17, <1>18, <1>19, <1>20, <1>21 DEF Continue

\* So does a step of the environment.
LEMMA EnvironmentType ==
    ASSUME TypeOK, Environment, raced' \in BOOLEAN, dropped' \in BOOLEAN PROVE TypeOK'
<1>1. ASSUME NEW p \in Pids, ChildExits(p) PROVE TypeOK'
  BY <1>1 DEF ChildExits, files, locals, TypeOK, ProcValues
<1>2. ASSUME NEW p \in Pids, ForeignProcess(p) PROVE TypeOK'
  BY <1>2 DEF ForeignProcess, files, locals, TypeOK, ProcValues
<1>3. CASE UsbChange
  BY <1>3 DEF UsbChange, files, locals, TypeOK
<1>4. CASE ProfileDeleted
  BY <1>4 DEF ProfileDeleted, host, locals, TypeOK
<1>5. CASE TokenExpires
  BY <1>5 DEF TokenExpires, host, locals, TypeOK, TokenValues
<1> QED BY <1>1, <1>2, <1>3, <1>4, <1>5 DEF Environment

\* TypeOK is inductive.
LEMMA TypeStep == TypeOK /\ [Next]_vars => TypeOK'
<1> SUFFICES ASSUME TypeOK, [Next]_vars PROVE TypeOK'
  OBVIOUS
<1>1. CASE UNCHANGED vars
  BY <1>1 DEF vars, TypeOK
<1>2. CASE Next
  <2>1. raced' \in BOOLEAN /\ dropped' \in BOOLEAN
    BY <1>2, NextCases DEF Racing, History
  <2>2. ASSUME NEW a \in Agents, Crash(a) PROVE TypeOK'
    <3>1. crashes' \in 0..MaxCrashes
      BY <2>2, AgentAssumption DEF Crash, TypeOK
    <3>2. leaked' \subseteq Pids
      BY <2>2 DEF Crash, TypeOK
    <3> QED BY <2>1, <2>2, <3>1, <3>2, FinishType DEF Crash, files, host, TypeOK
  <2> QED
    BY <1>2, <2>1, <2>2, NextCases, BeginAnyType, ContinueType, EnvironmentType DEF AgentStep
<1> QED BY <1>1, <1>2

LEMMA TypeInit == Init => TypeOK
<1> SUFFICES ASSUME Init PROVE TypeOK
  OBVIOUS
<1>1. session \in SessionValues /\ token \in TokenValues /\ local \in BOOLEAN
  BY DEF Init, SessionValues, TokenValues
<1>2. childFile \in Pids \cup {NoPid} /\ procs \in [Pids -> ProcValues] /\ usb \in UsbValues
  BY DEF Init, ProcValues, UsbValues
<1>3. /\ pc \in [Agents -> PcValues]
      /\ cmd \in [Agents -> CommandNames \cup {"none"}]
      /\ pid \in [Agents -> Pids \cup {NoPid}]
      /\ saw \in [Agents -> SUBSET {"usb_bad", "session", "running"}]
  BY DEF Init, PcValues
<1>4. crashes \in 0..MaxCrashes
  BY AgentAssumption DEF AgentAssumption, Init
<1>5. raced \in BOOLEAN /\ dropped \in BOOLEAN /\ leaked \subseteq Pids /\ settled \subseteq Agents
  BY DEF Init
<1> QED BY <1>1, <1>2, <1>3, <1>4, <1>5 DEF TypeOK

\* Type correctness: every file, process and history variable keeps its type
\* whatever commands run concurrently, crash, or meet a changing host.
THEOREM TypeCorrect == Spec => []TypeOK
BY TypeInit, TypeStep, PTL DEF Spec

-----------------------------------------------------------------------------
(* The inductive invariant *)

\* Which command may be at which step is inductive.
LEMMA CommandStep ==
    ASSUME TypeOK, StepOfCommand, NEW a \in Agents, AgentStep(a)
    PROVE  StepOfCommand'
<1>1. CASE BeginAny(a)
  BY <1>1 DEF BeginAny, StartRefused, BeginStart, BeginStop, BeginRuntimeStart,
     BeginUnlock, BeginLock, BeginStatus, BeginWatchdog, BeginImport, Begin, Move,
     StepOfCommand, TypeOK
<1>2. ASSUME Finish(a) PROVE StepOfCommand'
  BY <1>2 DEF Finish, Move, StepOfCommand, TypeOK
<1>3. CASE Crash(a)
  BY <1>2, <1>3 DEF Crash
<1>4. CASE Continue(a)
  <2>1. CASE CleanupRead(a) \/ CleanupRemove(a) \/ WriteSession(a)
    BY <2>1 DEF CleanupRead, CleanupRemove, WriteSession, At, Goto, Move, StepOfCommand, TypeOK
  <2>2. CASE StopRead(a) \/ StopKill(a)
    BY <2>2 DEF StopRead, StopKill, At, Goto, Move, StepOfCommand, TypeOK
  <2>3. CASE StopUnlink(a)
    BY <1>2, <2>3 DEF StopUnlink, AfterStopRuntime, At, Then, Goto, Move, StepOfCommand, TypeOK
  <2>4. CASE RemoveSession(a) \/ UninstallConfig(a)
    BY <2>4 DEF RemoveSession, UninstallConfig, At, Goto, Move, StepOfCommand, TypeOK
  <2>5. CASE RemoveToken(a)
    BY <1>2, <2>5 DEF RemoveToken, AfterRemoveToken, At, Then, Goto, Move, StepOfCommand, TypeOK
  <2>6. CASE UninstallRuntime(a) \/ WriteChildState(a) \/ WriteToken(a)
             \/ StatusRemoveToken(a) \/ ImportWrite(a)
    BY <1>2, <2>6 DEF UninstallRuntime, WriteChildState, WriteToken, StatusRemoveToken, ImportWrite
  <2>7. CASE PlanRuntime(a)
    BY <1>2, <2>7 DEF PlanRuntime, At, Goto, Move, StepOfCommand, TypeOK
  <2>8. CASE Spawn(a)
    <3>1. CASE Move(a, "rs_write") /\ UNCHANGED cmd
      BY <2>8, <3>1 DEF Spawn, At, Move, StepOfCommand, TypeOK
    <3> QED BY <1>2, <2>8, <3>1 DEF Spawn
  <2>9. CASE CheckUnlock(a)
    BY <1>2, <2>9 DEF CheckUnlock, At, Goto, Move, StepOfCommand, TypeOK
  <2>10. CASE StatusToken(a)
    BY <1>2, <2>10 DEF StatusToken, At, Then, Goto, Move, StepOfCommand, TypeOK
  <2>11. CASE WatchSession(a) \/ WatchRuntime(a)
    BY <2>11 DEF WatchSession, WatchRuntime, WatchStop, At, Move, StepOfCommand, TypeOK
  <2>12. CASE WatchProfile(a)
    BY <1>2, <2>12 DEF WatchProfile, WatchStop, At, Move, StepOfCommand, TypeOK
  <2> QED BY <1>4, <2>1, <2>2, <2>3, <2>4, <2>5, <2>6, <2>7, <2>8, <2>9, <2>10,
             <2>11, <2>12 DEF Continue
<1> QED BY <1>1, <1>3, <1>4 DEF AgentStep

\* An agent step leaves the program counters and commands of the others alone.
LEMMA OthersUnchanged ==
    ASSUME TypeOK, NEW a \in Agents, AgentStep(a), NEW b \in Agents, b # a
    PROVE  pc'[b] = pc[b] /\ cmd'[b] = cmd[b] /\ pid'[b] = pid[b]
<1>1. CASE BeginAny(a)
  BY <1>1 DEF BeginAny, StartRefused, BeginStart, BeginStop, BeginRuntimeStart,
     BeginUnlock, BeginLock, BeginStatus, BeginWatchdog, BeginImport, Begin, Move, TypeOK
<1>2. CASE Crash(a)
  BY <1>2 DEF Crash, Finish, Move, TypeOK
<1>3. CASE Continue(a)
  <2>1. ASSUME NEW l, Goto(a, l) \/ Then(a, l) \/ Finish(a)
        PROVE  pc'[b] = pc[b] /\ cmd'[b] = cmd[b] /\ pid'[b] = pid[b]
    BY <2>1 DEF Then, Goto, Finish, Move, TypeOK
  <2>2. CASE StopRead(a) \/ WatchSession(a) \/ WatchRuntime(a)
    BY <2>2 DEF StopRead, WatchSession, WatchRuntime, WatchStop, Move, TypeOK
  <2>3. CASE Spawn(a)
    BY <2>1, <2>3 DEF Spawn, Move, TypeOK
  <2>4. CASE WatchProfile(a)
    BY <2>1, <2>4 DEF WatchProfile, WatchStop, Move, TypeOK
  <2> QED BY <1>3, <2>1, <2>2, <2>3, <2>4 DEF Continue, CleanupRead, CleanupRemove,
     WriteSession, StopKill, StopUnlink, RemoveSession, RemoveToken, UninstallConfig,
     UninstallRuntime, PlanRuntime, WriteChildState, CheckUnlock, WriteToken, StatusToken,
     StatusRemoveToken, ImportWrite
<1> QED BY <1>1, <1>2, <1>3 DEF AgentStep

\* Every command that creates something disturbs all stops that are under way,
\* and no stop is settled while one runs, so nothing comes back behind it.
LEMMA SettledStep ==
    ASSUME TypeOK, StepOfCommand, SettledStops, NEW a \in Agents, AgentStep(a)
    PROVE  SettledStops'
<1>1. ASSUME Finish(a), session' \in {session, "absent"}, token' \in {token, "absent"},
             childFile' \in {childFile, NoPid}
      PROVE  SettledStops'
  BY <1>1 DEF Finish, Move, SettledStops, Creating, TypeOK
<1>2. ASSUME cmd[a] \in Creating PROVE settled = {}
  BY <1>2 DEF SettledStops, TypeOK
<1>3. CASE BeginAny(a)
  <2>1. CASE StartRefused(a) \/ BeginStart(a) \/ BeginRuntimeStart(a) \/ BeginUnlock(a)
    BY <2>1 DEF StartRefused, BeginStart, BeginRuntimeStart, BeginUnlock, Disturb, SettledStops
  <2>2. CASE BeginStop(a)
    BY <2>2 DEF BeginStop, Begin, Move, Settle, Busy, files, SettledStops, StepOfCommand,
       Creating, TypeOK
  <2>3. CASE BeginLock(a) \/ BeginStatus(a) \/ BeginWatchdog(a) \/ BeginImport(a)
    BY <2>3 DEF BeginLock, BeginStatus, BeginWatchdog, BeginImport, Begin, Move, files,
       SettledStops, StepOfCommand, Creating, TypeOK
  <2> QED BY <1>3, <2>1, <2>2, <2>3 DEF BeginAny
<1>4. CASE Crash(a)
  BY <1>1, <1>4 DEF Crash, files
<1>5. CASE Continue(a)
  <2>1. CASE CleanupRead(a) \/ CleanupRemove(a) \/ WriteSession(a)
    BY <1>2, <2>1 DEF CleanupRead, CleanupRemove, WriteSession, At, Goto, Move, SettledStops,
       StepOfCommand, Creating, TypeOK
  <2>2. CASE StopRead(a) \/ StopKill(a)
    BY <2>2 DEF StopRead, StopKill, At, Goto, Move, files, SettledStops, Creating, TypeOK
  <2>3. CASE StopUnlink(a)
    BY <1>1, <2>3 DEF StopUnlink, AfterStopRuntime, At, Then, Goto, Move, SettledStops, Creating, TypeOK
  <2>4. CASE RemoveSession(a) \/ UninstallConfig(a)
    BY <2>4 DEF RemoveSession, UninstallConfig, At, Goto, Move, SettledStops, Creating, TypeOK
  <2>5. CASE RemoveToken(a)
    BY <1>1, <2>5 DEF RemoveToken, AfterRemoveToken, At, Then, Goto, Move, SettledStops, Creating, TypeOK
  <2>6. CASE UninstallRuntime(a) \/ StatusRemoveToken(a) \/ ImportWrite(a)
    BY <1>1, <2>6 DEF UninstallRuntime, StatusRemoveToken, ImportWrite
  <2>7. CASE WriteChildState(a) \/ WriteToken(a)
    BY <1>2, <2>7 DEF WriteChildState, WriteToken, Finish, At, SettledStops, StepOfCommand, Creating, TypeOK
  <2>8. CASE PlanRuntime(a) \/ Spawn(a) \/ CheckUnlock(a)
    <3>1. cmd[a] \in Creating
      BY <2>8 DEF PlanRuntime, Spawn, CheckUnlock, At, StepOfCommand, Creating
    <3>2. settled' = {}
      BY <1>2, <2>8, <3>1 DEF PlanRuntime, Spawn, CheckUnlock, Goto, Finish
    <3> QED BY <3>2 DEF SettledStops
  <2>9. CASE StatusToken(a)
    BY <1>1, <2>9 DEF StatusToken, At, Then, Goto, Move, files, SettledStops, Creating, TypeOK
  <2>10. CASE WatchSession(a) \/ WatchRuntime(a)
    BY <2>10 DEF WatchSession, WatchRuntime, WatchStop, At, Move, Settle, Busy, files,
       SettledStops, StepOfCommand, Creating, TypeOK
  <2>11. CASE WatchProfile(a)
    BY <1>1, <2>11 DEF WatchProfile, WatchStop, At, Move, Settle, Busy, files,
       SettledStops, StepOfCommand, Creating, TypeOK
  <2> QED BY <1>5, <2>1, <2>2, <2>3, <2>4, <2>5, <2>6, <2>7, <2>8, <2>9, <2>10, <2>11 DEF Continue
<1> QED BY <1>3, <1>4, <1>5 DEF AgentStep

\* What holds of the child record as long as no runtime-start has overlapped
\* another stop_runtime.
RecordInv == SectionOwnsRecord /\ SignalledBeforeUnlink /\ Recorded

\* A step that touches neither the record, the children nor a section keeps it.
LEMMA RecordFrame ==
    ASSUME TypeOK, RecordInv, NEW a \in Agents,
           UNCHANGED <<childFile, procs>>, leaked \subseteq leaked', leaked' \subseteq Pids,
           pc[a] # "rs_write",
           \A b \in Agents : b # a => pc'[b] = pc[b] /\ cmd'[b] = cmd[b] /\ pid'[b] = pid[b],
           pc'[a] \notin {"rs_write", "sr_unlink"},
           ~InSection(a)'
    PROVE  RecordInv'
BY DEF RecordInv, SectionOwnsRecord, SignalledBeforeUnlink, Recorded, Starting, At, InSection, TypeOK

\* A process that enters or goes on with stop_runtime, spawns or records a
\* child keeps it as well, because no runtime-start is in its section.
LEMMA RecordStep ==
    ASSUME TypeOK, TypeOK', StepOfCommand, StepOfCommand', RecordInv, ~Racing, ~Racing',
           NEW a \in Agents, AgentStep(a)
    PROVE  RecordInv'
<1>0. \A b \in Agents : b # a => pc'[b] = pc[b] /\ cmd'[b] = cmd[b] /\ pid'[b] = pid[b]
  BY OthersUnchanged
<1>1. ASSUME UNCHANGED <<childFile, procs, leaked>>, pc[a] # "rs_write", Finish(a)
      PROVE  RecordInv'
  BY <1>0, <1>1, RecordFrame DEF Finish, Move, InSection, TypeOK
<1>2. ASSUME UNCHANGED <<childFile, procs, leaked>>, NEW l, pc[a] \notin {"rs_write"}, Goto(a, l),
             l \notin {"rs_write", "sr_unlink", "sr_kill", "rs_spawn"}, cmd[a] # "uninstall"
      PROVE  RecordInv'
  BY <1>0, <1>2, RecordFrame DEF Goto, Move, InSection, TypeOK
<1>3. CASE BeginAny(a)
  <2>1. UNCHANGED <<childFile, procs, leaked>> /\ pc[a] = "idle"
        /\ pc'[a] \in {"bs_token", "ss_read", "sr_read", "rs_session", "un_local", "un_usb",
                       "rm_token", "wd_session", "im_write"}
        /\ (pc'[a] = "rm_token" => cmd'[a] # "uninstall")
    BY <1>3 DEF BeginAny, StartRefused, BeginStart, BeginStop, BeginRuntimeStart, BeginUnlock,
       BeginLock, BeginStatus, BeginWatchdog, BeginImport, Begin, Move, files, host, TypeOK
  <2> QED BY <1>0, <2>1, RecordFrame DEF InSection, TypeOK
<1>4. CASE Crash(a)
  <2>1. pc'[a] = "idle" /\ UNCHANGED <<childFile, procs>>
        /\ leaked' = leaked \cup {p \in Pids : Starting(a, p) /\ procs[p] = "run"}
    BY <1>4 DEF Crash, Finish, Move, files, host, TypeOK
  <2> QED BY <1>0, <2>1 DEF RecordInv, SectionOwnsRecord, SignalledBeforeUnlink, Recorded,
          Starting, At, InSection, TypeOK
<1>5. CASE Continue(a)
  <2>1. CASE \/ CleanupRead(a) \/ CleanupRemove(a) \/ WriteSession(a) \/ CheckUnlock(a)
             \/ WriteToken(a) \/ StatusRemoveToken(a) \/ ImportWrite(a) \/ PlanRuntime(a)
    BY <1>1, <1>2, <2>1 DEF CleanupRead, CleanupRemove, WriteSession, CheckUnlock, WriteToken,
       StatusRemoveToken, ImportWrite, PlanRuntime, At, files, host, StepOfCommand
  <2>2. CASE StatusToken(a)
    BY <1>1, <2>2 DEF StatusToken, At, Then, Goto, Move, files, host, RecordInv,
       SectionOwnsRecord, SignalledBeforeUnlink, Recorded, Starting, InSection, TypeOK
  <2>3. CASE StopRead(a)
    BY <1>0, <2>3 DEF StopRead, At, Move, files, host, RecordInv,
       SectionOwnsRecord, SignalledBeforeUnlink, Recorded, Starting, InSection, TypeOK
  <2>4. CASE StopKill(a)
    <3>1. pc'[a] = "sr_unlink" /\ pc[a] = "sr_kill" /\ pid'[a] = pid[a] /\ cmd'[a] = cmd[a]
          /\ UNCHANGED childFile
      BY <2>4 DEF StopKill, At, Goto, Move, files, TypeOK
    <3>2. /\ \A p \in Pids : procs'[p] = "run" => procs[p] = "run"
          /\ pid[a] # NoPid /\ procs'[pid[a]] = "run" => pid[a] \in leaked'
          /\ leaked \subseteq leaked'
      <4>1. CASE pid[a] = NoPid
        BY <2>4, <4>1 DEF StopKill
      <4>2. CASE pid[a] # NoPid
        <5>1. pid[a] \in Pids /\ Terminate(pid[a])
          BY <2>4, <4>2 DEF StopKill, TypeOK
        <5> QED BY <5>1 DEF Terminate, TypeOK
      <4> QED BY <4>1, <4>2
    <3>3. SectionOwnsRecord'
      BY <1>0, <3>1 DEF RecordInv, SectionOwnsRecord, InSection
    <3>4. SignalledBeforeUnlink'
      BY <1>0, <3>1, <3>2 DEF RecordInv, SignalledBeforeUnlink, TypeOK
    <3>5. Recorded'
      BY <1>0, <3>1, <3>2 DEF RecordInv, Recorded, Starting, At
    <3> QED BY <3>3, <3>4, <3>5 DEF RecordInv
  <2>5. CASE StopUnlink(a)
    <3>1. pc[a] = "sr_unlink" /\ childFile' = NoPid /\ UNCHANGED <<procs, leaked>>
          /\ pc'[a] \in {"rs_spawn", "idle", "rm_session"}
      BY <2>5 DEF StopUnlink, AfterStopRuntime, At, Then, Goto, Finish, Move, host, TypeOK
    <3>2. SectionOwnsRecord'
      BY <1>0, <3>1 DEF RecordInv, SectionOwnsRecord, InSection
    <3>3. SignalledBeforeUnlink'
      BY <1>0, <3>1 DEF RecordInv, SignalledBeforeUnlink
    <3>4. Recorded'
      <4>1. \A p \in Pids : p = childFile /\ procs[p] = "run" => p \in leaked
        BY <3>1, AgentAssumption DEF AgentAssumption, RecordInv, SectionOwnsRecord,
           SignalledBeforeUnlink, InSection
      <4> QED BY <1>0, <3>1, <4>1 DEF RecordInv, Recorded, Starting, At
    <3> QED BY <3>2, <3>3, <3>4 DEF RecordInv
  <2>6. CASE RemoveSession(a) \/ UninstallConfig(a)
    BY <1>0, <2>6 DEF RemoveSession, UninstallConfig, At, Goto, Move, host, RecordInv,
       SectionOwnsRecord, SignalledBeforeUnlink, Recorded, Starting, InSection, StepOfCommand, TypeOK
  <2>7. CASE RemoveToken(a)
    BY <1>0, <1>1, <2>7 DEF RemoveToken, AfterRemoveToken, At, Then, Goto, Move, host, RecordInv,
       SectionOwnsRecord, SignalledBeforeUnlink, Recorded, Starting, InSection, StepOfCommand, TypeOK
  <2>8. CASE UninstallRuntime(a)
    <3>1. childFile = NoPid
      BY <2>8 DEF UninstallRuntime, At, RecordInv, SectionOwnsRecord, InSection, StepOfCommand
    <3> QED BY <1>1, <2>8, <3>1 DEF UninstallRuntime, At, host
  <2>9. CASE Spawn(a)
    <3>1. CASE Finish(a) /\ UNCHANGED procs
      BY <1>1, <2>9, <3>1 DEF Spawn, At, files
    <3>2. ASSUME NEW p \in Pids,
                 procs[p] = "free",
                 procs' = [procs EXCEPT ![p] = "run"],
                 pid' = [pid EXCEPT ![a] = p],
                 Move(a, "rs_write"),
                 UNCHANGED cmd
          PROVE  RecordInv'
      <4>1. pc[a] = "rs_spawn" /\ pc'[a] = "rs_write" /\ UNCHANGED <<childFile, leaked>>
        BY <2>9, <3>2 DEF Spawn, At, Move, files, TypeOK
      <4>2. cmd[a] = "runtimeStart" /\ InSection(a)
        BY <4>1 DEF StepOfCommand, InSection
      <4>3. \A b \in Agents : b # a => ~InSection(b)
        BY <4>2 DEF Racing
      <4>4. SectionOwnsRecord'
        BY <1>0, <3>2, <4>1 DEF RecordInv, SectionOwnsRecord, InSection, TypeOK
      <4>5. SignalledBeforeUnlink'
        BY <1>0, <4>1, <4>3 DEF SignalledBeforeUnlink, InSection
      <4>6. Recorded'
        <5> SUFFICES ASSUME NEW q \in Pids, procs'[q] = "run"
                     PROVE  q = childFile' \/ q \in leaked' \/ \E b \in Agents : Starting(b, q)'
          BY DEF Recorded
        <5>1. CASE q = p
          BY <3>2, <4>1, <5>1 DEF Starting, At, TypeOK
        <5>2. CASE q # p
          <6>1. procs[q] = "run"
            BY <3>2, <5>2 DEF TypeOK
          <6> QED BY <1>0, <4>1, <6>1 DEF RecordInv, Recorded, Starting, At
        <5> QED BY <5>1, <5>2
      <4> QED BY <4>4, <4>5, <4>6 DEF RecordInv
    <3> QED BY <2>9, <3>1, <3>2 DEF Spawn
  <2>10. CASE WriteChildState(a)
    <3>1. pc[a] = "rs_write" /\ pc'[a] = "idle" /\ childFile' = pid[a] /\ UNCHANGED <<procs, leaked>>
      BY <2>10 DEF WriteChildState, At, Finish, Move, host, TypeOK
    <3>2. cmd[a] = "runtimeStart" /\ InSection(a)
      BY <3>1 DEF StepOfCommand, InSection
    <3>3. \A b \in Agents : b # a => ~InSection(b)
      BY <3>2 DEF Racing
    <3>4. childFile = NoPid
      BY <3>1, <3>2 DEF RecordInv, SectionOwnsRecord
    <3>5. SectionOwnsRecord' /\ SignalledBeforeUnlink'
      BY <1>0, <3>1, <3>3 DEF SectionOwnsRecord, SignalledBeforeUnlink, InSection
    <3>6. Recorded'
      BY <1>0, <3>1, <3>4, AgentAssumption DEF AgentAssumption, RecordInv, Recorded, Starting, At
    <3> QED BY <3>5, <3>6 DEF RecordInv
  <2>11. CASE WatchSession(a) \/ WatchRuntime(a)
    <3>1. pc[a] # "rs_write" /\ pc'[a] \in {"wd_runtime", "sr_read", "wd_profile"}
          /\ UNCHANGED <<childFile, procs, leaked>>
      BY <2>11 DEF WatchSession, WatchRuntime, WatchStop, At, Move, files, host, TypeOK
    <3> QED BY <1>0, <3>1, RecordFrame DEF InSection, TypeOK
  <2>12. CASE WatchProfile(a)
    <3>1. pc[a] # "rs_write" /\ pc'[a] \in {"sr_read", "idle"} /\ UNCHANGED <<childFile, procs, leaked>>
      BY <2>12 DEF WatchProfile, WatchStop, Finish, At, Move, files, host, TypeOK
    <3> QED BY <1>0, <3>1, RecordFrame DEF InSection, TypeOK
  <2> QED BY <1>5, <2>1, <2>2, <2>3, <2>4, <2>5, <2>6, <2>7, <2>8, <2>9, <2>10, <2>11,
             <2>12 DEF Continue
<1> QED BY <1>3, <1>4, <1>5 DEF AgentStep

\* The environment changes neither the files of the record nor who is where;
\* a child that exits is no longer left behind.
LEMMA EnvironmentStep ==
    ASSUME TypeOK, Environment
    PROVE  /\ StepOfCommand => StepOfCommand'
           /\ SettledStops => SettledStops'
           /\ RecordInv => RecordInv'
<1>1. UNCHANGED <<pc, cmd, pid, settled, session, childFile>>
  BY DEF Environment, ChildExits, ForeignProcess, UsbChange, ProfileDeleted, TokenExpires,
     files, locals
<1>2. token' = "absent" <=> token = "absent"
  BY DEF Environment, ChildExits, ForeignProcess, UsbChange, ProfileDeleted, TokenExpires, files
<1>3. \A q \in Pids : procs'[q] = "run" => procs[q] = "run" /\ (q \in leaked => q \in leaked')
  BY DEF Environment, ChildExits, ForeignProcess, UsbChange, ProfileDeleted, TokenExpires,
     host, TypeOK
<1>4. StepOfCommand => StepOfCommand'
  BY <1>1 DEF StepOfCommand
<1>5. SettledStops => SettledStops'
  BY <1>1, <1>2 DEF SettledStops
<1>6. RecordInv => RecordInv'
  <2> SUFFICES ASSUME RecordInv PROVE RecordInv'
    OBVIOUS
  <2>1. SectionOwnsRecord'
    BY <1>1 DEF RecordInv, SectionOwnsRecord, InSection
  <2>2. SignalledBeforeUnlink'
    BY <1>1, <1>3 DEF RecordInv, SignalledBeforeUnlink, TypeOK
  <2>3. Recorded'
    BY <1>1, <1>3 DEF RecordInv, Recorded, Starting, At
  <2> QED BY <2>1, <2>2, <2>3 DEF RecordInv
<1> QED BY <1>4, <1>5, <1>6

LEMMA IInvInit == Init => IInv
<1> SUFFICES ASSUME Init PROVE IInv
  OBVIOUS
<1>1. TypeOK
  BY TypeInit
<1>2. StepOfCommand /\ SettledStops
  BY DEF Init, StepOfCommand, SettledStops
<1>3. ~Racing /\ SectionOwnsRecord /\ SignalledBeforeUnlink /\ Recorded
  BY DEF Init, Racing, InSection, SectionOwnsRecord, SignalledBeforeUnlink, Recorded
<1> QED BY <1>1, <1>2, <1>3 DEF IInv, NoOrphan

LEMMA IInvStep == IInv /\ [Next]_vars => IInv'
<1> SUFFICES ASSUME IInv, [Next]_vars PROVE IInv'
  OBVIOUS
<1>0. TypeOK /\ TypeOK' /\ StepOfCommand /\ SettledStops
  BY TypeStep DEF IInv
<1>1. CASE UNCHANGED vars
  BY <1>1 DEF vars, IInv, TypeOK, StepOfCommand, SettledStops, Racing, InSection,
     SectionOwnsRecord, SignalledBeforeUnlink, NoOrphan, Recorded, Starting, At
<1>2. CASE Next
  <2>1. ~raced' => ~raced /\ ~Racing /\ ~Racing' /\ RecordInv
    BY <1>2, NextCases DEF IInv, NoOrphan, RecordInv
  <2>2. StepOfCommand' /\ SettledStops'
    BY <1>0, <1>2, NextCases, CommandStep, SettledStep, EnvironmentStep
  <2>3. ~raced' => RecordInv'
    BY <1>0, <1>2, <2>1, <2>2, NextCases, RecordStep, EnvironmentStep
  <2> QED BY <1>0, <2>1, <2>2, <2>3 DEF IInv, NoOrphan, RecordInv
<1> QED BY <1>1, <1>2

\* The inductive invariant holds in every reachable state.
THEOREM Invariance == Spec => []IInv
BY IInvInit, IInvStep, PTL DEF Spec

-----------------------------------------------------------------------------
(* What follows from it *)

\* For any number of agent processes and any interleaving in which no
\* runtime-start overlaps another stop_runtime, no LAN proxy child runs
\* unrecorded, except one that a failed signal or a cut short start left.
THEOREM NoOrphanChild == Spec => []NoOrphan
<1>1. IInv => NoOrphan
  BY DEF IInv
<1> QED BY <1>1, Invariance, PTL

\* Under the same condition two LAN proxy children never run at once.
THEOREM OneChild == Spec => []AtMostOneChild
<1>1. IInv => AtMostOneChild
  <2> SUFFICES ASSUME IInv, ~raced, NEW p \in Pids \ leaked, NEW q \in Pids \ leaked,
                      procs[p] = "run", procs[q] = "run"
               PROVE  p = q
    BY DEF AtMostOneChild
  <2>1. /\ p = childFile \/ \E a \in Agents : Starting(a, p)
        /\ q = childFile \/ \E a \in Agents : Starting(a, q)
    BY DEF IInv, NoOrphan, Recorded
  <2>2. ASSUME NEW a \in Agents, NEW r \in Pids, Starting(a, r)
        PROVE  childFile = NoPid /\ InSection(a) /\ cmd[a] = "runtimeStart" /\ pid[a] = r
    BY <2>2 DEF IInv, StepOfCommand, SectionOwnsRecord, InSection, Starting, At
  <2>3. CASE p = childFile
    BY <2>1, <2>2, <2>3, AgentAssumption DEF AgentAssumption
  <2>4. CASE \E a \in Agents : Starting(a, p)
    <3>1. PICK a \in Agents : Starting(a, p)
      BY <2>4
    <3>2. PICK b \in Agents : Starting(b, q)
      BY <2>1, <2>2, <3>1, AgentAssumption DEF AgentAssumption
    <3>3. a = b
      BY <2>2, <3>1, <3>2 DEF IInv, Racing
    <3> QED BY <2>2, <3>1, <3>2, <3>3
  <2> QED BY <2>1, <2>3, <2>4
<1> QED BY <1>1, Invariance, PTL

\* A stop that no creating command overlapped leaves no manifest, no token, no
\* record and, without a race, no child it could signal, whatever the others do.
THEOREM StopsSettle == Spec => []StopSettles
<1>1. IInv => StopSettles
  <2> SUFFICES ASSUME IInv, NEW a \in settled, cmd[a] = "stop", pc[a] \in {"bs_token", "bs_remove"}
               PROVE  /\ session = "absent" /\ token = "absent" /\ childFile = NoPid
                      /\ ~raced => \A p \in Pids : procs[p] = "run" => p \in leaked
    BY DEF StopSettles
  <2>1. session = "absent" /\ token = "absent" /\ childFile = NoPid
    BY DEF IInv, SettledStops
  <2>2. \A b \in Agents, p \in Pids : ~Starting(b, p)
    BY DEF IInv, SettledStops, StepOfCommand, Creating, Starting, At
  <2> QED BY <2>1, <2>2, AgentAssumption DEF AgentAssumption, IInv, NoOrphan, Recorded
<1> QED BY <1>1, Invariance, PTL

----------------------------------------------------------------------------
(* One process at a time *)

\* A process that runs alone keeps the manifest of a recorded child.
LEMMA ManifestStep ==
    ASSUME OneProcess, TypeOK, StepOfCommand, ManifestInv, NEW a \in Agents, AgentStep(a),
           History
    PROVE  ManifestInv'
<1>0. \A b \in Agents : b = a
  BY DEF OneProcess
<1>h. /\ dropped' => childFile' # NoPid /\ ~HasSession'
      /\ childFile' # NoPid /\ ~HasSession' /\ dropped => dropped'
      /\ childFile' # NoPid /\ ~HasSession' /\ session = "legacyLan"
            /\ pc[a] = "ss_remove" /\ pc'[a] = "ss_write" => dropped'
  BY DEF History, Dropping, At
<1>1. ASSUME UNCHANGED <<session, childFile>>, Finish(a) PROVE ManifestInv'
  BY <1>0, <1>h, <1>1 DEF Finish, Move, ManifestInv, ManifestOutlivesChild, HasSession, HasLanListener, TypeOK
<1>2. ASSUME UNCHANGED <<session, childFile, cmd>>, NEW l, Move(a, l),
             l \notin {"ss_remove", "rm_session", "rm_token", "ui_config", "ui_runtime"},
             cmd[a] = "runtimeStart" => pc[a] # "rs_session" \/ HasLanListener
      PROVE  ManifestInv'
  BY <1>0, <1>h, <1>2 DEF Move, ManifestInv, ManifestOutlivesChild, HasSession, HasLanListener, TypeOK
<1>3. ASSUME childFile' = NoPid, cmd'[a] # "runtimeStart", pc'[a] # "ss_remove" PROVE ManifestInv'
  BY <1>0, <1>h, <1>3 DEF ManifestInv, ManifestOutlivesChild, HasSession, HasLanListener
<1>4. CASE BeginAny(a)
  BY <1>0, <1>h, <1>4 DEF BeginAny, StartRefused, BeginStart, BeginStop, BeginRuntimeStart,
     BeginUnlock, BeginLock, BeginStatus, BeginWatchdog, BeginImport, Begin, Move, files,
     ManifestInv, ManifestOutlivesChild, HasSession, HasLanListener, TypeOK
<1>5. CASE Crash(a)
  BY <1>1, <1>5 DEF Crash, files
<1>6. CASE Continue(a)
  <2>1. CASE CleanupRead(a)
    BY <1>0, <1>h, <2>1 DEF CleanupRead, At, Goto, Move, files, StepOfCommand, ManifestInv,
       ManifestOutlivesChild, HasSession, HasLanListener, TypeOK
  <2>2. CASE CleanupRemove(a) \/ WriteSession(a)
    BY <1>0, <1>h, <2>2 DEF CleanupRemove, WriteSession, At, Goto, Move, StepOfCommand, ManifestInv,
       ManifestOutlivesChild, HasSession, HasLanListener, TypeOK
  <2>3. CASE StopRead(a) \/ StopKill(a) \/ WatchSession(a)
    BY <1>2, <2>3 DEF StopRead, StopKill, WatchSession, At, Goto, files, StepOfCommand
  <2>4. CASE StopUnlink(a)
    <3>1. childFile' = NoPid /\ session' = session
      BY <2>4 DEF StopUnlink
    <3>2. CASE cmd[a] = "runtimeStart"
      BY <1>0, <1>h, <2>4, <3>1, <3>2 DEF StopUnlink, AfterStopRuntime, Then, At, Goto, Move, ManifestInv,
         ManifestOutlivesChild, HasSession, HasLanListener, TypeOK
    <3>3. CASE cmd[a] # "runtimeStart"
      <4>1. CASE Finish(a)
        BY <1>3, <1>h, <3>1, <4>1 DEF Finish, Move, TypeOK
      <4>2. CASE Goto(a, "rm_session")
        BY <1>3, <1>h, <3>1, <3>3, <4>2 DEF Goto, Move, TypeOK
      <4> QED BY <2>4, <3>3, <4>1, <4>2 DEF StopUnlink, AfterStopRuntime, Then
    <3> QED BY <3>2, <3>3
  <2>5. CASE RemoveSession(a)
    BY <1>3, <1>h, <2>5 DEF RemoveSession, At, Goto, Move, StepOfCommand, ManifestInv, TypeOK
  <2>6. CASE RemoveToken(a)
    <3>1. CASE Finish(a)
      BY <1>1, <2>6, <3>1 DEF RemoveToken
    <3>2. CASE Goto(a, "bs_token") \/ Goto(a, "ui_config")
      BY <1>0, <1>h, <2>6, <3>2 DEF RemoveToken, AfterRemoveToken, Then, At, Goto, Move, StepOfCommand,
         ManifestInv, ManifestOutlivesChild, HasSession, HasLanListener, TypeOK
    <3> QED BY <2>6, <3>1, <3>2 DEF RemoveToken, AfterRemoveToken, Then
  <2>7. CASE UninstallConfig(a)
    BY <1>0, <1>h, <2>7 DEF UninstallConfig, At, Goto, Move, StepOfCommand, ManifestInv,
       ManifestOutlivesChild, HasSession, HasLanListener, TypeOK
  <2>8. CASE UninstallRuntime(a)
    BY <1>3, <1>h, <2>8 DEF UninstallRuntime, Finish, Move, TypeOK
  <2>9. CASE PlanRuntime(a)
    BY <1>1, <1>2, <2>9 DEF PlanRuntime, Goto, files
  <2>10. CASE Spawn(a)
    BY <1>1, <1>2, <2>10 DEF Spawn, At, files
  <2>11. CASE WriteChildState(a)
    <3>1. HasLanListener'
      BY <2>11 DEF WriteChildState, At, StepOfCommand, ManifestInv, HasLanListener
    <3>2. cmd'[a] = "none" /\ pc'[a] = "idle"
      BY <2>11 DEF WriteChildState, Finish, Move, TypeOK
    <3> QED BY <1>0, <1>h, <3>1, <3>2 DEF ManifestInv, ManifestOutlivesChild, HasSession, HasLanListener
  <2>12. CASE CheckUnlock(a)
    BY <1>1, <1>2, <2>12 DEF CheckUnlock, At, Goto, files, StepOfCommand
  <2>13. CASE WriteToken(a) \/ StatusRemoveToken(a) \/ ImportWrite(a)
    BY <1>1, <2>13 DEF WriteToken, StatusRemoveToken, ImportWrite
  <2>14. CASE StatusToken(a)
    BY <1>1, <1>2, <2>14 DEF StatusToken, At, Then, Goto, files
  <2>15. CASE WatchRuntime(a)
    BY <1>0, <1>h, <2>15 DEF WatchRuntime, WatchStop, At, Move, files, StepOfCommand, ManifestInv,
       ManifestOutlivesChild, HasSession, HasLanListener, TypeOK
  <2>16. CASE WatchProfile(a)
    <3>1. CASE Finish(a)
      BY <1>1, <2>16, <3>1 DEF WatchProfile, files
    <3>2. CASE WatchStop(a)
      BY <1>0, <1>h, <2>16, <3>2 DEF WatchProfile, WatchStop, At, Move, files, StepOfCommand,
         ManifestInv, ManifestOutlivesChild, HasSession, HasLanListener, TypeOK
    <3> QED BY <2>16, <3>1, <3>2 DEF WatchProfile
  <2> QED BY <1>6, <2>1, <2>2, <2>3, <2>4, <2>5, <2>6, <2>7, <2>8, <2>9, <2>10,
             <2>11, <2>12, <2>13, <2>14, <2>15, <2>16 DEF Continue
<1> QED BY <1>4, <1>5, <1>6 DEF AgentStep

\* So does the environment, which touches neither.
LEMMA ManifestKept ==
    ASSUME OneProcess, IInv, ManifestInv, [Next]_vars
    PROVE  ManifestInv'
<1>0. TypeOK /\ StepOfCommand
  BY DEF IInv
<1>1. ASSUME UNCHANGED <<session, childFile, cmd, pc, dropped>> PROVE ManifestInv'
  BY <1>1 DEF ManifestInv, ManifestOutlivesChild, HasSession, HasLanListener
<1>2. CASE UNCHANGED vars
  BY <1>1, <1>2 DEF vars
<1>3. CASE Environment /\ History
  <2>1. UNCHANGED <<session, childFile, cmd, pc>>
    BY <1>3 DEF Environment, ChildExits, ForeignProcess, UsbChange, ProfileDeleted, TokenExpires,
       files, locals
  <2>2. (HasSession <=> HasSession') /\ ~Dropping
    BY <2>1 DEF HasSession, Dropping, At
  <2>3. dropped' <=> dropped
    BY <1>3, <2>1, <2>2 DEF History, ManifestInv
  <2>4. dropped' = dropped
    <3>1. dropped \in BOOLEAN /\ dropped' \in BOOLEAN
      BY <1>0, <1>3 DEF TypeOK, History
    <3> QED BY <2>3, <3>1
  <2> QED BY <1>1, <2>1, <2>4
<1>4. ASSUME NEW a \in Agents, AgentStep(a), History PROVE ManifestInv'
  BY <1>0, <1>4, ManifestStep
<1> QED BY <1>2, <1>3, <1>4, NextCases

\* What one process adds to the invariant.
LEMMA OneProcessInv == Spec => [](IInv /\ (OneProcess => ManifestInv))
<1>1. Init => IInv /\ (OneProcess => ManifestInv)
  BY IInvInit DEF Init, ManifestInv, ManifestOutlivesChild
<1>2. IInv /\ (OneProcess => ManifestInv) /\ [Next]_vars
      => (IInv /\ (OneProcess => ManifestInv))'
  BY IInvStep, ManifestKept DEF OneProcess
<1> QED BY <1>1, <1>2, PTL DEF Spec

\* With one process at a time a child record outlives its manifest only where a
\* start has removed a legacy manifest under it, whatever commands the process
\* runs, in which order, and wherever they are cut short.
THEOREM ManifestOutlives == Spec => [](OneProcess => ManifestOutlivesChild)
<1>1. IInv /\ (OneProcess => ManifestInv) => (OneProcess => ManifestOutlivesChild)
  BY DEF ManifestInv
<1> QED BY <1>1, OneProcessInv, PTL

----------------------------------------------------------------------------
(* The reported state implements GatewayLifecycle *)

\* What a step does to the manifest and the record: it leaves the manifest, or
\* there is no record, or a start drops a legacy manifest, or a manifest is
\* written beside a record that has none.
LEMMA RecordOrManifest ==
    ASSUME OneProcess, IInv, ManifestInv, Next
    PROVE  \/ childFile = NoPid /\ childFile' = NoPid
           \/ HasSession <=> HasSession'
           \/ /\ session = "legacyLan" /\ Dropping /\ ~HasSession'
              /\ UNCHANGED <<childFile, procs>>
           \/ ~HasSession /\ HasSession' /\ UNCHANGED <<childFile, procs>>
<1>0. TypeOK /\ StepOfCommand
  BY DEF IInv
<1>1. ASSUME session' = session PROVE HasSession <=> HasSession'
  BY <1>1 DEF HasSession
<1>2. CASE Environment
  BY <1>1, <1>2 DEF Environment, ChildExits, ForeignProcess, UsbChange, ProfileDeleted,
     TokenExpires, files
<1>3. ASSUME NEW a \in Agents, RemoveSession(a) \/ UninstallRuntime(a)
      PROVE  childFile = NoPid /\ childFile' = NoPid
  BY <1>0, <1>3 DEF RemoveSession, UninstallRuntime, At, ManifestInv, StepOfCommand
<1>4. ASSUME NEW a \in Agents, CleanupRemove(a), childFile # NoPid, HasSession
      PROVE  /\ session = "legacyLan" /\ Dropping /\ ~HasSession'
             /\ UNCHANGED <<childFile, procs>>
  <2>1. session = "legacyLan"
    BY <1>0, <1>4 DEF CleanupRemove, At, ManifestInv, HasSession
  <2>2. pc[a] = "ss_remove" /\ pc'[a] = "ss_write"
    BY <1>0, <1>4 DEF CleanupRemove, At, Goto, Move, TypeOK
  <2> QED BY <1>4, <2>1, <2>2 DEF CleanupRemove, Dropping, At, HasSession, host
<1>5. ASSUME NEW a \in Agents, CleanupRemove(a), ~HasSession
      PROVE  HasSession <=> HasSession'
  BY <1>5 DEF CleanupRemove, HasSession
<1>6. ASSUME NEW a \in Agents, CleanupRemove(a), childFile = NoPid
      PROVE  childFile' = NoPid
  BY <1>6 DEF CleanupRemove
<1>7. ASSUME NEW a \in Agents, WriteSession(a)
      PROVE  HasSession' /\ UNCHANGED <<childFile, procs>>
  BY <1>7 DEF WriteSession, HasSession, host
<1>8. ASSUME NEW a \in Agents, AgentStep(a),
             ~(CleanupRemove(a) \/ RemoveSession(a) \/ UninstallRuntime(a) \/ WriteSession(a))
      PROVE  session' = session
  BY <1>8 DEF AgentStep, BeginAny, StartRefused, BeginStart, BeginStop, BeginRuntimeStart,
     BeginUnlock, BeginLock, BeginStatus, BeginWatchdog, BeginImport, Crash, Continue, CleanupRead,
     StopRead, StopKill, StopUnlink, RemoveToken, UninstallConfig, PlanRuntime, Spawn,
     WriteChildState, CheckUnlock, WriteToken, StatusToken, StatusRemoveToken, WatchSession,
     WatchRuntime, WatchProfile, ImportWrite, files
<1> QED BY <1>1, <1>2, <1>3, <1>4, <1>5, <1>6, <1>7, <1>8, NextCases

\* What the report says of them.
ReportFacts ==
    /\ StatusState \in {"locked", "manifest_ready", "running"}
    /\ childFile = NoPid => StatusState # "running"
    /\ HasSession => StatusState # "locked"
    /\ ~HasSession => StatusState # "manifest_ready"
LEMMA ReportHolds == ReportFacts
BY DEF ReportFacts, StatusState, RuntimeState

\* Such a step is one of the life cycle, or changes no report.
LEMMA LifecycleStep ==
    ASSUME OneProcess, IInv, ManifestInv, ManifestInv', TypeOK', Next
    PROVE  [Lifecycle!Next]_<<StatusState, dropped>>
<1>1. ReportFacts /\ ReportFacts'
  <2>1. ReportFacts'
    BY DEF ReportFacts, StatusState, RuntimeState
  <2> QED BY <2>1, ReportHolds
<1>2. dropped \in BOOLEAN /\ dropped' \in BOOLEAN
  BY DEF IInv, TypeOK
<1>3. /\ childFile # NoPid => HasSession \/ dropped
      /\ dropped => childFile # NoPid /\ ~HasSession
      /\ childFile' # NoPid => HasSession' \/ dropped'
      /\ dropped' => childFile' # NoPid /\ ~HasSession'
      /\ dropped' => dropped \/ Dropping
  BY NextCases DEF ManifestInv, ManifestOutlivesChild, History
<1>4. Dropping => HasSession
  BY DEF Dropping, HasSession
<1>5. ASSUME UNCHANGED <<childFile, procs>>
      PROVE  (StatusState = "running" <=> StatusState' = "running")
  BY <1>5 DEF StatusState, RuntimeState, PidIsRunning
<1> USE DEF Lifecycle!Next, Lifecycle!Follow, Lifecycle!Start, Lifecycle!RuntimeStart,
     Lifecycle!RuntimeStop, Lifecycle!Lock, Lifecycle!Drop, Lifecycle!Jump, Lifecycle!Resolve
<1>6. CASE childFile = NoPid /\ childFile' = NoPid
  <2>1. dropped = FALSE /\ dropped' = FALSE
    BY <1>2, <1>3, <1>6
  <2> QED BY <1>1, <1>6, <2>1 DEF ReportFacts
<1>7. CASE HasSession /\ HasSession'
  <2>1. dropped = FALSE /\ dropped' = FALSE
    BY <1>2, <1>3, <1>7
  <2> QED BY <1>1, <1>7, <2>1 DEF ReportFacts
<1>8. CASE ~HasSession /\ ~HasSession'
  <2>1. CASE dropped = FALSE
    <3>1. dropped' = FALSE /\ childFile = NoPid /\ childFile' = NoPid
      BY <1>2, <1>3, <1>4, <1>8, <2>1
    <3> QED BY <1>6, <3>1
  <2>2. CASE dropped = TRUE /\ dropped' = TRUE
    BY <1>1, <1>8, <2>2 DEF ReportFacts
  <2>3. CASE dropped = TRUE /\ dropped' = FALSE
    <3>1. childFile' = NoPid
      BY <1>3, <1>8, <2>3
    <3> QED BY <1>1, <1>8, <2>3, <3>1 DEF ReportFacts
  <2> QED BY <1>2, <2>1, <2>2, <2>3
<1>9. CASE /\ session = "legacyLan" /\ Dropping /\ ~HasSession'
           /\ UNCHANGED <<childFile, procs>> /\ childFile # NoPid
  <2>1. dropped = FALSE /\ dropped' = TRUE
    BY <1>2, <1>3, <1>4, <1>9
  <2> QED BY <1>1, <1>4, <1>5, <1>9, <2>1 DEF ReportFacts
<1>10. CASE ~HasSession /\ HasSession' /\ UNCHANGED <<childFile, procs>> /\ childFile # NoPid
  <2>1. dropped = TRUE /\ dropped' = FALSE
    BY <1>2, <1>3, <1>10
  <2> QED BY <1>1, <1>5, <1>10, <2>1 DEF ReportFacts
<1> QED
  BY <1>6, <1>7, <1>8, <1>9, <1>10, RecordOrManifest

\* What build_status reports implements GatewayLifecycle while one process at a
\* time runs the commands.
THEOREM ReportFollowsLifecycle == ASSUME OneProcess PROVE Spec => LifecycleSpec
<1>1. Init => Lifecycle!Init
  BY DEF Init, Lifecycle!Init, StatusState, RuntimeState, HasSession
<1>2. IInv /\ (OneProcess => ManifestInv) /\ IInv' /\ (OneProcess => ManifestInv)' /\ [Next]_vars
      => [Lifecycle!Next]_<<StatusState, dropped>>
  <2> SUFFICES ASSUME IInv, IInv', ManifestInv, ManifestInv', [Next]_vars
               PROVE  [Lifecycle!Next]_<<StatusState, dropped>>
    BY DEF OneProcess
  <2>1. CASE Next
    BY <2>1, LifecycleStep DEF IInv
  <2>2. CASE UNCHANGED vars
    BY <2>2 DEF vars, StatusState, RuntimeState, PidIsRunning, HasSession
  <2> QED BY <2>1, <2>2
<1> QED BY <1>1, <1>2, OneProcessInv, PTL DEF Spec, LifecycleSpec, Lifecycle!Spec
=============================================================================
