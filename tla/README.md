# Proxy gateway console: TLA+ models, TLC runs and TLAPS proofs

The repository turns one computer into an explicit proxy gateway for phones on
the same network.  Its core logic is not in data structures but in the order of
small effects: several short-lived processes read, change and replace the same
files without a lock, and change the kernel and NetworkManager through external
programs that may fail or be cut short.  That is what these modules model.

Paths below are relative to `src/`.  `ps` is
`runtime/proxy-stack/proxy_stack.py`.

## 1. Inventory

| part | source | state it keeps | how it is driven | what makes it correct |
|---|---|---|---|---|
| v2 agent | `agent/gateway_agent.py`, `session_store.py`, `runtime_launcher.py`, `unlock_server.py`, `usb_identity.py` | `session.json`, `unlock-token.json`, `state/runtime-children.json`, the encrypted profile, LAN proxy child processes | command line, `POST /api/...` of the unlock server, the systemd daemon (`daemon --interval 5`) | no child serves unrecorded, never two of them; a stop leaves nothing behind; lost media, dead children and lost profiles are acted upon |
| profiles of the agent | `agent/profile_crypto.py`, `profile_schema.py`, `upstream_profile.py`, `route_policy.py` | the encrypted profile, here and on the recovery medium, the unlock token | command line, unlock server | a report is true of the files; a refused command touches nothing; what is loaded sends every target somewhere |
| USB phone tethering | `ps:530-907` and the NetworkManager dispatcher script | `network-events.json`, `upstream-policy.json`, NetworkManager profiles | the GUI's poll, the dispatcher, the user's decision | a phone never takes the default route unasked; decisions hold and are not lost; each new phone is put to the user, once |
| LAN gateway mode | `ps:1087-1530` | nft table, `ip_forward`, rules file, marker | two privileged commands, an unprivileged report | one client at a time; success means what it says; the report is true |
| hotspot launcher | `ps:320-510` | permissions of the NetworkManager profile, guard marker | root and the GUI through the local API | the upstream stays up; a failed start puts the guard back; a user is told the truth |
| proxies and bridge | `iphone_lan_split_proxy.py`, `phone_egress_http_proxy.py`, `lan_tcp_bridge.py`, `agent/lan_proxy_child.py` | one connection per thread, a route cache shared by the threads of the split proxy | TCP clients | no bytes lost, added or reordered; error pages stand alone; threads end; a request goes where its host is now, and abroad only through the upstream |
| phone egress | `ps:721-822` | policy routing rules, one routing table | root | after a success what is sent from the phone's address leaves by the phone, or after a remove by the main table |
| local API | `server/` | child processes under a timeout (SIGTERM, 1.5 s later SIGKILL) | HTTP on the loopback interface | stateless; its kill is a crash of the command it runs |
| web UI | `src/` | React state, polls every 4 s and 20 s | the user | the newest answer is shown |
| desktop shell | `src-tauri/` | none of its own | the web UI | it parses one command's output |
| macOS VPN kit and app | `scripts/macvpn/`, `macos/` | upstream and rendered profile, user and root launchd jobs | the user | at most one tunnel; status says what runs |
| self update, installers, verification | `scripts/`, `packaging/` | installed files | the user | straight sequences |

How they interact.  The web UI calls the local API, which starts the proxy
stack's or the agent's commands as processes and kills them at its time limit.
The proxy stack's commands talk to each other only through their JSON files and
through what they did to NetworkManager and the kernel; the dispatcher runs the
phone guard in the middle of NetworkManager's own activation.  The agent's
command line, unlock server and daemon talk through the files of its private
runtime directory; the daemon observes the LAN proxy child only by its pid.

What is hard about it:

* *interleaving and atomicity* - read, decide, replace on shared files, with
  no lock anywhere in the agent or the proxy stack;
* *partial failure* - sequences of `nft`, `sysctl`, `nmcli`, signals and file
  writes that go on, or stop half way, when one step fails;
* *crash and reboot* - files survive a reboot, kernel state does not;
* *stale observations* - pids that belong to somebody else by now, a default
  route that moved, an answer of a phone that was unplugged meanwhile;
* *files written in place*, read by others while they are empty;
* *slow, early and vanishing peers* of the proxies, and names that move between
  a decision and the connection that follows it.

`PROJECT.json` lists these hazards line by line with the properties that cover
them, and says for the rest why none does.

## 2. The modules

| module | what it is | checked by | proofs in |
|---|---|---|---|
| `GatewayAgent` | the agent: processes, files, children, watchdog | `MCGatewayAgent` | `GatewayAgentProofs` |
| `GatewayLifecycle` | abstract specification of the state the agent reports | `LifecycleSpec` of `GatewayAgent` | `GatewayAgentProofs` |
| `ProfileSchema` | which profiles the agent accepts, what it makes of an upstream file, where a profile sends a target: operators only | through `ProfileStore` | `ProfileStoreProofs` |
| `ProfileStore` | commands that write, copy and read the encrypted profile; the unlock token | `MCProfileStore` | `ProfileStoreProofs` |
| `PhoneTether` | scan, dispatcher guard and decision over the event store | `MCPhoneTether` | `PhoneTetherProofs` |
| `PromptLedger` | abstract specification of the store of prompts and the saved policies | `KeepsLedger` of `PhoneTether` | `PhoneTetherProofs` |
| `PhoneEgress` | policy routing for the phone's address | `MCPhoneEgress` | `PhoneEgressProofs` |
| `LanGateway` | apply and remove, the report of the unprivileged user | `MCLanGateway` | `LanGatewayProofs` |
| `HotspotGuard` | safe start and the guard of the hotspot profile | `MCHotspotGuard` | `HotspotGuardProofs` |
| `ProxyConnection` | one connection on each path of the proxies, the bridge and the agent's LAN proxy child | `MCProxyConnection` | `ProxyConnectionProofs` |
| `RelayedStreams` | abstract specification of what two relayed peers may rely on | `PeersRely` of `ProxyConnection` | `ProxyConnectionProofs` |
| `SplitRoute` | the route of each request of the split proxy: lists, networks, the cache its threads share, the connection that follows | `MCSplitRoute` | `SplitRouteProofs` |

The components are composed where the code composes them and not otherwise:
`GatewayAgent` puts the command line, the API and the daemon beside each other
over one set of files, `ProfileStore` the commands that handle profiles and
those that use them; `PhoneTether` puts the GUI's poll, NetworkManager with its
dispatcher and the user beside each other; `LanGateway`, `HotspotGuard` and
`PhoneEgress` put two callers beside each other, `SplitRoute` the threads of one
proxy.  The agent's two modules meet in two places: `GatewayAgent` knows of a
profile only whether it is there, and of a token whether it is fresh, and
`ProfileStore` knows what is in them and leaves children and sessions out.
`ProxyConnection` begins where `SplitRoute` has chosen a path, and the child that
`GatewayAgent` starts serves its connections by the path `lan_child` of it.  Otherwise the
components share no state: the agent uses none of the proxy stack's files, and
phone, hotspot, LAN gateway and egress commands use different files, profiles
and tables.  What they do share, the host's default route and the phones that
come and go, is an environment action of the modules that read it
(`RouteChange`, `NetChange`, `PlugIn`, `Address`).

In every module one action is one access to a shared object - a file that is
replaced or unlinked, a program run, a signal, a system call - and a process
may be cut short between any two of them (`Crash`).  `pc` names the next step;
the locals of a function that live across a step are variables of the process.

### 2.1 GatewayAgent

| model | code |
|---|---|
| `session`, `token`, `childFile`, `local` | `session.json`, `unlock-token.json`, `state/runtime-children.json`, the local `profile.json.enc` |
| `procs` | the host's process table, restricted to the pids children may have; `foreign` is a pid that was reused |
| `usb` | what `detect_usb` finds |
| `BeginStart`, `CleanupRead`, `CleanupRemove`, `WriteSession` | `start_session` with `cleanup_stale_session` |
| `StopRead`, `StopKill`, `StopUnlink` | `stop_runtime`, shared by stop, uninstall, runtime-start and watchdog |
| `RemoveSession`, `RemoveToken` | the rest of `stop_session` and the lock API |
| `PlanRuntime`, `Spawn`, `WriteChildState` | `runtime_start_command`, `start_runtime` |
| `CheckUnlock`, `WriteToken`, `StatusToken`, `StatusRemoveToken` | unlock, and `unlock_status`, which removes an expired token |
| `WatchSession`, `WatchRuntime`, `WatchProfile` | one round of the watchdog: its three observations and the decision after each |
| `BeginImport`, `ImportWrite` | the profile is truncated and then written |

Abstractions: a manifest is `lan` or `local` by whether it has a LAN proxy
listener, `legacyLan` or `legacy` when it is one without this version and a session id,
which a start takes for stale and runtime-start does not look at; the child record holds one child, as the code only writes one; a
token is fresh or expired.  Four history variables are read by properties
only: `dropped` (a start removed a manifest of another version under a recorded
child), `raced` (a runtime-start overlapped another `stop_runtime`), `leaked`
(children a failed signal or a cut short start left behind) and `settled`
(stops no creating command has overlapped).

### 2.2 PhoneTether

| model | code |
|---|---|
| `events`, `policy` | `network-events.json`, capped at the newest `Cap` events (80 in the code), `upstream-policy.json` |
| `phase`, `conn`, `demoted` | the interface as NetworkManager moves it, and the profiles whose `never-default` is set |
| `BeginScan` ... `ScanDone` | `network_events_json`: discover, mark presence, record what prompts |
| `RecordRead`, `RecordWrite` | `record_phone_tether_event`, called by scan and guard |
| `BeginGuard`, `GuardApply` | the dispatcher's `phone-tether-guard-apply`, which NetworkManager waits for before a connection comes up |
| `BeginSelect`, `SelectApply`, `SavePolicy...`, `SelectWrite` | `upstream_select` with one store read at the start and written at the end |

`clobbered` records that two processes held data read from one file at once;
`answered` the phones whose decision ran alone.  What a process works on
(`arg`) is always a `Request`; its own copies of the two files are `snap` and
`psnap`.

`Ledger` maps the files to `PromptLedger`: an event shows its device and whether it
was answered, and a saved policy that it was saved.  Presence, the decision itself and
which of the commands writes are left out there; `torn` is `clobbered`.

One process at most runs the guard: NetworkManager starts its dispatcher scripts
one after the other and waits for them.  `PhoneAssumption` says so because it is
needed: a guard that is still at work for a connection that went away would let
the next one of its interface come up before that one's own guard has demoted it.

`ScanCovers` and `AnsweredStaysQuiet` are promises of one command at a time
(`Serial`); a run has as many commands as it likes, one after the other.  With
several phones they need more: a full store drops its oldest event, be it a
prompt of the same scan or an answer, so the first is promised while the store
is not full or for the only phone, the second while the answer is in the store
(`Held`).  TLC finds both counterexamples with two interfaces and a store of two
or three.

### 2.3 LanGateway

`table` is the set of rule sets in the nft table: loading a file into a table
that still exists adds to it, so a table can redirect two clients.  `ApplyFile`
... `ApplyMark` and `RemoveDelete`, `RemoveMark` are the programs and writes of
`lan_gateway_root_apply` and `_remove`; a program that fails sets `ok` to FALSE
and the code runs the next one all the same, as the actions do; it may also time
out after it took effect.  A program that cannot be started gives the text "No
such file or directory", which both deletes take for a table that was not there
(`DeleteUnrun`; `unrun` remembers it).  `Reboot` clears table and forwarding and
keeps the files.

### 2.4 HotspotGuard

`locked` is the profile's permission `user:root`, which hides the profile from
everybody else; `marker` is what a user is told instead.  The preflight's two
observations (`ReadProfile`, `ReadRoute`) and the guard (`ReadGuard`) are
separate steps, and `nmcli connection up` (`Up`) is up to 45 s after them.  An
`nmcli` call succeeds, fails, or times out after it took effect.  `moved`,
`cut` and `clean` are history.

### 2.5 ProxyConnection

A stream is four counters: units sent by a peer, taken by the proxy, put into
the other socket, got at the other end.  The paths of the code differ in
what happens before the tunnel (`Establish`, `Forward`, `ReadReply`) and in the
plain request that is sent directly (`Respond`, `Relay`); the bridge and the child
(`Raw`) have no request head and nothing but the tunnel, the bridge without its timeout.  `ServePeer` is one
round of the tunnel's loop: one `recv`, then `sendall` on a socket that does not
block, which writes what fits and gives up.  `held` and `lost` follow what was
taken and not yet, or never, written.

`Streams` maps the connection to `RelayedStreams`, which knows neither paths nor
buffers: what is sent is on its way until it is passed on or dropped; the first
units of a direct CONNECT may be forgotten (`Forget`, the `Forgets` of `NoHole`);
a connection ended by the end of a peer's stream has passed all of it on (`End`),
any other end may drop what was on its way (`Cut`), and nothing follows either.

### 2.6 SplitRoute

| model | code |
|---|---|
| `cache` | the class attribute `cache`: one dated decision per host |
| `answer`, `moved` | what names resolve to at the moment, and when that last changed |
| `clock`, `setBack` | `time.time()` and how far it was set back in all |
| `Accept`, `LookUp`, `Resolve`, `Store` | `route`: the time is read first, then the cache under the lock, then the name without it, then the entry is written with the time read first |
| `ChooseRoute` | `choose_route`: the proxy list, the direct list, addresses, then the networks of all IPv4 answers |
| `Connect` | `create_connection`, which resolves again and tries IPv6 as well |
| `KeyOf`, `written` | the host without the dots around it, which decides, and as the request has it, which is connected to |

`since`, in a decision, is when the host was resolved; properties measure an entry's
age by it and not by the time the code writes into it.

### 2.7 ProfileSchema and ProfileStore

A profile is a record of what the checks look at; `ValidateProfile`,
`UpstreamToProfile`, `DecideRoute` and `FailoverOrder` are the functions of those
names.  `RouteIdOf` stands for `normalize_route_id`: tags may share an id or have none.
An empty or missing target of the split rules is accepted (`ValidSplit`).

A file holds nothing, no JSON, an envelope, or an envelope that does not
decrypt (two writers' texts mixed); `encrypted_profile_status` takes the last
two kinds for the same.  `BeginEncrypt`, `BeginConvert`, `BeginImport` and `BeginExport` are the
commands up to the point where a file is opened; `Open` empties it; `Write`
puts the text in, or finds the disk full, or is refused the `chmod` after it.
`BeginUse`, `FindSource` and
`UseRead` are unlock (command line and API) and runtime-start: they look for a
source, sometimes twice, and then read it.  `PollRead` and `PollRemove` are `unlock_status`, which
every status report runs.  `hist` remembers what a report is measured against,
and that another command has touched the same file.  `command`, `source`,
`target`, `held` (the envelope a command has read or is to write), `phrase` and
`outcome` are the locals and the report of each process.

### 2.8 PhoneEgress

`phone` is the address each interface has, `rules` the addresses with a rule,
`links` and `default` the routes of table 18190.  `FindPhone` and
`FindPending` are `current_phone_egress_plan`, `NoAddress`, `ApplyAddress` and
`RemoveAddress` the read of `phone_egress_plan`: the phone is found first, its
address a moment later.  `ApplyLink`, `ApplyDefault`, `ApplyRule`, `RemoveRule`
and `RemoveFlush` are the `ip` programs, all of which run whatever the one before returned;
a remove that cannot start `ip` takes its error for a rule that was not there.  The kernel
drops routes with their interface and keeps rules (`Unplug`, `Address`).
`RuleShown` is the check for an existing rule; it never finds one, because
`ip rule show` prints a single address without the `/32` it looks for.

## 3. The runs

Bounds are in the `.cfg` files and named in the modules.

| run | instance | distinct states | shows |
|---|---|---|---|
| `agent_race` | three processes (start; runtime-start or stop; watchdog), two pids with reuse, one crash; pids are symmetric | 1.7 million | `NoOrphan`, `AtMostOneChild`, `StopSettles` and their inductive invariant `IInv` |
| `agent_serial` | one process, all ten commands, two crashes | 402 thousand | `ManifestOutlivesChild`; refinement of `GatewayLifecycle` |
| `agent_daemon` | an operator and the daemon, fairness | 192 thousand | `UsbRemovalLocks`, `StaleRecordCleaned`, `ProfileLossLocks` |
| `profile_store` | a process that encrypts, converts and unlocks for the API, one that imports, exports, unlocks, starts, polls and locks; two hand-made profiles, two upstream files, one crash | 797 thousand | `SuccessIsWhole`, `BlockedIsAllOrNothing`, `LocalComesFirst`, `RoutesLead`, `FreshTokenStays`, `IInv` |
| `phone_serial` | one process, all three commands, two connections, store of two, one crash | 1.6 million | `ScanCovers`, `AnsweredStaysQuiet`, `IInv` |
| `phone_race` | poll, dispatcher and decision, store of two, one crash, fairness | 232 thousand | `NoSilentTakeover`, `DecisionsEnforced`, `NoDuplicatePending`, `KeepsLedger`, `NewPhoneIsAnnounced` |
| `phone_replug` (violation) | one process, one phone, fairness | | `PhoneIsAnnounced` fails |
| `phone_egress` | two processes (symmetric), two phones, two addresses in two networks | 1.3 million | `AppliedEgress`, `RemovedEgress` |
| `lan_gateway` | two processes, three clients on two networks | 657 thousand | `OneClient`, `SuccessSettles`, `IInv` |
| `hotspot_guard` | root and a user, two interfaces | 129 thousand | `CutsOnlyIfMoved`, `FailedStartRelocks`, `UserIsTold`, `IInv` |
| `proxy_connection` | all paths, buffers of two, streams of two to four units, fairness | 88 thousand | `NoHole`, `PageIsAlone`, `EndsComplete`, `ConnectionEnds`; refinement of `RelayedStreams` (`PeersRely`) |
| `split_route` | two threads (symmetric), a name that moves, one on both lists, an address, as it is and with a dot after it; entry life 2, clock 0 to 3, set back by 1 | 1.3 million | `MovesAreFollowed`, `HomeOnly`, `IInv` |

Why the bounds are enough.

* *Agent.*  A lost child needs two processes inside `stop_runtime`'s section
  (one of them a runtime-start) and a second pid for the second child; a third
  process (a start) replaces the manifest under both.  Reuse needs one foreign
  process.  With one crash a start is cut short between spawn and record.  That
  the safety properties hold for any number of processes, pids and crashes is
  proved (section 5).
* *Profiles.*  Two processes are enough to write one file together, to change a
  source between its check and its read, and to unlock while a poll removes a
  token.  The upstream files have two tags of one id, a tag with no id, a final
  outbound, and no tag at all; one hand-made profile names a route it does not
  have, the other is the template with an empty target.  The medium may at any time hold any profile that could be on it.
* *Phone egress.*  Two phones share the table, and each may get the address the
  other has; with two commands every pair of steps overlaps.  Crashes, failures
  and reboots are unbounded.
* *Phone.*  Two events are enough to fill and overflow the store; two
  connections give one known, one other and one unknown name; presence and
  suppression are about one interface, and interfaces share nothing but the
  store.  The race run uses one process of each kind, as the desktop does.
  `StaleDecisions` (a user who decides on an event that was answered meanwhile)
  multiplies the states and is off in the runs; the safety properties are proved
  for either value, any number of interfaces and any size of the store.
* *LAN gateway and hotspot.*  Two commands overlap; two networks, and two
  clients on one of them, distinguish "another client" from "another network".
  No bound is placed on crashes, failures or reboots.  Both are also proved for
  all values.
* *Proxy.*  Tunnel streams exceed the buffers (3 and 4 units over 2), so writes
  are partial and the buffer is full while more is waiting; a `recv` returns at
  most as much as a buffer.  The body of a plain request has two units, so that
  it may come with the head as a whole, in part or not at all.

* *Split proxy.*  Two threads overwrite each other's entry.  Time 3 over a life
  of 2 lets an entry expire and be used again after the clock is set back.
  `OneHost` in `MCSplitRoute` confines a behaviour to what happens to one of the
  hosts: they share neither entries nor answers.  The proofs need none of this.

`CHECK_DEADLOCK FALSE` is set only for `ProxyConnection`, where a connection
ends and nothing happens any more.

Every property of a passing run has a mutant in `PROJECT.json`: a definition of
the model with a plausible bug in it (a dropped guard, a swapped order, an
ignored failure), defined in the module just before the definition it replaces
and marked `Mutant:`.  The property is violated when it is put in.

## 4. Liveness and fairness

* `GatewayAgent`: a begun command continues (the scheduler runs it), the daemon
  begins a round again and again (`daemon_loop` never returns; systemd runs it
  with `--interval 5`), and a child that got SIGTERM
  exits.  Nothing is assumed of operators, of the medium or of profiles.
* `PhoneTether`: the GUI polls again and again (every 4 s in `src/App.tsx`) and
  a poll goes on (it runs under a timeout).  Nothing is assumed of phones, of
  NetworkManager and its dispatcher, or of decisions, which may stay half done.
* `ProxyConnection`: the thread runs whenever it can and its timers fire.
  Nothing is assumed of clients, upstreams or origin servers: they may send,
  read, finish or vanish at any time, or never.  `ConnectionEnds` therefore
  exempts a client that does not read what a blocking write has for it, the
  wait for a request's head, and the bridge, none of which has a timeout in
  the code.
* `LanGateway`, `HotspotGuard`, `PhoneEgress` and `ProfileStore` promise nothing
  in time: their commands are called once and return.  `SplitRoute` leaves the
  end of a connection to `ProxyConnection`.

## 5. What is proved

All proofs are checked by `tlapm` with Z3, Zenon and LS4.  In each module the
argument is the same: the invariant the run checks is not inductive by itself;
a stronger one, `IInv`, is a conjunction of named parts, holds initially, is
kept by every action, and implies the others.  TLC checks the same `IInv` in
the module's run (in `PhoneEgress` and `ProxyConnection`, and for `ManifestInv` in
`agent_serial`, the properties it implies).  `RelayedStreams`, `PromptLedger` and
`GatewayLifecycle` are abstract specifications: for each a lemma shows that every
step of the detailed module is one of its steps or changes nothing there.

**PhoneTetherProofs** (from `PhoneAssumption`: at most one process runs the guard,
there is an interface, the store keeps at least one event, "no connection" is
none, decisions are those the code knows).  Two layers, both for any number of
processes, interfaces, connections and crashes and any size of the store:

* `SafeInvariance`: while commands overlap and overwrite each other's files.  From
  it `TypeCorrect`, `NoTakeover`, `DecisionsTakeEffect`, `AskedOnce` and the action
  property `DecisionStays`.  The files alone are not inductive: a process
  may at any time replace one by what it read long ago.  So whatever holds of a file
  must hold of every copy (`CopiesGood`), which works because profiles stay demoted
  and no command undoes what it has read.  A decision on its way has demoted
  what it will write (`SelectHolds`), and the dispatcher works on the connection it
  holds back (`GuardHolds`).  For `DecisionStays`, while nothing was clobbered a copy is
  the file with this command's change (`Current`).
* On the same invariant rests `LedgerIsKept`: until two commands have held one file,
  the store and the policies implement `PromptLedger`.  A scan's mark shows nothing
  there (`MarkedEntries`); a record names an open question or asks one about a
  device with none (`RecordedEntries`); a decision answers one
  (`ResolvedEntries`); cutting the store drops the oldest (`CutEntries`); and the
  step after which two commands hold one file is never a write (`NoNewOverlap`).
  It implies `DecisionKept`, which is also proved on its own and not checked by a run.
* `Invariance`: what one command at a time adds.  From it `ScanLeavesNoneOut` and
  `AnsweredIsQuiet`.  A scan has covered what it has gone through
  (`CoveredSoFar`), which needs that what it saw is marked present
  (`PresentIfSeen`), one plan to an interface (`ScanSees`), and that an answer for
  always has silenced its own phone (`ResolvedDecided`, `AlwaysSaved`); no command
  is about to ask about a phone that was answered (`AskersQuiet`).

The lemmas on `Capped`, `Marked`, `Recorded` and `Suppressed` say what each does to the
place, the status and the connection of an event; the actions use nothing else of them.

**ProfileStoreProofs** (from `ProfileAssumption`: commands are known, a profile
is either entered or converted, "none" is the name of no profile, failover orders
and outbounds are lists, an empty passphrase is no passphrase).  `Invariance`, `TypeCorrect`, `WrittenIsWhole`,
`RefusalIsAllOrNothing`, `LocalFirst` and the action property
`UnexpiredStays`, for any number of processes that write the same files in
place, any profiles, upstream files and passphrases.  The strengthening: a file is open
to exactly those that are about to write it (`WritersWrite`); what a command that nobody
disturbed has found is still there (`Undisturbed`), which is what makes the
source of a copy, checked once and read later, the same; a fresh token is not
about to be removed unless it is known to be (`FreshIsSafe`); and what is loaded has
been accepted (`LoadedValid`).  The proof takes the invariant one process at a time:
what a step leaves alone keeps it (`OtherKeeps`), for a process whose files were
changed because it is measured no more (`DisturbedIsSame`).  Up to here validity is never
unfolded, so these theorems do not depend on what `ValidateProfile` checks.

The last three do.  `ConversionIsAccepted`: of whatever upstream file has a tagged
outbound, `upstream_to_v2_profile` makes a profile that `validate_profile` accepts; that
needs that among the routes one comes first (`FirstRouteIsOne`), so that the
default region and the failover order are routes.  `ConvertedRoutesLead`: a
converted profile that is loaded sends each kind of target direct or to a route that
leads to an upstream, unless an outbound was named "failover" and the failover names
itself.  `LoadedRoutesLead` is `RoutesLead` for any profile and any passphrase: so does
a hand-made one, but for kinds its rules name no route for and for failovers that go
in a circle (`Circular`), neither of which the code looks for.  A set closed
under following orders that has a failover in it and nothing else is such a circle
(`StrayedIsCircular`).  `Leads` speaks of closed sets of routes instead of
recursion, which is what makes the proof possible.

**GatewayAgentProofs** (from `AgentAssumption`: the pid that stands for "none"
is not a pid, commands are known commands).  `TypeCorrect`; `Invariance`;
`NoOrphanChild`, `OneChild`, `StopsSettle`, for any set of processes and
commands, any pids and any number of crashes.  The strengthening: which
command may be at which step (`StepOfCommand`); while no runtime-start overlaps
another `stop_runtime`, the child record holds what the process inside the
section read or nothing (`SectionOwnsRecord`), and a child whose record is about
to be removed has been signalled or cannot be (`SignalledBeforeUnlink`); what
an undisturbed stop has removed so far stays removed (`SettledStops`).  The
record argument is needed because the property alone does not say that the pid
a stop read a few steps ago is still the recorded one.
For one process that runs all commands (`OneProcess`), `ManifestOutlives`: what a runtime-start
goes on with is the manifest it saw, and what removes the manifest has stopped the children,
found none, or is a start that took it for stale (`ManifestInv`).  On it rests
`ReportFollowsLifecycle`, that the reported state implements `GatewayLifecycle`: a step
changes whether there is a manifest only while there is no record of a child
(`RecordOrManifest`), unless it is the `Drop` of the life cycle, and every such step is one
of the life cycle or changes nothing (`LifecycleStep`).

**LanGatewayProofs** (from `LanAssumption`: networks accept known clients).
`TypeCorrect`, `Invariance`, `OneClientAtATime` and `SuccessIsReal`, for any number
of commands, clients and networks.  The strengthening says what an undisturbed
command has achieved before each of its steps (`Achieved`), that a rule set is
loaded into an absent table unless a delete failed (`LoadsIntoEmpty`), and that
"alone" and "overlapped" mean what they say (`AloneIsAlone`).

**HotspotGuardProofs** (from `HotspotAssumption`: root's processes are processes,
"no interface" is none).  `TypeCorrect`, `Invariance`, `SafeStart`,
`FailedStartsRelock`, `GuardIsTold`, for any processes and interfaces.  What preflight saw still holds for a start that nothing
moved under (`SeenStillHolds`); a clean command is alone (`CleanIsAlone`) and has
done to the profile what its next marker write will claim (`GuardAsOrdered`).

**ProxyConnectionProofs** (from `ProxyAssumption`: buffers and reads have a
positive size).  `TypeCorrect`, `Invariance`, `NothingMissing`,
`PagesStandAlone`, `FinishedStreamsAreWritten`, for any buffer, read and stream
sizes.  The core is the account `taken = put + held + lost` (`Accounted`),
together with where units may be held (`HeldWhere`), until when the client has
heard nothing (`NothingSaid`) and what it has not sent yet (`NotSentYet`).
From the same invariant follow two more, both with `Busy` (a write has something to
write, a round somebody to serve):

* `PeersMayRely`: every connection implements `RelayedStreams`.  What is on its way
  there is what the proxy has not read and what it holds (`OnTheWay`); a step that
  closes is an `End` or a `Cut` (`CloseStep`), a write passes on (`PassStep`).
* `ThreadRunsOut`: every step of the thread uses some of `Fuel` (three times what
  is left of the streams, what is held, and the stage of the connection), no
  step of a peer adds to it, and it never exceeds three times the streams'
  lengths plus 8.  This is the part of `ConnectionEnds` that needs no fairness: a
  connection that does not end is one that waits for a peer, never one that loops.

**SplitRouteProofs** (from `SplitAssumption`: answers are addresses, IPv6
addresses are in no IPv4 network, the upstream is no address).  `Invariance`,
`Followed` and `DirectStaysHome`, for any threads, hosts, addresses, lists,
entry life and clock.  The strengthening relates an entry's date to when its
host was really resolved (`EntriesHold`: no later), what a thread holds to the
time it began (`ThreadHolds`), and says that a decision made since the host last moved is
the one that would be made now (`Holds`).  The age of what a thread opens is
bounded by the entry's life and what the clock was set back, which no single
test of `now - cached[0] < CACHE_TTL` says.

**PhoneEgressProofs** (from `EgressAssumption`: interfaces are numbers, every
address has a network, the marks for "none" are none).  `Invariance`, `Applied`
and `Removed`, for any number of commands, interfaces, addresses and networks.
The strengthening says that a command nothing came in the way of runs beside its
like only (`AloneAgree`), that a plan that stands is worked on by its like only
(`StandingAgree`), that no command applies a cleared address (`ClearedAgree`),
and what an undisturbed command has achieved before each of its steps
(`Achieved`).  The links, the default route and the rule are set by three
programs, and another command's may run between any two of them: the two
properties name no state in between, so neither is inductive.

Only model-checked:

* all liveness properties (`UsbRemovalLocks`, `StaleRecordCleaned`, `ProfileLossLocks`,
  `NewPhoneIsAnnounced`, `ConnectionEnds`), which are beyond the prover.  Of `ConnectionEnds`,
  `ThreadRunsOut` is proved.

## 6. Where code and documents disagree

`phone_replug` is a run that TLC finds violated: a scan marks an old answer
present again before it asks whether that answer suppresses the prompt, so an
"ignore once" outlives the absence that ought to end it.

The others are exemptions of passing properties, or follow from an action as
it is modelled:

* the watchdog says "session locked and child services stopped"
  (`agent/gateway_agent.py:250`), but it acts only while `session.json` exists:
  a runtime-start that read the manifest before the lock records its child after
  it, and no later round stops that child.  `ProfileLossLocks` claims the lock only;
* `sysctl`, `nft delete` and `nft -f` run whatever the one before returned, and
  the marker is written only if all succeeded (`ps:1479`): rules may be loaded
  while the report of the unprivileged user says "disabled" (`ps:1244`).
  `SuccessSettles` is about applies that succeed;
* a plain request sent directly is forwarded with only the part of its body
  that came with the head (`iphone_lan_split_proxy.py:341`); a server that waits for the rest
  makes the client wait for a 502.  `NoHole` allows what is never forwarded;
* a profile is written in place (`agent/profile_crypto.py:84`, `:149`): an
  import that reports "blocked" because the disk was full has destroyed the
  profile that was there, one that is cut short leaves none, and one whose `chmod`
  was refused (`:85`, `:150`) has replaced it: `BlockedIsAllOrNothing`;
* a runtime is started from any manifest with a LAN proxy listener
  (`agent/runtime_launcher.py:31`), but a start removes one that is not of its version
  (`agent/session_store.py:162`), under the running child: the `dropped` of
  `ManifestOutlivesChild`, and `Drop` of `GatewayLifecycle`;
* a program that cannot be started is reported as "No such file or directory"
  (`ps:126`), which the removes of the LAN gateway (`ps:1495`) and of the phone egress
  (`ps:814`) read as nothing to remove, and report success: the `unrun` of
  `SuccessSettles`, and what `RemovedEgress` calls undisturbed;
* while the local profile is being written, unlock and runtime-start take that
  of the recovery medium: the `clean` of `LocalComesFirst`;
* a status report that saw an expired token removes the one an unlock has
  written since: the `raced` of `FreshTokenStays`;
* an outbound named "failover" is replaced by the failover route made of the
  outbounds, which then names itself (`agent/upstream_profile.py:69`), and a
  profile without a foreign target is accepted though foreign targets then go to
  a route "new" it need not have (`agent/route_policy.py:18`): the exemptions of `RoutesLead`;
* failovers that go in a circle in a hand-made profile are accepted
  (`agent/profile_schema.py:119` checks that they name routes), and lead nowhere; so is
  a target that is null or empty (`:147`), which `decide_route` returns as it
  is: `Circular` and `Sends`.  `decide_route` is called by tests only;
* direct connections resolve the host again, and over IPv6 as well, which the
  decision never looks at, and as the host is written, though dots around it are
  stripped for the decision (`iphone_lan_split_proxy.py:220`): the exemptions of `HomeOnly`;
* a name on both lists goes to the proxy: the proxy list is asked first;
* the egress rule of a phone that went or got another address stays, and a
  repeated apply reports a failure though nothing is wrong: `RuleShown`;

* the dispatcher records a prompt without looking at answered events
  (`ps:834`), and a scan that overlaps a decision may record the phone it found
  unanswered (`ps:848`): `AnsweredStaysQuiet` leaves both out, and an answer
  that left the full store (`ps:573`);
* an answer "always" given while the connection name is unknown is saved under
  the empty name (`ps:890`) and does not hold once the name is known;
* a failed delete is followed by the load (`ps:1473`), after which two clients
  are redirected: the `deleteFailed` of `OneClient`;
* the default route may move to the hotspot's adapter between preflight and
  `nmcli up` (`ps:486`), although `docs/SAFETY.md:16-17` rules out a hotspot on
  the upstream's adapter: the "moved" of `CutsOnlyIfMoved`;
* two overlapping runtime-starts lose a child: the `raced` of `NoOrphan`;
* what arrives with the head of a direct CONNECT is dropped: the `Forgets` of
  `NoHole`;
* the coverage report looks for the client's address as text in the table
  (`ps:1276`), so `10.0.0.2` is found in a table for `10.0.0.20`.

## 7. Not modelled

* Read-only probes: health, diagnostics, the port registry, status and self
  check, the coverage report's checks, verification scripts.
* The character work of `normalize_route_id` and of the host patterns, and
  encryption itself: AES-GCM is taken to tell what was written with the
  passphrase from anything else.
* The text of rule files, reports and pages; argument parsing.
* The shared temporary file of `write_json_file` (`ps:278`): a write is one
  step here.
* The child that goes on serving after the unlock token expired: no document
  promises that it stops.
* The macOS kit and the order in which the web UI applies answers: planned,
  below.
* The desktop shell, installers and self update: one straight sequence each,
  with no state shared with a concurrent actor.

## 8. Plan

In this order:

1. `MacVpn` - upstream profile, rendered profile, the user's and root's launchd
   job; import replaces the upstream before it renders; at most one job runs a
   tunnel, and a job runs the profile the user last imported.
2. `Workbench` - polls and actions of the web UI whose answers arrive in any
   order.
3. The temporary file of `write_json_file` as a refinement of the atomic write.
