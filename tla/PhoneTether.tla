----------------------------- MODULE PhoneTether -----------------------------
(***************************************************************************)
(* USB phone tethering in runtime/proxy-stack/proxy_stack.py.              *)
(*                                                                         *)
(* Three commands, each a process of its own, share network-events.json,   *)
(* upstream-policy.json and the NetworkManager profiles without a lock:    *)
(*   scan    network_events_json, polled by the GUI                        *)
(*   guard   phone_tether_guard_apply, run by the NetworkManager           *)
(*           dispatcher for the actions pre-up and up                      *)
(*   select  upstream_select, a decision of the user                       *)
(* Each of them reads a whole file, changes the data it read and replaces  *)
(* the whole file, so one action is one such access.                       *)
(*                                                                         *)
(* Data abstraction: the driver is a function of the interface, every      *)
(* interface of Ifaces is driven by a phone driver, and an event keeps     *)
(* only the fields that decide something.                                  *)
(***************************************************************************)
EXTENDS Naturals, Sequences

CONSTANTS
    Procs,       \* processes that run commands
    Ops,         \* Ops[p]: the commands process p may run
    Ifaces,      \* phone network interfaces
    Conns,       \* NetworkManager connection profiles
    NoConn,      \* the empty connection name
    Decisions,   \* the choices the user is offered
    Cap,         \* number of events the store keeps (80 in the code)
    FastReplug,  \* may a phone be replugged before a scan saw it absent?
    StaleDecisions, \* may a decision name an event that is no longer pending?
    MaxCrashes   \* bound: how many commands may be cut short

OpNames == {"scan", "guard", "select"}
UsePhone == {"use-phone-once", "always-use-phone"}
Always   == {"always-keep-current", "always-use-phone"}
Choices  == {"keep-current", "ignore-once"} \cup UsePhone \cup Always

ASSUME PhoneAssumption ==
    /\ Ops \in [Procs -> SUBSET OpNames]
    \* NetworkManager runs its dispatcher scripts one at a time.
    /\ \A p, q \in Procs : "guard" \in Ops[p] \cap Ops[q] => p = q
    /\ Ifaces # {}
    /\ NoConn \notin Conns
    /\ Decisions \subseteq Choices
    /\ Cap \in Nat \ {0}
    /\ FastReplug \in BOOLEAN /\ StaleDecisions \in BOOLEAN
    /\ MaxCrashes \in Nat

VARIABLES
    \* files
    events,    \* network-events.json: the events, oldest first
    policy,    \* upstream-policy.json: the saved policy of a device
    \* NetworkManager and the kernel
    phase,     \* of each interface: absent, down, pre_up, guarding, up
    conn,      \* connection of each interface
    demoted,   \* profiles that may never carry the default route
    \* processes
    pc, op, arg,
    seen, todo, \* the plans a scan discovered, and those still to prompt for
    snap, psnap, \* what the process read from the two files
    crashes,   \* number of commands cut short
    \* history, read by properties only
    unguarded, \* profiles whose demotion failed or was cut short
    answered,  \* devices answered for, by a decision that ran alone, and not asked
               \* about by the dispatcher since they appeared
    clobbered  \* have two read-modify-writes of one file overlapped?

files  == <<events, policy>>
net    == <<phase, conn, demoted>>
locals == <<pc, op, arg, seen, todo, snap, psnap>>
hist   == <<unguarded, answered>>
vars   == <<files, net, locals, crashes, hist, clobbered>>

Plans   == [iface : Ifaces, conn : Conns \cup {NoConn}]
Keys    == Plans       \* phone_tether_policy_key
Phases  == {"absent", "down", "pre_up", "guarding", "up"}
Saved   == {"prompt", "keep-current", "use-phone-port"}
Event   == [iface : Ifaces, conn : Conns \cup {NoConn},
           status : {"pending", "resolved"}, present : BOOLEAN,
           decision : Choices \cup {"none"}]
NoPolicy == [key \in Keys |-> "prompt"]

----------------------------------------------------------------------------
(* Operators on the store *)

\* Mutant: the oldest events are kept.
Capped_KeepsOldest(s) == IF Len(s) > Cap THEN SubSeq(s, 1, Cap) ELSE s

\* Mutant: the store is never cut.
Capped_Unbounded(s) == s

\* write_network_event_store: only the newest events are kept.
Capped(s) == IF Len(s) > Cap THEN SubSeq(s, Len(s) - Cap + 1, Len(s)) ELSE s

SameConn(c, d) == c = d \/ c = NoConn \/ d = NoConn

\* phone_event_matches_plan
Matches(e, plan) == e.iface = plan.iface /\ SameConn(e.conn, plan.conn)

\* Mutant: only "ignore once" suppresses.
Suppressed_IgnoreOnly(s, plan) == \E k \in DOMAIN s :
    /\ Matches(s[k], plan)
    /\ s[k].status = "resolved"
    /\ s[k].present
    /\ s[k].decision = "ignore-once"

\* resolved_phone_event_suppresses_plan
Suppressed(s, plan) == \E k \in DOMAIN s :
    /\ Matches(s[k], plan)
    /\ s[k].status = "resolved"
    /\ s[k].present
    /\ s[k].decision \in {"ignore-once", "keep-current", "use-phone-once"}

\* Mutant: events of absent devices are dropped.
Marked_Prunes(s, plans) ==
    LET IsPresent(e) == \E plan \in plans : Matches(e, plan)
    IN  SelectSeq(s, IsPresent)

\* mark_phone_event_presence
Marked(s, plans) == [k \in DOMAIN s |->
    [s[k] EXCEPT !.present = \E plan \in plans : Matches(s[k], plan)]]

\* The loop of record_phone_tether_event over the pending events.
PendingFor(s, plan) ==
    {k \in DOMAIN s : s[k].status = "pending" /\ Matches(s[k], plan)}

\* Mutant: only interfaces that have a connection are looked at.
Discovered_Activated ==
    {[iface |-> i, conn |-> conn[i]] : i \in {j \in Ifaces : conn[j] # NoConn}}

\* discover_phone_tether_plans, and the saved policy of each plan
Discovered ==
    {[iface |-> i, conn |-> conn[i]] : i \in {j \in Ifaces : phase[j] # "absent"}}

Prompting(plan) == policy[plan] = "prompt"

\* Mutant: a pending event without a connection is not taken over.
Recorded_ExactConn(s, plan) ==
    LET found == {k \in DOMAIN s : /\ s[k].status = "pending"
                                   /\ s[k].iface = plan.iface
                                   /\ s[k].conn = plan.conn}
        first == CHOOSE k \in found : \A j \in found : k <= j
        old   == s[first]
    IN  IF found # {}
        THEN [s EXCEPT ![first] = [old EXCEPT
                 !.conn = IF plan.conn = NoConn THEN old.conn ELSE plan.conn,
                 !.present = TRUE]]
        ELSE Append(s, [iface |-> plan.iface, conn |-> plan.conn,
                        status |-> "pending", present |-> TRUE, decision |-> "none"])

\* record_phone_tether_event: refresh the first pending event of the device,
\* or append a new one.
Recorded(s, plan) ==
    LET found == PendingFor(s, plan)
        first == CHOOSE k \in found : \A j \in found : k <= j
        old   == s[first]
    IN  IF found # {}
        THEN [s EXCEPT ![first] = [old EXCEPT
                 !.conn = IF plan.conn = NoConn THEN old.conn ELSE plan.conn,
                 !.present = TRUE]]
        ELSE Append(s, [iface |-> plan.iface, conn |-> plan.conn,
                        status |-> "pending", present |-> TRUE, decision |-> "none"])

\* update_event in upstream_select
Resolved(s, k, decision) ==
    [s EXCEPT ![k].status = "resolved", ![k].decision = decision, ![k].present = TRUE]

----------------------------------------------------------------------------
(* Processes *)

\* k: the place of the event in the store a select has read (its id names it
\* there); first: the dispatcher runs the guard for pre-up.
Request(plan, k, decision, first) ==
    [plan |-> plan, k |-> k, decision |-> decision, first |-> first]

Requests ==
    [plan : Plans, k : 0..Cap, decision : Choices \cup {"none"}, first : BOOLEAN]

NoArg == Request([iface |-> CHOOSE i \in Ifaces : TRUE, conn |-> NoConn], 0, "none", FALSE)

Busy(p) == pc[p] # "idle"
At(p, label) == pc[p] = label

\* Process p holds data it read from the event store and will write back.
HoldsEvents(p) == pc[p] \in {"sc_mark_w", "rec_write", "se_apply", "se_pol_read",
                             "se_pol_write", "se_write"}
HoldsPolicy(p) == pc[p] = "se_pol_write"
Overlapping == \E p, q \in Procs :
    /\ p # q
    /\ \/ HoldsEvents(p) /\ HoldsEvents(q)
       \/ HoldsPolicy(p) /\ HoldsPolicy(q)

Goto(p, label) == pc' = [pc EXCEPT ![p] = label]

Finish(p) ==
    /\ pc' = [pc EXCEPT ![p] = "idle"]
    /\ op' = [op EXCEPT ![p] = "none"]
    /\ snap' = [snap EXCEPT ![p] = <<>>]
    /\ psnap' = [psnap EXCEPT ![p] = NoPolicy]
    /\ seen' = [seen EXCEPT ![p] = {}]
    /\ todo' = [todo EXCEPT ![p] = {}]
    /\ arg' = [arg EXCEPT ![p] = NoArg]

Begin(p, name, label) ==
    /\ pc[p] = "idle"
    /\ name \in Ops[p]
    /\ op' = [op EXCEPT ![p] = name]
    /\ Goto(p, label)

----------------------------------------------------------------------------
(* scan: network_events_json *)

\* The plans are discovered, each with its saved policy.
BeginScan(p) ==
    /\ Begin(p, "scan", "sc_mark")
    /\ seen' = [seen EXCEPT ![p] = Discovered]
    /\ todo' = [todo EXCEPT ![p] = {plan \in Discovered : Prompting(plan)}]
    /\ UNCHANGED <<files, net, arg, snap, psnap, crashes, hist>>

\* The store is read; it is written back only if a presence flag changed.
ScanMark(p) ==
    /\ At(p, "sc_mark")
    /\ LET marked == Marked(events, seen[p])
       IN  IF marked = events
           THEN Goto(p, "sc_loop") /\ UNCHANGED snap
           ELSE Goto(p, "sc_mark_w") /\ snap' = [snap EXCEPT ![p] = marked]
    /\ UNCHANGED <<files, net, op, arg, seen, todo, psnap, crashes, hist>>

ScanMarkWrite(p) ==
    /\ At(p, "sc_mark_w")
    /\ events' = Capped(snap[p])
    /\ Goto(p, "sc_loop")
    /\ snap' = [snap EXCEPT ![p] = <<>>]
    /\ UNCHANGED <<policy, net, op, arg, seen, todo, psnap, crashes, hist>>

\* The next plan that prompts: skipped when a resolved event suppresses it.
\* The order of the plans does not matter.
ScanNext(p) ==
    /\ At(p, "sc_loop")
    /\ \E plan \in todo[p] :
          IF Suppressed(events, plan)
          THEN /\ todo' = [todo EXCEPT ![p] = @ \ {plan}]
               /\ UNCHANGED <<pc, arg>>
          ELSE /\ Goto(p, "rec_read")
               /\ arg' = [arg EXCEPT ![p] = Request(plan, 0, "none", FALSE)]
               /\ UNCHANGED todo
    /\ UNCHANGED <<files, net, op, seen, snap, psnap, crashes, hist>>

ScanDone(p) ==
    /\ At(p, "sc_loop")
    /\ todo[p] = {}
    /\ Finish(p)
    /\ UNCHANGED <<files, net, crashes, hist>>

----------------------------------------------------------------------------
(* record_phone_tether_event, called by scan and guard *)

RecordRead(p) ==
    /\ At(p, "rec_read")
    /\ snap' = [snap EXCEPT ![p] = Recorded(events, arg[p].plan)]
    /\ Goto(p, "rec_write")
    /\ UNCHANGED <<files, net, op, arg, seen, todo, psnap, crashes, hist>>

RecordWrite(p) ==
    /\ At(p, "rec_write")
    /\ events' = Capped(snap[p])
    /\ Goto(p, IF op[p] = "scan" THEN "sc_loop" ELSE "gd_apply")
    /\ todo' = [todo EXCEPT ![p] = @ \ {arg[p].plan}]
    /\ snap' = [snap EXCEPT ![p] = <<>>]
    /\ arg' = [arg EXCEPT ![p] = IF op[p] = "scan" THEN NoArg ELSE @]
    /\ UNCHANGED <<policy, net, op, seen, psnap, crashes, hist>>

----------------------------------------------------------------------------
(* guard: phone_tether_guard_apply under the NetworkManager dispatcher *)

\* NetworkManager runs the dispatcher before a connection comes up and waits
\* for it; it runs it again for the action "up".
BeginGuard(p) == \E i \in Ifaces :
    /\ phase[i] \in {"pre_up", "up"}
    /\ LET plan == [iface |-> i, conn |-> conn[i]]
           label == IF Prompting(plan) THEN "rec_read" ELSE "gd_apply"
       IN  /\ Begin(p, "guard", label)
           /\ arg' = [arg EXCEPT ![p] = Request(plan, 0, "none", phase[i] = "pre_up")]
    /\ phase' = [phase EXCEPT ![i] = IF @ = "pre_up" THEN "guarding" ELSE @]
    /\ answered' = {plan \in answered : plan.iface # i}
    /\ UNCHANGED <<files, conn, demoted, seen, todo, snap, psnap, crashes, unguarded>>

\* The dispatcher script returns: a connection it held back comes up.
ComesUp(p) ==
    LET i == arg[p].plan.iface
    IN  phase' = IF arg[p].first /\ phase[i] = "guarding"
                 THEN [phase EXCEPT ![i] = "up"] ELSE phase

\* apply_connection_policy(connection, PHONE_TETHER_DEMOTE_POLICY): the
\* profile is demoted, or nmcli fails, which the dispatcher ignores.
GuardApply(p) ==
    /\ At(p, "gd_apply")
    /\ \/ /\ demoted' = demoted \cup {arg[p].plan.conn}
          /\ UNCHANGED unguarded
       \/ /\ unguarded' = unguarded \cup {arg[p].plan.conn}
          /\ UNCHANGED demoted
    /\ ComesUp(p)
    /\ Finish(p)
    /\ UNCHANGED <<files, conn, crashes, answered>>

----------------------------------------------------------------------------
(* select: upstream_select *)

\* What follows once the profile is demoted.
AfterApply(decision) == IF decision \in Always THEN "se_pol_read" ELSE "se_write"

\* The event store is read and the event found, whatever its status (the GUI
\* offers pending ones, but what it shows may be old).
BeginSelect(p) == \E k \in DOMAIN events, decision \in Decisions :
    LET e == events[k] IN
    /\ e.status = "pending" \/ StaleDecisions
    /\ e.conn = NoConn => decision \notin UsePhone \* phone_link_not_ready
    /\ Begin(p, "select",
             IF e.conn # NoConn /\ decision # "ignore-once" THEN "se_apply"
             ELSE AfterApply(decision))
    /\ arg' = [arg EXCEPT ![p] =
           Request([iface |-> e.iface, conn |-> e.conn], k, decision, FALSE)]
    /\ snap' = [snap EXCEPT ![p] = events]
    /\ UNCHANGED <<files, net, seen, todo, psnap, crashes, hist>>

\* Mutant: the decision to use the phone promotes its profile.
SelectApply_Promotes(p) ==
    /\ At(p, "se_apply")
    /\ \/ /\ demoted' = IF arg[p].decision \in UsePhone
                        THEN demoted \ {arg[p].plan.conn}
                        ELSE demoted \cup {arg[p].plan.conn}
          /\ Goto(p, AfterApply(arg[p].decision))
          /\ UNCHANGED <<op, arg, seen, todo, snap, psnap>>
       \/ Finish(p) /\ UNCHANGED demoted
    /\ UNCHANGED <<files, phase, conn, crashes, hist>>

\* Mutant: a failure of nmcli is not looked at.
SelectApply_IgnoresFailure(p) ==
    /\ At(p, "se_apply")
    /\ demoted' \in {demoted, demoted \cup {arg[p].plan.conn}}
    /\ Goto(p, AfterApply(arg[p].decision))
    /\ UNCHANGED <<files, phase, conn, op, arg, seen, todo, snap, psnap, crashes, hist>>

\* Every decision but "ignore-once" demotes the profile; when nmcli fails the
\* command returns without resolving the event.
SelectApply(p) ==
    /\ At(p, "se_apply")
    /\ \/ /\ demoted' = demoted \cup {arg[p].plan.conn}
          /\ Goto(p, AfterApply(arg[p].decision))
          /\ UNCHANGED <<op, arg, seen, todo, snap, psnap>>
       \/ Finish(p) /\ UNCHANGED demoted
    /\ UNCHANGED <<files, phase, conn, crashes, hist>>

SavePolicyRead(p) ==
    /\ At(p, "se_pol_read")
    /\ psnap' = [psnap EXCEPT ![p] = policy]
    /\ Goto(p, "se_pol_write")
    /\ UNCHANGED <<files, net, op, arg, seen, todo, snap, crashes, hist>>

SavePolicyWrite(p) ==
    /\ At(p, "se_pol_write")
    /\ policy' = [psnap[p] EXCEPT ![arg[p].plan] =
          IF arg[p].decision = "always-use-phone" THEN "use-phone-port" ELSE "keep-current"]
    /\ Goto(p, "se_write")
    /\ psnap' = [psnap EXCEPT ![p] = NoPolicy]
    /\ UNCHANGED <<events, net, op, arg, seen, todo, snap, crashes, hist>>

SelectWrite(p) ==
    /\ At(p, "se_write")
    /\ events' = Capped(Resolved(snap[p], arg[p].k, arg[p].decision))
    /\ answered' = IF \/ snap[p][arg[p].k].status = "resolved"
                      \/ \E q \in Procs \ {p} : Busy(q)
                   THEN answered ELSE answered \cup {arg[p].plan}
    /\ Finish(p)
    /\ UNCHANGED <<policy, net, crashes, unguarded>>

----------------------------------------------------------------------------
(* Failures and the environment *)

\* A command is killed (runCommand kills it after its timeout) or fails with
\* an uncaught error; the dispatcher ignores it.
Crash(p) ==
    /\ Busy(p)
    /\ crashes < MaxCrashes
    /\ crashes' = crashes + 1
    /\ IF op[p] = "guard"
       THEN ComesUp(p) /\ unguarded' = unguarded \cup {arg[p].plan.conn}
       ELSE UNCHANGED <<phase, unguarded>>
    /\ Finish(p)
    /\ UNCHANGED <<files, conn, demoted, answered>>

PlugIn(i) ==
    /\ phase[i] = "absent"
    /\ FastReplug \/ \A k \in DOMAIN events : events[k].iface = i => ~events[k].present
    /\ phase' = [phase EXCEPT ![i] = "down"]
    /\ UNCHANGED <<files, conn, demoted, locals, crashes, hist>>

Activate(i) ==
    /\ phase[i] = "down"
    /\ \E c \in Conns :
          /\ conn' = [conn EXCEPT ![i] = c]
          /\ phase' = [phase EXCEPT ![i] = "pre_up"]
          /\ answered' = {plan \in answered : plan.iface = i => SameConn(plan.conn, c)}
    /\ UNCHANGED <<files, demoted, locals, crashes, unguarded>>

Deactivate(i) ==
    /\ phase[i] = "up"
    /\ conn' = [conn EXCEPT ![i] = NoConn]
    /\ phase' = [phase EXCEPT ![i] = "down"]
    /\ UNCHANGED <<files, demoted, locals, crashes, hist>>

Unplug(i) ==
    /\ phase[i] # "absent"
    /\ phase' = [phase EXCEPT ![i] = "absent"]
    /\ conn' = [conn EXCEPT ![i] = NoConn]
    /\ answered' = {plan \in answered : plan.iface # i}
    /\ UNCHANGED <<files, demoted, locals, crashes, unguarded>>

----------------------------------------------------------------------------
Init ==
    /\ events = <<>>
    /\ policy = NoPolicy
    /\ phase = [i \in Ifaces |-> "absent"]
    /\ conn = [i \in Ifaces |-> NoConn]
    /\ demoted = {}
    /\ pc = [p \in Procs |-> "idle"]
    /\ op = [p \in Procs |-> "none"]
    /\ arg = [p \in Procs |-> NoArg]
    /\ seen = [p \in Procs |-> {}]
    /\ todo = [p \in Procs |-> {}]
    /\ snap = [p \in Procs |-> <<>>]
    /\ psnap = [p \in Procs |-> NoPolicy]
    /\ crashes = 0
    /\ unguarded = {}
    /\ answered = {}
    /\ clobbered = FALSE

Continue(p) ==
    \/ ScanMark(p) \/ ScanMarkWrite(p) \/ ScanNext(p) \/ ScanDone(p)
    \/ RecordRead(p) \/ RecordWrite(p)
    \/ GuardApply(p)
    \/ SelectApply(p) \/ SavePolicyRead(p) \/ SavePolicyWrite(p) \/ SelectWrite(p)

Step(A) == A /\ clobbered' = (clobbered \/ Overlapping')

Next ==
    \/ \E p \in Procs : Step(BeginScan(p) \/ BeginGuard(p) \/ BeginSelect(p)
                             \/ Continue(p) \/ Crash(p))
    \/ \E i \in Ifaces : Step(PlugIn(i) \/ Activate(i) \/ Deactivate(i) \/ Unplug(i))

Spec == Init /\ [][Next]_vars

\* The GUI polls network-events again and again, and a poll goes on; nothing is
\* assumed of the dispatcher or of decisions.
Fairness == \A p \in {q \in Procs : "scan" \in Ops[q]} :
    /\ WF_vars(Step(BeginScan(p)))
    /\ WF_vars(Step(Continue(p)))

FairSpec == Spec /\ Fairness

----------------------------------------------------------------------------
(* Properties *)

PcValues == {"idle", "sc_mark", "sc_mark_w", "sc_loop", "rec_read", "rec_write",
             "gd_apply", "se_apply", "se_pol_read", "se_pol_write", "se_write"}

TypeOK ==
    /\ events \in Seq(Event) /\ Len(events) <= Cap
    /\ policy \in [Keys -> Saved]
    /\ phase \in [Ifaces -> Phases]
    /\ conn \in [Ifaces -> Conns \cup {NoConn}]
    /\ demoted \subseteq Conns
    /\ pc \in [Procs -> PcValues]
    /\ op \in [Procs -> OpNames \cup {"none"}]
    /\ arg \in [Procs -> Requests]
    /\ seen \in [Procs -> SUBSET Plans]
    /\ todo \in [Procs -> SUBSET Plans]
    /\ snap \in [Procs -> Seq(Event)]
    /\ psnap \in [Procs -> [Keys -> Saved]]
    /\ crashes \in 0..MaxCrashes
    /\ unguarded \subseteq Conns
    /\ answered \subseteq Plans
    /\ clobbered \in BOOLEAN

\* A phone connection never comes up with a profile that may take the default
\* route, unless the dispatcher's own demotion of it failed or was cut short
\* ("Do not let USB phone tethering silently take over the host default
\* route"), whatever the user decided and saved before or meanwhile.
NoSilentTakeover == \A i \in Ifaces :
    phase[i] = "up" => conn[i] \in demoted \cup unguarded

\* A decision is stored only after it took effect: an event resolved by
\* anything but "ignore-once", and a saved policy, name a demoted profile,
\* also when commands overlap, fail or are cut short.
Enforced(s, profiles) == \A k \in DOMAIN s :
    /\ s[k].status = "resolved"
    /\ s[k].decision # "ignore-once"
    /\ s[k].conn # NoConn
    => s[k].conn \in profiles

EnforcedPolicy(f, profiles) == \A key \in Keys :
    f[key] # "prompt" /\ key.conn # NoConn => key.conn \in profiles

DecisionsEnforced == Enforced(events, demoted) /\ EnforcedPolicy(policy, demoted)

\* The user is never asked twice about one device: no two pending events of an
\* interface have the same connection or one that is still unknown, although
\* scans, the dispatcher and decisions overwrite each other's store.
Distinct(s) == \A j, k \in DOMAIN s :
    /\ j # k
    /\ s[j].status = "pending" /\ s[k].status = "pending"
    /\ s[j].iface = s[k].iface
    => ~SameConn(s[j].conn, s[k].conn)

NoDuplicatePending == Distinct(events)

\* A stored decision is not taken back, as long as no two commands held the
\* same file at once: it keeps its place in the store, but for the oldest event
\* that leaves a full store, and stays resolved.
DecisionKept == [][~clobbered =>
    \E dropped \in IF Len(events) = Cap THEN 0..1 ELSE {0} :
        \A k \in DOMAIN events :
            events[k].status = "resolved" /\ k > dropped =>
                /\ k - dropped \in DOMAIN events'
                /\ events'[k - dropped].status = "resolved"
                /\ events'[k - dropped].conn = events[k].conn]_vars

\* What a scan promises it promises while no other command runs beside it.
Serial == \A p, q \in Procs : p = q

\* The event is pending or answers the plan.
Covers(e, plan) ==
    /\ Matches(e, plan)
    /\ \/ e.status = "pending"
       \/ e.present /\ e.decision \notin Always

\* A scan ends with every discovered phone whose policy is "prompt" either
\* pending or answered, also when the store had to drop old events to take it;
\* with several phones it may have dropped the event of another one.
ScanCovers == Serial => \A p \in Procs :
    At(p, "sc_loop") /\ todo[p] = {} =>
        \A plan \in seen[p] :
            Prompting(plan) /\ (Len(events) < Cap \/ Ifaces = {plan.iface}) =>
                \E k \in DOMAIN events : Covers(events[k], plan)

\* The store holds the answer for a device.
Held(plan) == \E k \in DOMAIN events :
    events[k].status = "resolved" /\ events[k].iface = plan.iface /\ events[k].conn = plan.conn

\* A phone the user has answered for is not asked about again by the GUI's
\* scans until it goes away (test_ignore_once_suppresses_repeat_prompt_until_
\* device_is_absent) or its answer leaves a full store, in whatever order it
\* connects, gets its connection name or loses it, and commands are cut short.
\* Two things end the promise, and are left out: the dispatcher asks whatever
\* was answered, and a scan that overlaps a command may find the phone
\* unanswered.  An answer saved with "always" while the connection was unknown
\* is kept for the empty name only, so a phone with a name is looked at under
\* "prompt".
AnsweredStaysQuiet == Serial => \A plan \in answered :
    Prompting(plan) /\ Held(plan) =>
        \A k \in DOMAIN events :
            Matches(events[k], plan) => events[k].status # "pending"

\* A phone that is plugged in, whose policy is "prompt" and that no decision is
\* stored for, is eventually put to the user, unless it goes away.
Plugged(plan) == phase[plan.iface] # "absent" /\ conn[plan.iface] = plan.conn

Unknown(plan) ==
    /\ Plugged(plan)
    /\ Prompting(plan)
    /\ \A k \in DOMAIN events : Matches(events[k], plan) => events[k].status # "resolved"

NewPhoneIsAnnounced == \A plan \in Plans :
    Unknown(plan) ~> (PendingFor(events, plan) # {} \/ ~Unknown(plan))

\* "Ignore once" and the like hold "until device is absent": a phone that was
\* plugged in again, and not answered for since, is eventually put to the user.
Unanswered(plan) ==
    /\ Plugged(plan)
    /\ Prompting(plan)
    /\ \A other \in answered : ~(other.iface = plan.iface /\ SameConn(other.conn, plan.conn))

PhoneIsAnnounced == \A plan \in Plans :
    Unanswered(plan) ~> (PendingFor(events, plan) # {} \/ ~Unanswered(plan))

----------------------------------------------------------------------------
(* The inductive invariant *)

\* Which command is at which step.
StepOfOp == \A p \in Procs :
    /\ op[p] \in Ops[p] \cup {"none"}
    /\ pc[p] = "idle" <=> op[p] = "none"
    /\ pc[p] \in {"sc_mark", "sc_mark_w", "sc_loop"} => op[p] = "scan"
    /\ pc[p] \in {"rec_read", "rec_write"} => op[p] \in {"scan", "guard"}
    /\ pc[p] = "gd_apply" => op[p] = "guard"
    /\ pc[p] \in {"se_apply", "se_pol_read", "se_pol_write", "se_write"} <=> op[p] = "select"

\* A connection that is coming up or up has a name, and the dispatcher works on
\* the connection it holds back.
NamedWhenUp == \A i \in Ifaces :
    phase[i] \in {"pre_up", "guarding", "up"} => conn[i] \in Conns

GuardHolds == \A p \in Procs : op[p] = "guard" =>
    /\ arg[p].plan.conn \in Conns
    /\ arg[p].first /\ phase[arg[p].plan.iface] = "guarding" =>
          conn[arg[p].plan.iface] = arg[p].plan.conn

\* A decision works on the event it has read, and demotes before it saves.
SelectHolds == \A p \in Procs : op[p] = "select" =>
    /\ arg[p].k \in DOMAIN snap[p]
    /\ snap[p][arg[p].k].iface = arg[p].plan.iface
    /\ snap[p][arg[p].k].conn = arg[p].plan.conn
    /\ arg[p].decision \in Choices
    /\ At(p, "se_apply") => arg[p].plan.conn # NoConn
    /\ pc[p] \in {"se_pol_read", "se_pol_write"} => arg[p].decision \in Always
    /\ ~At(p, "se_apply") /\ arg[p].decision # "ignore-once" /\ arg[p].plan.conn # NoConn =>
          arg[p].plan.conn \in demoted

\* What holds of the files holds of every copy a process may write back.
Good(s) == Enforced(s, demoted) /\ Distinct(s)

CopiesGood == \A p \in Procs : Good(snap[p]) /\ EnforcedPolicy(psnap[p], demoted)

\* While no two processes have held one file, a copy is up to date.
Current == ~clobbered =>
    /\ ~Overlapping
    /\ \A p \in Procs :
          /\ At(p, "sc_mark_w") => snap[p] = Marked(events, seen[p])
          /\ At(p, "rec_write") => snap[p] = Recorded(events, arg[p].plan)
          /\ op[p] = "select" => snap[p] = events
          /\ HoldsPolicy(p) => psnap[p] = policy

SafeInv ==
    /\ TypeOK /\ StepOfOp /\ NamedWhenUp /\ GuardHolds /\ SelectHolds
    /\ NoSilentTakeover /\ DecisionsEnforced /\ NoDuplicatePending /\ CopiesGood
    /\ Current

\* A scan has seen one plan of each interface, those that are done are covered,
\* and after its mark the events that match what it has seen are present.
ScanSees == \A p \in Procs : op[p] = "scan" =>
    /\ todo[p] \subseteq seen[p]
    /\ \A plan, other \in seen[p] : plan.iface = other.iface => plan = other
    /\ pc[p] \in {"rec_read", "rec_write"} => arg[p].plan \in todo[p]
    /\ pc[p] \in {"sc_mark", "sc_mark_w"} =>
          \A plan \in seen[p] : Prompting(plan) => plan \in todo[p]

CoveredSoFar == \A p \in Procs :
    op[p] = "scan" /\ pc[p] \in {"sc_loop", "rec_read", "rec_write"} =>
        \A plan \in seen[p] \ todo[p] :
            Prompting(plan) /\ (Len(events) < Cap \/ Ifaces = {plan.iface}) =>
                \E k \in DOMAIN events : Covers(events[k], plan)

PresentIfSeen == \A p \in Procs :
    op[p] = "scan" /\ pc[p] \in {"sc_loop", "rec_read", "rec_write"} =>
        \A k \in DOMAIN events, plan \in seen[p] :
            Matches(events[k], plan) => events[k].present

\* A resolved event has a decision, and one for always is saved.
ResolvedDecided == \A k \in DOMAIN events :
    events[k].status = "resolved" =>
        /\ events[k].decision \in Choices
        /\ events[k].decision \in Always =>
              ~Prompting([iface |-> events[k].iface, conn |-> events[k].conn])

AlwaysSaved == \A p \in Procs :
    At(p, "se_write") /\ arg[p].decision \in Always => ~Prompting(arg[p].plan)

\* No command is about to ask about a phone whose answer is held.
AskersQuiet == \A p \in Procs, plan \in answered :
    /\ op[p] = "guard" => arg[p].plan.iface # plan.iface
    /\ pc[p] \in {"rec_read", "rec_write"} /\ Prompting(plan) /\ Held(plan) =>
          ~(arg[p].plan.iface = plan.iface /\ SameConn(arg[p].plan.conn, plan.conn))

Quiet ==
    /\ ~clobbered
    /\ ScanSees /\ CoveredSoFar /\ PresentIfSeen
    /\ ResolvedDecided /\ AlwaysSaved /\ AskersQuiet /\ AnsweredStaysQuiet

IInv == SafeInv /\ (Serial => Quiet)

----------------------------------------------------------------------------
(* The files as an implementation of PromptLedger *)

Shown(e) == [iface |-> e.iface, conn |-> e.conn, answered |-> e.status = "resolved"]
Entries(s) == [k \in DOMAIN s |-> Shown(s[k])]

Ledger == INSTANCE PromptLedger WITH
    ledger <- Entries(events), saved <- {key \in Keys : ~Prompting(key)}, torn <- clobbered

\* Scans, the dispatcher and decisions treat the store and the policies as
\* PromptLedger says: each of their writes is one step of it, as long as no two
\* of them held the same file.
KeepsLedger == Ledger!Spec
=============================================================================
