---------------------------- MODULE HotspotGuard ----------------------------
(***************************************************************************)
(* The hotspot launcher of runtime/proxy-stack/proxy_stack.py:             *)
(* hotspot-start-safe with its preflight, and the two commands that lock   *)
(* the NetworkManager profile away from the GUI and unlock it.             *)
(*                                                                         *)
(* The profile is locked by the permission user:root: nmcli then shows it  *)
(* to root only, and everybody else is told by a marker file.  A command   *)
(* is a sequence of nmcli calls and marker writes; commands of root and of *)
(* a user may overlap, calls fail or time out, commands are cut short.     *)
(***************************************************************************)
CONSTANTS
    Procs,    \* processes that run a command
    Root,     \* those of them that run as root
    Ifaces,   \* network interfaces
    NoIface   \* no interface: no fixed one, no default route

ASSUME HotspotAssumption == Root \subseteq Procs /\ NoIface \notin Ifaces

VARIABLES
    locked,   \* connection.permissions = user:root
    marker,   \* the guard's marker file: "none", "on" or "off"
    apIface,  \* connection.interface-name of the profile
    active,   \* the interface on which the hotspot is active
    route,    \* the interface of the default route
    pc, iface, guarded,
    \* history, read by properties only
    moved,    \* starts since whose preflight reads the route or profile changed
    cut,      \* starts that took the upstream down: "still" or "moved"
    clean     \* commands that ran alone and whose calls all did as they said

network == <<apIface, active, route>>
guard   == <<locked, marker>>
hist    == <<moved, cut, clean>>
vars    == <<network, guard, pc, iface, guarded, hist>>

At(p, label) == pc[p] = label
Busy(p) == ~At(p, "idle")
Goto(p, label) == pc' = [pc EXCEPT ![p] = label]

\* A command's own writes are all it needs to see: others spoil that.
Begin(p, label) ==
    /\ At(p, "idle")
    /\ Goto(p, label)
    /\ LET others == {q \in Procs \ {p} : Busy(q)}
       IN  clean' = IF others = {} THEN clean \cup {p} ELSE clean \ others
    /\ moved' = moved \ {p}
    /\ UNCHANGED cut

Finish(p) ==
    /\ Goto(p, "idle")
    /\ iface' = [iface EXCEPT ![p] = NoIface]
    /\ guarded' = [guarded EXCEPT ![p] = FALSE]
    /\ moved' = moved \ {p}
    /\ clean' = clean \ {p}
    /\ UNCHANGED cut

\* Something changes that every command has read but those at the given steps.
Moves(before) == moved' = moved \cup {p \in Procs : Busy(p) /\ pc[p] \notin before}

Visible(p) == p \in Root \/ ~locked

\* hotspot_gui_guard_status: a hidden profile is locked if the marker says so.
GuardEnabled(p) == IF Visible(p) THEN locked ELSE marker = "on"

----------------------------------------------------------------------------
(* hotspot_start_safe *)

BeginStart(p) ==
    /\ Begin(p, "st_profile")
    /\ UNCHANGED <<network, guard, iface, guarded>>

\* Mutant: the interface is taken from the default route, not the profile.
ReadProfile_LaterInterface(p) ==
    /\ At(p, "st_profile")
    /\ \/ /\ Visible(p) /\ apIface # NoIface
          /\ iface' = [iface EXCEPT ![p] = route]
          /\ Goto(p, "st_route")
          /\ UNCHANGED <<guarded, hist>>
       \/ ~(Visible(p) /\ apIface # NoIface) /\ Finish(p)
    /\ UNCHANGED <<network, guard>>

\* Preflight: a hidden profile or one without a fixed interface is refused.
ReadProfile(p) ==
    /\ At(p, "st_profile")
    /\ \/ /\ Visible(p) /\ apIface # NoIface
          /\ iface' = [iface EXCEPT ![p] = apIface]
          /\ Goto(p, "st_route")
          /\ UNCHANGED <<guarded, hist>>
       \/ ~(Visible(p) /\ apIface # NoIface) /\ Finish(p)
    /\ UNCHANGED <<network, guard>>

\* Mutant: any default route will do.
ReadRoute_AnyRoute(p) ==
    /\ At(p, "st_route")
    /\ \/ route # NoIface /\ Goto(p, "st_guard") /\ UNCHANGED <<iface, guarded, hist>>
       \/ route = NoIface /\ Finish(p)
    /\ UNCHANGED <<network, guard>>

\* Preflight: the default route must use another interface.
ReadRoute(p) ==
    /\ At(p, "st_route")
    /\ \/ /\ route \notin {NoIface, iface[p]}
          /\ Goto(p, "st_guard")
          /\ UNCHANGED <<iface, guarded, hist>>
       \/ route \in {NoIface, iface[p]} /\ Finish(p)
    /\ UNCHANGED <<network, guard>>

\* A locked profile is unlocked by root and refused to others.
ReadGuard(p) ==
    /\ At(p, "st_guard")
    /\ \/ ~GuardEnabled(p) /\ Goto(p, "st_up") /\ UNCHANGED <<iface, guarded, hist>>
       \/ /\ GuardEnabled(p) /\ p \in Root
          /\ guarded' = [guarded EXCEPT ![p] = TRUE]
          /\ Goto(p, "st_unlock")
          /\ UNCHANGED <<iface, hist>>
       \/ GuardEnabled(p) /\ p \notin Root /\ Finish(p)
    /\ UNCHANGED <<network, guard>>

\* The next step of the command of p, with what is left of its locals.
Then(p, label) ==
    IF label = "idle" THEN Finish(p)
    ELSE Goto(p, label) /\ UNCHANGED <<iface, guarded, moved, cut, clean>>

\* nmcli connection modify ... connection.permissions: done, refused, or timed
\* out after the change was made.
Modify(p, value, done, failed) ==
    /\ \/ Visible(p) /\ locked' = value /\ Then(p, done)
       \/ UNCHANGED locked /\ Then(p, failed)
       \/ /\ Visible(p) /\ locked' = value
          /\ IF failed = "idle" THEN Finish(p)
             ELSE /\ Goto(p, failed)
                  /\ clean' = clean \ {p}
                  /\ UNCHANGED <<iface, guarded, moved, cut>>
    /\ UNCHANGED <<network, marker>>

\* write_gui_guard_marker: an OSError is swallowed.
WriteMarker(p, value, next) ==
    /\ \/ marker' = value /\ Then(p, next)
       \/ /\ UNCHANGED marker
          /\ IF next = "idle" THEN Finish(p)
             ELSE /\ Goto(p, next)
                  /\ clean' = clean \ {p}
                  /\ UNCHANGED <<iface, guarded, moved, cut>>
    /\ UNCHANGED <<network, locked>>

Unlock(p)     == At(p, "st_unlock") /\ Modify(p, FALSE, "st_unmark", "idle")
UnlockMark(p) == At(p, "st_unmark") /\ WriteMarker(p, "off", "st_after")

\* hotspot_gui_guard_disable looks again; a guard that is still on ends it.
UnlockCheck(p) ==
    /\ At(p, "st_after")
    /\ Then(p, IF GuardEnabled(p) THEN "idle" ELSE "st_up")
    /\ UNCHANGED <<network, guard>>

\* The hotspot comes up on i and takes the upstream down if i carries it.
Activate(p, i) ==
    /\ active' = i
    /\ route' = IF route = i THEN NoIface ELSE route
    /\ cut' = IF route # i THEN cut
              ELSE cut \cup {IF p \in moved THEN "moved" ELSE "still"}
    /\ IF route = i THEN Moves({"st_profile", "st_route"}) ELSE UNCHANGED moved

\* Mutant: the guard is not put back.
Up_NoRelock(p) ==
    /\ At(p, "st_up")
    /\ \/ Visible(p) /\ apIface # NoIface /\ Activate(p, apIface)
       \/ UNCHANGED <<active, route, moved, cut>>
    /\ Goto(p, "st_failed")
    /\ UNCHANGED <<apIface, guard, iface, guarded, clean>>

AfterFailure(p) == IF guarded[p] THEN "st_relock" ELSE "st_failed"

\* nmcli connection up: done, refused, or timed out while it still comes up;
\* unless it is done, root puts back the guard it removed.
Up(p) ==
    /\ At(p, "st_up")
    /\ \/ /\ Visible(p) /\ apIface # NoIface
          /\ Activate(p, apIface)
          /\ Goto(p, "st_done") \/ Goto(p, AfterFailure(p))
       \/ /\ Goto(p, AfterFailure(p))
          /\ UNCHANGED <<active, route, moved, cut>>
    /\ UNCHANGED <<apIface, guard, iface, guarded, clean>>

Relock(p)     == At(p, "st_relock") /\ Modify(p, TRUE, "st_remark", "idle")
RelockMark(p) == At(p, "st_remark") /\ WriteMarker(p, "on", "st_failed")

----------------------------------------------------------------------------
(* hotspot-gui-guard-enable and hotspot-gui-guard-disable *)

BeginGuard(p) ==
    /\ \/ Begin(p, "en_modify") \/ Begin(p, "di_modify")
    /\ UNCHANGED <<network, guard, iface, guarded>>

\* Mutant: "enable" trusts the marker of an earlier run.
EnableMark_Skipped(p) ==
    At(p, "en_mark") /\ Then(p, "en_done") /\ UNCHANGED <<network, guard>>

Enable(p)      == At(p, "en_modify") /\ Modify(p, TRUE, "en_mark", "idle")
EnableMark(p)  == At(p, "en_mark")   /\ WriteMarker(p, "on", "en_done")
Disable(p)     == At(p, "di_modify") /\ Modify(p, FALSE, "di_mark", "idle")
DisableMark(p) == At(p, "di_mark")   /\ WriteMarker(p, "off", "di_done")

\* The command returns.
Return(p) ==
    /\ pc[p] \in {"st_done", "st_failed", "en_done", "di_done"}
    /\ Finish(p)
    /\ UNCHANGED <<network, guard>>

----------------------------------------------------------------------------
(* Failures and the environment *)

\* A command is cut short: the server's time limit for an action is 40 s.
Crash(p) ==
    /\ Busy(p)
    /\ Finish(p)
    /\ UNCHANGED <<network, guard>>

RouteChange ==
    /\ route' \in (Ifaces \cup {NoIface}) \ {route, active}
    /\ Moves({"st_profile", "st_route"})
    /\ UNCHANGED <<apIface, active, guard, pc, iface, guarded, cut, clean>>

\* The operator edits the profile, which is not active.
ProfileEdit ==
    /\ active = NoIface
    /\ apIface' \in (Ifaces \cup {NoIface}) \ {apIface}
    /\ Moves({"st_profile"})
    /\ UNCHANGED <<active, route, guard, pc, iface, guarded, cut, clean>>

HotspotDown ==
    /\ active # NoIface
    /\ active' = NoIface
    /\ UNCHANGED <<apIface, route, guard, pc, iface, guarded, hist>>

Init ==
    /\ locked = FALSE /\ marker \in {"none", "off"}
    /\ apIface \in Ifaces /\ active = NoIface
    /\ route \in Ifaces \cup {NoIface}
    /\ pc = [p \in Procs |-> "idle"]
    /\ iface = [p \in Procs |-> NoIface]
    /\ guarded = [p \in Procs |-> FALSE]
    /\ moved = {} /\ cut = {} /\ clean = {}

Start(p) ==
    \/ BeginStart(p) \/ ReadProfile(p) \/ ReadRoute(p) \/ ReadGuard(p)
    \/ Unlock(p) \/ UnlockMark(p) \/ UnlockCheck(p)
    \/ Up(p) \/ Relock(p) \/ RelockMark(p)

GuardCommand(p) ==
    \/ BeginGuard(p) \/ Enable(p) \/ EnableMark(p) \/ Disable(p) \/ DisableMark(p)

Next ==
    \/ \E p \in Procs : Start(p) \/ GuardCommand(p) \/ Return(p) \/ Crash(p)
    \/ RouteChange \/ ProfileEdit \/ HotspotDown

Spec == Init /\ [][Next]_vars

----------------------------------------------------------------------------
(* Properties *)

TypeOK ==
    /\ locked \in BOOLEAN /\ marker \in {"none", "on", "off"}
    /\ apIface \in Ifaces \cup {NoIface}
    /\ active \in Ifaces \cup {NoIface}
    /\ route \in Ifaces \cup {NoIface}
    /\ pc \in [Procs -> {"idle", "st_profile", "st_route", "st_guard", "st_unlock",
                         "st_unmark", "st_after", "st_up", "st_relock", "st_remark",
                         "st_done", "st_failed", "en_modify", "en_mark", "en_done", "di_modify",
                         "di_mark", "di_done"}]
    /\ iface \in [Procs -> Ifaces \cup {NoIface}]
    /\ guarded \in [Procs -> BOOLEAN]
    /\ moved \subseteq Procs /\ clean \subseteq Procs
    /\ cut \subseteq {"still", "moved"}

\* The safe start never takes the default route down, except when the route or
\* the profile's interface changed between preflight and nmcli up, however
\* guard commands, timed-out activations and other starts interleave.
CutsOnlyIfMoved == "still" \notin cut

\* A start that found the profile locked, unlocked it and could not bring the
\* hotspot up has locked it again and said so, unless a call of it misreported,
\* it was cut short or another command overlapped.
FailedStartRelocks == \A p \in clean :
    At(p, "st_failed") /\ guarded[p] => locked /\ marker = "on"

\* A guard command that did what it said leaves profile and marker in agreement,
\* so that a user, from whom the profile is hidden, is told the truth.
UserIsTold == \A p \in clean :
    /\ At(p, "en_done") => locked /\ \A q \in Procs : GuardEnabled(q)
    /\ At(p, "di_done") => ~locked /\ marker = "off"

(***************************************************************************)
(* The inductive invariant behind these three                              *)
(***************************************************************************)

\* A clean command is the only one that runs.
CleanIsAlone == \A p \in clean :
    Busy(p) /\ \A q \in Procs : Busy(q) => q = p

Checked == {"st_guard", "st_unlock", "st_unmark", "st_after", "st_up"}

\* What preflight has seen still holds for a start that nothing moved under.
SeenStillHolds == \A p \in Procs \ moved :
    /\ pc[p] \in Checked \cup {"st_route"} => iface[p] = apIface
    /\ pc[p] \in Checked => route # iface[p]

\* What a clean command has done to the profile before it writes the marker.
GuardAsOrdered == \A p \in clean :
    /\ pc[p] \in {"st_remark", "en_mark"} => locked
    /\ pc[p] = "di_mark" => ~locked

IInv ==
    /\ TypeOK /\ CleanIsAlone /\ SeenStillHolds /\ GuardAsOrdered
    /\ CutsOnlyIfMoved /\ FailedStartRelocks /\ UserIsTold
=============================================================================
