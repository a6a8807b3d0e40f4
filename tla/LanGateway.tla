----------------------------- MODULE LanGateway -----------------------------
(***************************************************************************)
(* LAN gateway mode of runtime/proxy-stack/proxy_stack.py: the privileged  *)
(* commands lan-gateway-root-apply and lan-gateway-root-remove, and what   *)
(* the report of the unprivileged user makes of their traces.              *)
(*                                                                         *)
(* A command is a sequence of external programs (nft, sysctl) and file     *)
(* writes, each of which may fail and after each of which the command may  *)
(* be cut short.  Two commands may overlap: nothing locks them out.  One   *)
(* action is one program run or file write.                                *)
(*                                                                         *)
(* A rule set is what render_lan_gateway_nft writes for one client on one  *)
(* network; the table holds several when a file is loaded into it while it *)
(* still exists, because nft -f adds to an existing table.                 *)
(***************************************************************************)
CONSTANTS
    Procs,      \* processes that run apply or remove
    Clients,    \* client addresses
    Nets,       \* networks (server, interface, gateway and prefix) of the host
    ClientsOn,  \* ClientsOn[n]: client addresses that network n accepts
    None        \* no network, no rules

ASSUME LanAssumption ==
    /\ ClientsOn \in [Nets -> SUBSET Clients]
    /\ None \notin Nets

Rules == [client : Clients, net : Nets]

VARIABLES
    table,     \* table inet lan_gateway: the rule sets in it, {} if it is absent
    forward,   \* net.ipv4.ip_forward
    nftFile,   \* lan_gateway.nft: a rule set or None
    marker,    \* lan_gateway_state.json: the enabled rule set or None
    net,       \* the host's default route: a network or None
    pc, plan, ok,
    \* history, read by properties only
    alone,     \* commands that no other command has overlapped
    overlapped,   \* has any command been overlapped since the table was last empty?
    deleteFailed, \* has an apply kept the table it meant to delete since then?
    unrun         \* commands whose delete of the table was never run

kernel == <<table, forward>>
files  == <<nftFile, marker>>
hist   == <<alone, overlapped, deleteFailed, unrun>>
vars   == <<kernel, files, net, pc, plan, ok, hist>>

NoPlan == None

At(p, label) == pc[p] = label
Busy(p) == ~At(p, "idle")
Goto(p, label) == pc' = [pc EXCEPT ![p] = label]

Begin(p, label) ==
    /\ At(p, "idle")
    /\ Goto(p, label)
    /\ LET others == {q \in Procs \ {p} : Busy(q)}
       IN  /\ alone' = IF others = {} THEN alone \cup {p} ELSE alone \ others
           /\ overlapped' = (overlapped \/ others # {})

Finish(p) ==
    /\ Goto(p, "idle")
    /\ plan' = [plan EXCEPT ![p] = NoPlan]
    /\ ok' = [ok EXCEPT ![p] = TRUE]
    /\ alone' = alone \ {p}
    /\ unrun' = unrun \ {p}

\* The table is gone: what went wrong before no longer matters to it.
TableGone ==
    /\ table' = {}
    /\ deleteFailed' = FALSE
    /\ overlapped' = \E p, q \in Procs : p # q /\ Busy(p) /\ Busy(q)

\* nft cannot be started: run() makes a result of it whose stderr is "[Errno 2]
\* No such file or directory", which both commands read as "no such table".
DeleteUnrun(p) ==
    /\ unrun' = IF table = {} THEN unrun ELSE unrun \cup {p}
    /\ UNCHANGED <<table, overlapped>>

----------------------------------------------------------------------------
(* lan_gateway_root_apply *)

\* lan_gateway_plan: a route, and one client inside its prefix, or no plan.
BeginApply(p) == \E c \in Clients :
    /\ net # None
    /\ c \in ClientsOn[net]
    /\ Begin(p, "ap_file")
    /\ plan' = [plan EXCEPT ![p] = [client |-> c, net |-> net]]
    /\ UNCHANGED <<kernel, files, net, ok, deleteFailed, unrun>>

ApplyFile(p) ==
    /\ At(p, "ap_file")
    /\ nftFile' = plan[p]
    /\ Goto(p, "ap_check")
    /\ UNCHANGED <<kernel, marker, net, plan, ok, hist>>

\* nft -c -f: the file may be rejected.
ApplyCheck(p) ==
    /\ At(p, "ap_check")
    /\ \/ Goto(p, "ap_forward") /\ UNCHANGED <<plan, ok, alone, unrun>>
       \/ Finish(p)
    /\ UNCHANGED <<kernel, files, net, overlapped, deleteFailed>>

\* Mutant: a failure of sysctl is not remembered.
ApplyForward_Unchecked(p) ==
    /\ At(p, "ap_forward")
    /\ forward' \in {forward, TRUE}
    /\ Goto(p, "ap_delete")
    /\ UNCHANGED <<table, files, net, plan, ok, hist>>

\* sysctl -w net.ipv4.ip_forward=1; the commands after it run in any case.  A
\* program that is killed at its timeout fails, whether it has had its effect
\* or not.
ApplyForward(p) ==
    /\ At(p, "ap_forward")
    /\ \/ forward' = TRUE /\ UNCHANGED ok
       \/ ok' = [ok EXCEPT ![p] = FALSE] /\ forward' \in {forward, TRUE}
    /\ Goto(p, "ap_delete")
    /\ UNCHANGED <<table, files, net, plan, hist>>

\* Mutant: the old table is deleted only if the marker says there is one.
ApplyDelete_IfMarked(p) ==
    /\ At(p, "ap_delete")
    /\ \/ (marker # None \/ table = {}) /\ TableGone /\ UNCHANGED <<ok, unrun>>
       \/ marker = None /\ UNCHANGED <<table, ok, overlapped, deleteFailed, unrun>>
       \/ /\ ok' = [ok EXCEPT ![p] = FALSE]
          /\ deleteFailed' = (deleteFailed \/ table # {})
          /\ UNCHANGED <<table, overlapped, unrun>>
    /\ Goto(p, "ap_load")
    /\ UNCHANGED <<forward, files, net, plan, alone>>

\* nft delete table: done or "No such file", which is no failure; an error,
\* with or without the effect; or never run.  The load follows in any case.
ApplyDelete(p) ==
    /\ At(p, "ap_delete")
    /\ \/ TableGone /\ ok' \in {ok, [ok EXCEPT ![p] = FALSE]} /\ UNCHANGED unrun
       \/ /\ \/ ok' = [ok EXCEPT ![p] = FALSE] /\ UNCHANGED <<table, overlapped, unrun>>
             \/ DeleteUnrun(p) /\ UNCHANGED ok
          /\ deleteFailed' = (deleteFailed \/ table # {})
    /\ Goto(p, "ap_load")
    /\ UNCHANGED <<forward, files, net, plan, alone>>

\* nft -f loads whatever the file holds by now, or fails, with or without the
\* effect; the marker is written if all went well.
ApplyLoad(p) ==
    /\ At(p, "ap_load")
    /\ \/ /\ ok[p]
          /\ table' = table \cup {nftFile}
          /\ Goto(p, "ap_mark")
          /\ UNCHANGED <<plan, ok, alone, unrun>>
       \/ Finish(p) /\ table' \in {table, table \cup {nftFile}}
    /\ UNCHANGED <<forward, files, net, overlapped, deleteFailed>>

\* The marker names the client of the plan.
ApplyMark(p) ==
    /\ At(p, "ap_mark")
    /\ marker' = plan[p]
    /\ Goto(p, "ap_done")
    /\ UNCHANGED <<kernel, nftFile, net, plan, ok, hist>>

----------------------------------------------------------------------------
(* lan_gateway_root_remove *)

BeginRemove(p) ==
    /\ Begin(p, "rm_delete")
    /\ UNCHANGED <<kernel, files, net, plan, ok, deleteFailed, unrun>>

\* Mutant: any failure of nft counts as "there was no table".
RemoveDelete_AnyError(p) ==
    /\ At(p, "rm_delete")
    /\ \/ TableGone
       \/ UNCHANGED <<table, overlapped, deleteFailed>>
    /\ Goto(p, "rm_mark")
    /\ UNCHANGED <<forward, files, net, plan, ok, alone, unrun>>

\* nft delete table: done or "No such file", be it of the table or of nft
\* itself; another error, with or without the effect, ends the command.
RemoveDelete(p) ==
    /\ At(p, "rm_delete")
    /\ \/ /\ \/ TableGone /\ UNCHANGED unrun
             \/ DeleteUnrun(p) /\ UNCHANGED deleteFailed
          /\ Goto(p, "rm_mark")
          /\ UNCHANGED <<plan, ok, alone>>
       \/ /\ TableGone \/ UNCHANGED <<table, overlapped, deleteFailed>>
          /\ Finish(p)
    /\ UNCHANGED <<forward, files, net>>

RemoveMark(p) ==
    /\ At(p, "rm_mark")
    /\ marker' = None
    /\ Goto(p, "rm_done")
    /\ UNCHANGED <<kernel, nftFile, net, plan, ok, hist>>

\* The command returns ok: TRUE.
Return(p) ==
    /\ pc[p] \in {"ap_done", "rm_done"}
    /\ Finish(p)
    /\ UNCHANGED <<kernel, files, net, overlapped, deleteFailed>>

----------------------------------------------------------------------------
(* Failures and the environment *)

Crash(p) ==
    /\ Busy(p)
    /\ Finish(p)
    /\ UNCHANGED <<kernel, files, net, overlapped, deleteFailed>>

\* The host joins another network or loses its route.
NetChange ==
    /\ net' \in (Nets \cup {None}) \ {net}
    /\ UNCHANGED <<kernel, files, pc, plan, ok, hist>>

\* A reboot clears the kernel's state and ends all commands; files stay.
Reboot ==
    /\ table' = {} /\ forward' = FALSE
    /\ pc' = [p \in Procs |-> "idle"]
    /\ plan' = [p \in Procs |-> NoPlan]
    /\ ok' = [p \in Procs |-> TRUE]
    /\ alone' = {} /\ overlapped' = FALSE /\ deleteFailed' = FALSE /\ unrun' = {}
    /\ UNCHANGED <<files, net>>

Init ==
    /\ table = {} /\ forward = FALSE
    /\ nftFile = None /\ marker = None
    /\ net \in Nets
    /\ pc = [p \in Procs |-> "idle"]
    /\ plan = [p \in Procs |-> NoPlan]
    /\ ok = [p \in Procs |-> TRUE]
    /\ alone = {} /\ overlapped = FALSE /\ deleteFailed = FALSE /\ unrun = {}

Apply(p) ==
    \/ BeginApply(p) \/ ApplyFile(p) \/ ApplyCheck(p) \/ ApplyForward(p)
    \/ ApplyDelete(p) \/ ApplyLoad(p) \/ ApplyMark(p)

Remove(p) == BeginRemove(p) \/ RemoveDelete(p) \/ RemoveMark(p)

Next ==
    \/ \E p \in Procs : Apply(p) \/ Remove(p) \/ Return(p) \/ Crash(p)
    \/ NetChange
    \/ Reboot

Spec == Init /\ [][Next]_vars

----------------------------------------------------------------------------
(* Properties *)

PcValues == {"idle", "ap_file", "ap_check", "ap_forward", "ap_delete", "ap_load",
             "ap_mark", "ap_done", "rm_delete", "rm_mark", "rm_done"}

ApplySteps == {"ap_file", "ap_check", "ap_forward", "ap_delete", "ap_load",
               "ap_mark", "ap_done"}

TypeOK ==
    /\ table \subseteq Rules
    /\ forward \in BOOLEAN
    /\ nftFile \in Rules \cup {None}
    /\ marker \in Rules \cup {None}
    /\ net \in Nets \cup {None}
    /\ pc \in [Procs -> PcValues]
    /\ plan \in [Procs -> Rules \cup {NoPlan}]
    /\ ok \in [Procs -> BOOLEAN]
    /\ alone \subseteq Procs
    /\ overlapped \in BOOLEAN /\ deleteFailed \in BOOLEAN
    /\ unrun \subseteq Procs

TableClients == {r.client : r \in table}

\* "Do not enable LAN gateway mode for a whole subnet. The controlled path is
\* one explicit client address at a time": the table never redirects two
\* clients, as long as no commands overlap and no apply keeps the old table
\* (its delete failed, or nft could not be started just then), however often
\* applies fail or are cut short at any other step.
OneClient == ~overlapped /\ ~deleteFailed =>
    \A c, d \in TableClients : c = d

\* A command that reports success, and that no other command overlapped, has
\* established what it says, whatever failed or half finished commands left:
\* after apply the table holds the rules of its client, the marker and the file
\* name it and packets are forwarded; after remove the marker is gone.  The
\* table holds nothing else, unless nft could not be started to delete it:
\* run() words that like a missing table, and the command goes on to success.
SuccessSettles == \A p \in alone :
    /\ At(p, "ap_done") =>
          /\ plan[p] \in table /\ marker = plan[p] /\ nftFile = plan[p]
          /\ forward
          /\ p \notin unrun => table = {plan[p]}
    /\ At(p, "rm_done") =>
          /\ marker = None
          /\ p \notin unrun => table = {}

(***************************************************************************)
(* The inductive invariant behind OneClient and SuccessSettles             *)
(***************************************************************************)

\* A running apply has a plan, and a rule set is in the file once it is written.
PlansAreRules == \A p \in Procs : pc[p] \in ApplySteps =>
    plan[p] \in Rules /\ (~At(p, "ap_file") => nftFile \in Rules)

\* A command counts as alone, and the history as free of overlaps, only while
\* no other command runs.
AloneIsAlone ==
    /\ \A p \in alone : Busy(p)
    /\ \A p, q \in Procs : p # q /\ Busy(p) /\ Busy(q) => p \notin alone /\ overlapped

\* A rule set is loaded into an absent table unless the delete failed.
LoadsIntoEmpty == \A p \in Procs :
    At(p, "ap_load") /\ ~overlapped /\ ~deleteFailed => table = {}

\* What an undisturbed command has achieved before each of its steps.
Achieved == \A p \in alone :
    /\ pc[p] \in {"ap_check", "ap_forward", "ap_delete", "ap_load", "ap_mark"} =>
          nftFile = plan[p]
    /\ pc[p] \in {"ap_delete", "ap_load", "ap_mark"} /\ ok[p] => forward
    /\ At(p, "ap_load") /\ ok[p] => p \in unrun \/ table = {}
    /\ At(p, "ap_mark") => ok[p] /\ plan[p] \in table
    /\ At(p, "ap_mark") => p \in unrun \/ table = {plan[p]}
    /\ At(p, "rm_mark") => p \in unrun \/ table = {}

IInv ==
    /\ TypeOK /\ PlansAreRules /\ AloneIsAlone /\ LoadsIntoEmpty
    /\ OneClient /\ Achieved /\ SuccessSettles
=============================================================================
