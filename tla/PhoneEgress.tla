----------------------------- MODULE PhoneEgress -----------------------------
(***************************************************************************)
(* Egress by a tethered phone, of runtime/proxy-stack/proxy_stack.py: the  *)
(* privileged commands phone-egress-root-apply and phone-egress-root-      *)
(* remove, over the kernel's policy routing.                               *)
(*                                                                         *)
(* The proxy of phone_egress_http_proxy.py binds its connections to the    *)
(* phone's address; a rule "from" that address sends them to one table,    *)
(* which all phones share, and its default route to a phone.  A command    *)
(* works on the phone that is there when it looks, by the address it finds *)
(* a moment later.  One action is one look or one program run; a program   *)
(* may fail, be given up on after it took effect, or not be there to run.  *)
(***************************************************************************)
EXTENDS Integers, FiniteSets

CONSTANTS
    Procs,
    Ifaces,    \* USB network interfaces, numbered in the order of their names
    Addrs,     \* addresses phones give the host
    Nets,      \* and the networks they are in
    NetOf,
    Absent,    \* no phone, no carrier or no known connection
    NoAddr,    \* a phone that has given no address yet
    None       \* no interface

ASSUME EgressAssumption ==
    /\ Ifaces \subseteq Nat
    /\ NetOf \in [Addrs -> Nets]
    /\ Absent \notin Addrs /\ NoAddr \notin Addrs /\ Absent # NoAddr
    /\ None \notin Ifaces

VARIABLES
    phone,     \* of each interface: Absent, NoAddr or its address
    rules,     \* addresses with a rule that looks up the table
    links,     \* of each network: the interface the table routes it to
    default,   \* the interface of the table's default route
    pc,        \* of each process: its next step,
    plan,      \* the interface and address it works on,
    ok,        \* and whether all programs it ran succeeded
    \* history, read by properties only
    alone,     \* commands nothing has come in the way of: no other command, no
               \* move of the phone, no rule kept for want of the program ip
    standing,  \* plans whose apply succeeded, with nothing in the way since
    cleared    \* addresses whose remove succeeded, and no apply since

kernel == <<rules, links, default>>
procs  == <<pc, plan, ok>>
hist   == <<alone, standing, cleared>>
vars   == <<phone, kernel, procs, hist>>

Plans  == [iface : Ifaces, addr : Addrs]
NoPlan == [iface |-> None, addr |-> NoAddr]

At(p, label) == pc[p] = label
Goto(p, label) == pc' = [pc EXCEPT ![p] = label]
Ran(p, worked) == ok' = [ok EXCEPT ![p] = @ /\ worked]

Applying == {p \in Procs : pc[p] \in {"ap_link", "ap_default", "ap_rule"}}
Removing == {p \in Procs : pc[p] \in {"rm_rule", "rm_flush"}}

\* Phones a plan may be for.
Ready == {i \in Ifaces : phone[i] # Absent}

\* The interface by which what is sent from an address leaves, None by the
\* main table.
Egress(a) == IF a \in rules THEN default ELSE None

Init ==
    /\ phone \in [Ifaces -> {Absent} \cup Addrs]
    /\ rules = {}
    /\ links = [n \in Nets |-> None]
    /\ default = None
    /\ pc = [p \in Procs |-> "idle"]
    /\ plan = [p \in Procs |-> NoPlan]
    /\ ok = [p \in Procs |-> TRUE]
    /\ alone = {} /\ standing = {} /\ cleared = {}

\* The command of p returns.
Return(p) ==
    /\ Goto(p, "idle")
    /\ plan' = [plan EXCEPT ![p] = NoPlan]
    /\ ok' = [ok EXCEPT ![p] = TRUE]

----------------------------------------------------------------------------
(* current_phone_egress_plan *)

Find(p, i) == plan' = [plan EXCEPT ![p] = [iface |-> i, addr |-> NoAddr]]

\* The first phone that is ready, or else one with an open event.
FindPhone(p, address, pending) ==
    /\ At(p, "idle")
    /\ \/ \E i \in Ready : (\A j \in Ready : i <= j) /\ Find(p, i) /\ Goto(p, address)
       \/ Ready = {} /\ Goto(p, pending) /\ UNCHANGED plan
    /\ UNCHANGED <<phone, kernel, ok, hist>>

FindPending(p, address, pending) ==
    /\ At(p, pending)
    /\ \/ \E i \in Ready : Find(p, i) /\ Goto(p, address) /\ UNCHANGED ok
       \/ Return(p)
    /\ UNCHANGED <<phone, kernel, hist>>

\* phone_egress_plan
Found(p) == [iface |-> plan[p].iface, addr |-> phone[plan[p].iface]]

\* Commands are in the way of each other unless they do the same for the same
\* phone.
Enter(p, likes) ==
    alone' = IF Applying \cup Removing \subseteq likes THEN alone \cup {p} ELSE alone \cap likes

\* Without an address there is no plan, and nothing is done.
NoAddress(p) ==
    /\ pc[p] \in {"ap_address", "rm_address"}
    /\ Found(p).addr \notin Addrs
    /\ Return(p)
    /\ UNCHANGED <<phone, kernel, hist>>

ApplyAddress(p) ==
    /\ At(p, "ap_address")
    /\ Found(p).addr \in Addrs
    /\ plan' = [plan EXCEPT ![p] = Found(p)]
    /\ Enter(p, {q \in Applying : plan[q] = Found(p)})
    /\ standing' = standing \cap {Found(p)}
    /\ cleared' = cleared \ {Found(p).addr}
    /\ Goto(p, "ap_link")
    /\ UNCHANGED <<phone, kernel, ok>>

RemoveAddress(p) ==
    /\ At(p, "rm_address")
    /\ Found(p).addr \in Addrs
    /\ plan' = [plan EXCEPT ![p] = Found(p)]
    /\ Enter(p, {q \in Removing : plan[q] = Found(p)})
    /\ standing' = {}
    /\ Goto(p, "rm_rule")
    /\ UNCHANGED <<phone, kernel, ok, cleared>>

----------------------------------------------------------------------------
(* phone_egress_root_apply_from_plan *)

\* ip route replace network: the kernel wants the source to be the host's.
ApplyLink(p) ==
    /\ At(p, "ap_link")
    /\ \/ /\ phone[plan[p].iface] = plan[p].addr
          /\ links' = [links EXCEPT ![NetOf[plan[p].addr]] = plan[p].iface]
          /\ \E worked \in BOOLEAN : Ran(p, worked)
       \/ Ran(p, FALSE) /\ UNCHANGED links
    /\ Goto(p, "ap_default")
    /\ UNCHANGED <<phone, rules, default, plan, hist>>

ApplyReturn(p, worked) ==
    /\ standing' = IF p \in alone /\ ok[p] /\ worked THEN standing \cup {plan[p]} ELSE standing
    /\ alone' = alone \ {p}
    /\ Return(p)
    /\ UNCHANGED cleared

\* Mutant: the check looks for the table only.
RuleShown_Lookup(a) == rules # {}

\* The text the check looks for, an address with "/32", is not what ip rule
\* show prints of a rule for one address; the code looks before ApplyLink, which
\* cannot make a difference.
RuleShown(a) == FALSE

AfterDefault(p, worked) ==
    IF RuleShown(plan[p].addr) THEN ApplyReturn(p, worked)
    ELSE Goto(p, "ap_rule") /\ Ran(p, worked) /\ UNCHANGED <<plan, hist>>

\* ip route replace default: the gateway must be in reach.
ApplyDefault(p) ==
    /\ At(p, "ap_default")
    /\ LET here == phone[plan[p].iface] IN
       \/ /\ here \in Addrs /\ NetOf[here] = NetOf[plan[p].addr]
          /\ default' = plan[p].iface
          /\ \E worked \in BOOLEAN : AfterDefault(p, worked)
       \/ AfterDefault(p, FALSE) /\ UNCHANGED default
    /\ UNCHANGED <<phone, rules, links>>

\* ip rule add: a rule that exists is an error.
ApplyRule(p) ==
    /\ At(p, "ap_rule")
    /\ \/ /\ plan[p].addr \notin rules
          /\ rules' = rules \cup {plan[p].addr}
          /\ \E worked \in BOOLEAN : ApplyReturn(p, worked)
       \/ ApplyReturn(p, FALSE) /\ UNCHANGED rules
    /\ UNCHANGED <<phone, links, default>>

----------------------------------------------------------------------------
(* phone_egress_root_remove_from_plan *)

\* Mutant: every error of ip rule del is taken for "No such file".
RemoveRule_AnyError(p) ==
    /\ At(p, "rm_rule")
    /\ rules' \in {rules, rules \ {plan[p].addr}}
    /\ Goto(p, "rm_flush")
    /\ UNCHANGED <<phone, links, default, plan, ok, hist>>

\* That there is no such rule, or table, is no error; nor is it that there is
\* no such program: run() reports an ip that cannot be started as "[Errno 2] No
\* such file or directory", and the command goes on with the rule still there.
RemoveRule(p) ==
    /\ At(p, "rm_rule")
    /\ \/ /\ rules' = rules \ {plan[p].addr}
          /\ \E worked \in BOOLEAN : Ran(p, worked)
          /\ UNCHANGED alone
       \/ Ran(p, FALSE) /\ UNCHANGED <<rules, alone>>
       \/ /\ alone' = IF plan[p].addr \in rules THEN alone \ {p} ELSE alone
          /\ UNCHANGED <<rules, ok>>
    /\ Goto(p, "rm_flush")
    /\ UNCHANGED <<phone, links, default, plan, standing, cleared>>

RemoveReturn(p, worked) ==
    /\ cleared' = IF p \in alone /\ ok[p] /\ worked THEN cleared \cup {plan[p].addr} ELSE cleared
    /\ alone' = alone \ {p}
    /\ Return(p)
    /\ UNCHANGED standing

\* The routes of every phone go, or none of them, which is success if ip could
\* not be started.
RemoveFlush(p) ==
    /\ At(p, "rm_flush")
    /\ \/ /\ links' = [n \in Nets |-> None]
          /\ default' = None
          /\ \E worked \in BOOLEAN : RemoveReturn(p, worked)
       \/ /\ \E worked \in BOOLEAN : RemoveReturn(p, worked)
          /\ UNCHANGED <<links, default>>
    /\ UNCHANGED <<phone, rules>>

----------------------------------------------------------------------------
(* The world *)

\* What was done for interface i no longer counts.
PhoneMoved(i) ==
    /\ standing' = {e \in standing : e.iface # i}
    /\ alone' = {p \in alone : plan[p].iface # i}

\* A phone goes: its routes go with it, its rule stays.
Unplug(i) ==
    /\ phone[i] # Absent
    /\ phone' = [phone EXCEPT ![i] = Absent]
    /\ links' = [n \in Nets |-> IF links[n] = i THEN None ELSE links[n]]
    /\ default' = IF default = i THEN None ELSE default
    /\ PhoneMoved(i)
    /\ UNCHANGED <<rules, procs, cleared>>

\* A phone comes, or gets another address; routes of the old one may stay.
Address(i) ==
    /\ \E a \in (Addrs \cup {NoAddr}) \ {phone[i]} : phone' = [phone EXCEPT ![i] = a]
    /\ links' \in {links, [n \in Nets |-> IF links[n] = i THEN None ELSE links[n]]}
    /\ default' \in {default, IF default = i THEN None ELSE default}
    /\ PhoneMoved(i)
    /\ UNCHANGED <<rules, procs, cleared>>

\* A command is killed between two programs.
Crash(p) ==
    /\ ~At(p, "idle")
    /\ Return(p)
    /\ alone' = alone \ {p}
    /\ UNCHANGED <<phone, kernel, standing, cleared>>

Reboot ==
    /\ rules' = {}
    /\ links' = [n \in Nets |-> None]
    /\ default' = None
    /\ pc' = [p \in Procs |-> "idle"]
    /\ plan' = [p \in Procs |-> NoPlan]
    /\ ok' = [p \in Procs |-> TRUE]
    /\ alone' = {} /\ standing' = {}
    /\ UNCHANGED <<phone, cleared>>

Step(p) ==
    \/ FindPhone(p, "ap_address", "ap_pending") \/ FindPhone(p, "rm_address", "rm_pending")
    \/ FindPending(p, "ap_address", "ap_pending") \/ FindPending(p, "rm_address", "rm_pending")
    \/ NoAddress(p) \/ ApplyAddress(p) \/ RemoveAddress(p)
    \/ ApplyLink(p) \/ ApplyDefault(p) \/ ApplyRule(p)
    \/ RemoveRule(p) \/ RemoveFlush(p) \/ Crash(p)

Next ==
    \/ \E p \in Procs : Step(p)
    \/ \E i \in Ifaces : Unplug(i) \/ Address(i)
    \/ Reboot

Spec == Init /\ [][Next]_vars

----------------------------------------------------------------------------
(* Properties *)

\* After an apply that reported success, what is sent from the phone's address
\* leaves by that phone until the phone goes or gets another address, or a
\* command for another phone or a remove begins; applies that overlap it or
\* follow it for the same phone do no harm, though they report a failure.
AppliedEgress ==
    \A e \in standing :
        /\ Egress(e.addr) = e.iface
        /\ links[NetOf[e.addr]] = e.iface

\* After an undisturbed remove that reported success nothing that is sent from
\* the address goes by the table, until that address is applied again, even
\* though a second phone is applied meanwhile, and whether or not the flush did
\* anything.  A remove that could not start ip reports success as well and
\* keeps the rule: it is not among the undisturbed ones.
RemovedEgress == \A a \in cleared : Egress(a) = None

(* The inductive invariant *)

Labels == {"idle", "ap_pending", "ap_address", "ap_link", "ap_default", "ap_rule",
           "rm_pending", "rm_address", "rm_rule", "rm_flush"}

TypeOK ==
    /\ phone \in [Ifaces -> Addrs \cup {Absent, NoAddr}]
    /\ rules \in SUBSET Addrs
    /\ links \in [Nets -> Ifaces \cup {None}]
    /\ default \in Ifaces \cup {None}
    /\ pc \in [Procs -> Labels]
    /\ plan \in [Procs -> [iface : Ifaces \cup {None}, addr : Addrs \cup {NoAddr}]]
    /\ ok \in [Procs -> BOOLEAN]
    /\ alone \subseteq Applying \cup Removing
    /\ standing \in SUBSET Plans
    /\ cleared \in SUBSET Addrs

PlanKnown == \A p \in Procs :
    /\ pc[p] \in {"ap_address", "rm_address"} => plan[p].iface \in Ifaces
    /\ p \in Applying \cup Removing => plan[p] \in Plans

\* Nothing comes in the way of a command that is alone but its like, ...
AloneAgree == \A p \in alone, q \in Applying \cup Removing :
    (q \in Applying <=> p \in Applying) /\ plan[q] = plan[p]

\* ... nor of a plan that stands, nor of an address that is cleared.
StandingAgree ==
    standing # {} => Removing = {} /\ \A q \in Applying : standing = {plan[q]}

ClearedAgree == \A q \in Applying : plan[q].addr \notin cleared

\* What a command that is alone has achieved before each of its steps.
Achieved == \A p \in alone :
    /\ pc[p] \in {"ap_default", "ap_rule"} /\ ok[p] => links[NetOf[plan[p].addr]] = plan[p].iface
    /\ At(p, "ap_rule") /\ ok[p] => default = plan[p].iface
    /\ At(p, "rm_flush") /\ ok[p] => plan[p].addr \notin rules

Stands == \A e \in standing :
    e.addr \in rules /\ default = e.iface /\ links[NetOf[e.addr]] = e.iface

IInv ==
    /\ TypeOK /\ PlanKnown /\ AloneAgree /\ StandingAgree /\ ClearedAgree
    /\ Achieved /\ Stands /\ cleared \cap rules = {}
=============================================================================
