-------------------------- MODULE PhoneEgressProofs --------------------------
(***************************************************************************)
(* Proofs about PhoneEgress for any number of overlapping commands, any    *)
(* interfaces, addresses and networks.                                     *)
(***************************************************************************)
EXTENDS PhoneEgress, TLAPS

USE EgressAssumption DEF At, Goto, Applying, Removing

LEMMA InitInvariant == Init => IInv
BY DEF Init, IInv, TypeOK, PlanKnown, AloneAgree, StandingAgree, ClearedAgree,
       Achieved, Stands, NoPlan, Labels, Plans

LEMMA FindStep ==
    ASSUME IInv, NEW p \in Procs, FindPhone(p, "ap_address", "ap_pending") \/ FindPhone(p, "rm_address", "rm_pending")
    PROVE  IInv'
<1> USE DEF kernel, hist, procs, NoPlan
<1>1. TypeOK'
  <2>1. (phone \in [Ifaces -> Addrs \cup {Absent, NoAddr}])'
    BY DEF IInv, TypeOK, PlanKnown, Labels, Plans, FindPhone, Find, Ready
  <2>2. (rules \in SUBSET Addrs)'
    BY DEF IInv, TypeOK, PlanKnown, Labels, Plans, FindPhone, Find, Ready
  <2>3. (links \in [Nets -> Ifaces \cup {None}])'
    BY DEF IInv, TypeOK, PlanKnown, Labels, Plans, FindPhone, Find, Ready
  <2>4. (default \in Ifaces \cup {None})'
    BY DEF IInv, TypeOK, PlanKnown, Labels, Plans, FindPhone, Find, Ready
  <2>5. (pc \in [Procs -> Labels])'
    BY DEF IInv, TypeOK, PlanKnown, Labels, Plans, FindPhone, Find, Ready
  <2>6. (plan \in [Procs -> [iface : Ifaces \cup {None}, addr : Addrs \cup {NoAddr}]])'
    BY DEF IInv, TypeOK, PlanKnown, Labels, Plans, FindPhone, Find, Ready
  <2>7. (ok \in [Procs -> BOOLEAN])'
    BY DEF IInv, TypeOK, PlanKnown, Labels, Plans, FindPhone, Find, Ready
  <2>8. (alone \subseteq Applying \cup Removing)'
    BY DEF IInv, TypeOK, PlanKnown, Labels, Plans, FindPhone, Find, Ready
  <2>9. (standing \in SUBSET Plans)'
    BY DEF IInv, TypeOK, PlanKnown, Labels, Plans, FindPhone, Find, Ready
  <2>10. (cleared \in SUBSET Addrs)'
    BY DEF IInv, TypeOK, PlanKnown, Labels, Plans, FindPhone, Find, Ready
  <2> QED
    BY <2>1, <2>2, <2>3, <2>4, <2>5, <2>6, <2>7, <2>8, <2>9, <2>10 DEF TypeOK
<1>2. PlanKnown'
  BY DEF IInv, TypeOK, PlanKnown, Plans, FindPhone, Find, Ready
<1>3. AloneAgree'
  BY DEF IInv, TypeOK, PlanKnown, AloneAgree, FindPhone, Find, Ready
<1>4. StandingAgree'
  BY DEF IInv, TypeOK, PlanKnown, AloneAgree, StandingAgree, FindPhone, Find, Ready
<1>5. ClearedAgree'
  BY DEF IInv, TypeOK, PlanKnown, AloneAgree, ClearedAgree, FindPhone, Find, Ready
<1>6. Achieved'
  BY DEF IInv, TypeOK, PlanKnown, AloneAgree, Achieved, Plans, FindPhone, Find, Ready
<1>7. Stands'
  BY DEF IInv, TypeOK, PlanKnown, AloneAgree, Achieved, StandingAgree, Stands, Plans, FindPhone, Find, Ready
<1>8. (cleared \cap rules = {})'
  BY DEF IInv, TypeOK, PlanKnown, AloneAgree, Achieved, ClearedAgree, FindPhone, Find, Ready
<1> QED
  BY <1>1, <1>2, <1>3, <1>4, <1>5, <1>6, <1>7, <1>8 DEF IInv

LEMMA PendingStep ==
    ASSUME IInv, NEW p \in Procs, FindPending(p, "ap_address", "ap_pending") \/ FindPending(p, "rm_address", "rm_pending")
    PROVE  IInv'
<1> USE DEF kernel, hist, procs, NoPlan
<1>1. TypeOK'
  <2>1. (phone \in [Ifaces -> Addrs \cup {Absent, NoAddr}])'
    BY DEF IInv, TypeOK, PlanKnown, Labels, Plans, FindPending, Find, Ready, Return
  <2>2. (rules \in SUBSET Addrs)'
    BY DEF IInv, TypeOK, PlanKnown, Labels, Plans, FindPending, Find, Ready, Return
  <2>3. (links \in [Nets -> Ifaces \cup {None}])'
    BY DEF IInv, TypeOK, PlanKnown, Labels, Plans, FindPending, Find, Ready, Return
  <2>4. (default \in Ifaces \cup {None})'
    BY DEF IInv, TypeOK, PlanKnown, Labels, Plans, FindPending, Find, Ready, Return
  <2>5. (pc \in [Procs -> Labels])'
    BY DEF IInv, TypeOK, PlanKnown, Labels, Plans, FindPending, Find, Ready, Return
  <2>6. (plan \in [Procs -> [iface : Ifaces \cup {None}, addr : Addrs \cup {NoAddr}]])'
    BY DEF IInv, TypeOK, PlanKnown, Labels, Plans, FindPending, Find, Ready, Return
  <2>7. (ok \in [Procs -> BOOLEAN])'
    BY DEF IInv, TypeOK, PlanKnown, Labels, Plans, FindPending, Find, Ready, Return
  <2>8. (alone \subseteq Applying \cup Removing)'
    BY DEF IInv, TypeOK, PlanKnown, Labels, Plans, FindPending, Find, Ready, Return
  <2>9. (standing \in SUBSET Plans)'
    BY DEF IInv, TypeOK, PlanKnown, Labels, Plans, FindPending, Find, Ready, Return
  <2>10. (cleared \in SUBSET Addrs)'
    BY DEF IInv, TypeOK, PlanKnown, Labels, Plans, FindPending, Find, Ready, Return
  <2> QED
    BY <2>1, <2>2, <2>3, <2>4, <2>5, <2>6, <2>7, <2>8, <2>9, <2>10 DEF TypeOK
<1>2. PlanKnown'
  BY DEF IInv, TypeOK, PlanKnown, Plans, FindPending, Find, Ready, Return
<1>3. AloneAgree'
  BY DEF IInv, TypeOK, PlanKnown, AloneAgree, FindPending, Find, Ready, Return
<1>4. StandingAgree'
  BY DEF IInv, TypeOK, PlanKnown, AloneAgree, StandingAgree, FindPending, Find, Ready, Return
<1>5. ClearedAgree'
  BY DEF IInv, TypeOK, PlanKnown, AloneAgree, ClearedAgree, FindPending, Find, Ready, Return
<1>6. Achieved'
  BY DEF IInv, TypeOK, PlanKnown, AloneAgree, Achieved, Plans, FindPending, Find, Ready, Return
<1>7. Stands'
  BY DEF IInv, TypeOK, PlanKnown, AloneAgree, Achieved, StandingAgree, Stands, Plans, FindPending, Find, Ready, Return
<1>8. (cleared \cap rules = {})'
  BY DEF IInv, TypeOK, PlanKnown, AloneAgree, Achieved, ClearedAgree, FindPending, Find, Ready, Return
<1> QED
  BY <1>1, <1>2, <1>3, <1>4, <1>5, <1>6, <1>7, <1>8 DEF IInv

LEMMA NoAddressStep ==
    ASSUME IInv, NEW p \in Procs, NoAddress(p)
    PROVE  IInv'
<1> USE DEF kernel, hist, procs, NoPlan
<1>1. TypeOK'
  BY DEF IInv, TypeOK, PlanKnown, Labels, Plans, NoAddress, Return
<1>2. PlanKnown'
  BY DEF IInv, TypeOK, PlanKnown, Plans, NoAddress, Return
<1>3. AloneAgree'
  BY DEF IInv, TypeOK, PlanKnown, AloneAgree, NoAddress, Return
<1>4. StandingAgree'
  BY DEF IInv, TypeOK, PlanKnown, AloneAgree, StandingAgree, NoAddress, Return
<1>5. ClearedAgree'
  BY DEF IInv, TypeOK, PlanKnown, AloneAgree, ClearedAgree, NoAddress, Return
<1>6. Achieved'
  BY DEF IInv, TypeOK, PlanKnown, AloneAgree, Achieved, Plans, NoAddress, Return
<1>7. Stands'
  BY DEF IInv, TypeOK, PlanKnown, AloneAgree, Achieved, StandingAgree, Stands, Plans, NoAddress, Return
<1>8. (cleared \cap rules = {})'
  BY DEF IInv, TypeOK, PlanKnown, AloneAgree, Achieved, ClearedAgree, NoAddress, Return
<1> QED
  BY <1>1, <1>2, <1>3, <1>4, <1>5, <1>6, <1>7, <1>8 DEF IInv

LEMMA ApplyAddressStep ==
    ASSUME IInv, NEW p \in Procs, ApplyAddress(p)
    PROVE  IInv'
<1> USE DEF kernel, hist, procs, NoPlan
<1>1. TypeOK'
  BY DEF IInv, TypeOK, PlanKnown, Labels, Plans, ApplyAddress, Found, Enter
<1>2. PlanKnown'
  BY DEF IInv, TypeOK, PlanKnown, Plans, ApplyAddress, Found, Enter
<1>3. AloneAgree'
  BY DEF IInv, TypeOK, PlanKnown, AloneAgree, ApplyAddress, Found, Enter
<1>4. StandingAgree'
  BY DEF IInv, TypeOK, PlanKnown, AloneAgree, StandingAgree, ApplyAddress, Found, Enter
<1>5. ClearedAgree'
  BY DEF IInv, TypeOK, PlanKnown, AloneAgree, ClearedAgree, ApplyAddress, Found, Enter
<1>6. Achieved'
  <2> SUFFICES ASSUME NEW a \in alone'
               PROVE  /\ pc'[a] \in {"ap_default", "ap_rule"} /\ ok'[a] => links'[NetOf[plan'[a].addr]] = plan'[a].iface
                      /\ pc'[a] = "ap_rule" /\ ok'[a] => default' = plan'[a].iface
                      /\ pc'[a] = "rm_flush" /\ ok'[a] => plan'[a].addr \notin rules'
    BY DEF Achieved
  <2>1. a \in Procs
    BY <1>1 DEF TypeOK
  <2>2. CASE a = p
    BY <2>1, <2>2 DEF IInv, TypeOK, PlanKnown, AloneAgree, Achieved, Plans, ApplyAddress, Found, Enter
  <2>3. CASE a # p
    BY <2>1, <2>3 DEF IInv, TypeOK, PlanKnown, AloneAgree, Achieved, Plans, ApplyAddress, Found, Enter
  <2> QED
    BY <2>2, <2>3
<1>7. Stands'
  BY DEF IInv, TypeOK, PlanKnown, AloneAgree, Achieved, StandingAgree, Stands, Plans, ApplyAddress, Found, Enter
<1>8. (cleared \cap rules = {})'
  BY DEF IInv, TypeOK, PlanKnown, AloneAgree, Achieved, ClearedAgree, ApplyAddress, Found, Enter
<1> QED
  BY <1>1, <1>2, <1>3, <1>4, <1>5, <1>6, <1>7, <1>8 DEF IInv

LEMMA RemoveAddressStep ==
    ASSUME IInv, NEW p \in Procs, RemoveAddress(p)
    PROVE  IInv'
<1> USE DEF kernel, hist, procs, NoPlan
<1>1. TypeOK'
  BY DEF IInv, TypeOK, PlanKnown, Labels, Plans, RemoveAddress, Found, Enter
<1>2. PlanKnown'
  BY DEF IInv, TypeOK, PlanKnown, Plans, RemoveAddress, Found, Enter
<1>3. AloneAgree'
  BY DEF IInv, TypeOK, PlanKnown, AloneAgree, RemoveAddress, Found, Enter
<1>4. StandingAgree'
  BY DEF IInv, TypeOK, PlanKnown, AloneAgree, StandingAgree, RemoveAddress, Found, Enter
<1>5. ClearedAgree'
  BY DEF IInv, TypeOK, PlanKnown, AloneAgree, ClearedAgree, RemoveAddress, Found, Enter
<1>6. Achieved'
  <2> SUFFICES ASSUME NEW a \in alone'
               PROVE  /\ pc'[a] \in {"ap_default", "ap_rule"} /\ ok'[a] => links'[NetOf[plan'[a].addr]] = plan'[a].iface
                      /\ pc'[a] = "ap_rule" /\ ok'[a] => default' = plan'[a].iface
                      /\ pc'[a] = "rm_flush" /\ ok'[a] => plan'[a].addr \notin rules'
    BY DEF Achieved
  <2>1. a \in Procs
    BY <1>1 DEF TypeOK
  <2>2. CASE a = p
    BY <2>1, <2>2 DEF IInv, TypeOK, PlanKnown, AloneAgree, Achieved, Plans, RemoveAddress, Found, Enter
  <2>3. CASE a # p
    BY <2>1, <2>3 DEF IInv, TypeOK, PlanKnown, AloneAgree, Achieved, Plans, RemoveAddress, Found, Enter
  <2> QED
    BY <2>2, <2>3
<1>7. Stands'
  BY DEF IInv, TypeOK, PlanKnown, AloneAgree, Achieved, StandingAgree, Stands, Plans, RemoveAddress, Found, Enter
<1>8. (cleared \cap rules = {})'
  BY DEF IInv, TypeOK, PlanKnown, AloneAgree, Achieved, ClearedAgree, RemoveAddress, Found, Enter
<1> QED
  BY <1>1, <1>2, <1>3, <1>4, <1>5, <1>6, <1>7, <1>8 DEF IInv

LEMMA LinkStep ==
    ASSUME IInv, NEW p \in Procs, ApplyLink(p)
    PROVE  IInv'
<1> USE DEF kernel, hist, procs, NoPlan
<1>1. TypeOK'
  BY DEF IInv, TypeOK, PlanKnown, Labels, Plans, ApplyLink, Ran
<1>2. PlanKnown'
  BY DEF IInv, TypeOK, PlanKnown, Plans, ApplyLink, Ran
<1>3. AloneAgree'
  BY DEF IInv, TypeOK, PlanKnown, AloneAgree, ApplyLink, Ran
<1>4. StandingAgree'
  BY DEF IInv, TypeOK, PlanKnown, AloneAgree, StandingAgree, ApplyLink, Ran
<1>5. ClearedAgree'
  BY DEF IInv, TypeOK, PlanKnown, AloneAgree, ClearedAgree, ApplyLink, Ran
<1>6. Achieved'
  <2> SUFFICES ASSUME NEW a \in alone'
               PROVE  /\ pc'[a] \in {"ap_default", "ap_rule"} /\ ok'[a] => links'[NetOf[plan'[a].addr]] = plan'[a].iface
                      /\ pc'[a] = "ap_rule" /\ ok'[a] => default' = plan'[a].iface
                      /\ pc'[a] = "rm_flush" /\ ok'[a] => plan'[a].addr \notin rules'
    BY DEF Achieved
  <2>1. a \in Procs
    BY <1>1 DEF TypeOK
  <2>2. CASE a = p
    <3>1. plan[p] \in Plans /\ plan' = plan /\ pc'[p] = "ap_default"
      BY <2>1 DEF IInv, TypeOK, PlanKnown, ApplyLink
    <3>2. ok'[p] => links' = [links EXCEPT ![NetOf[plan[p].addr]] = plan[p].iface]
      BY DEF IInv, TypeOK, ApplyLink, Ran
    <3> QED
      BY <2>2, <3>1, <3>2 DEF IInv, TypeOK, Plans
  <2>3. CASE a # p
    BY <2>1, <2>3 DEF IInv, TypeOK, PlanKnown, AloneAgree, Achieved, Plans, ApplyLink, Ran
  <2> QED
    BY <2>2, <2>3
<1>7. Stands'
  BY DEF IInv, TypeOK, PlanKnown, AloneAgree, Achieved, StandingAgree, Stands, Plans, ApplyLink, Ran
<1>8. (cleared \cap rules = {})'
  BY DEF IInv, TypeOK, PlanKnown, AloneAgree, Achieved, ClearedAgree, ApplyLink, Ran
<1> QED
  BY <1>1, <1>2, <1>3, <1>4, <1>5, <1>6, <1>7, <1>8 DEF IInv

LEMMA DefaultStep ==
    ASSUME IInv, NEW p \in Procs, ApplyDefault(p)
    PROVE  IInv'
<1> USE DEF kernel, hist, procs, NoPlan
<1>1. TypeOK'
  <2>1. (phone \in [Ifaces -> Addrs \cup {Absent, NoAddr}])'
    BY DEF IInv, TypeOK, PlanKnown, Labels, Plans, ApplyDefault, AfterDefault, RuleShown, Ran
  <2>2. (rules \in SUBSET Addrs)'
    BY DEF IInv, TypeOK, PlanKnown, Labels, Plans, ApplyDefault, AfterDefault, RuleShown, Ran
  <2>3. (links \in [Nets -> Ifaces \cup {None}])'
    BY DEF IInv, TypeOK, PlanKnown, Labels, Plans, ApplyDefault, AfterDefault, RuleShown, Ran
  <2>4. (default \in Ifaces \cup {None})'
    BY DEF IInv, TypeOK, PlanKnown, Labels, Plans, ApplyDefault, AfterDefault, RuleShown, Ran
  <2>5. (pc \in [Procs -> Labels])'
    BY DEF IInv, TypeOK, PlanKnown, Labels, Plans, ApplyDefault, AfterDefault, RuleShown, Ran
  <2>6. (plan \in [Procs -> [iface : Ifaces \cup {None}, addr : Addrs \cup {NoAddr}]])'
    BY DEF IInv, TypeOK, PlanKnown, Labels, Plans, ApplyDefault, AfterDefault, RuleShown, Ran
  <2>7. (ok \in [Procs -> BOOLEAN])'
    BY DEF IInv, TypeOK, PlanKnown, Labels, Plans, ApplyDefault, AfterDefault, RuleShown, Ran
  <2>8. (alone \subseteq Applying \cup Removing)'
    BY DEF IInv, TypeOK, PlanKnown, Labels, Plans, ApplyDefault, AfterDefault, RuleShown, Ran
  <2>9. (standing \in SUBSET Plans)'
    BY DEF IInv, TypeOK, PlanKnown, Labels, Plans, ApplyDefault, AfterDefault, RuleShown, Ran
  <2>10. (cleared \in SUBSET Addrs)'
    BY DEF IInv, TypeOK, PlanKnown, Labels, Plans, ApplyDefault, AfterDefault, RuleShown, Ran
  <2> QED
    BY <2>1, <2>2, <2>3, <2>4, <2>5, <2>6, <2>7, <2>8, <2>9, <2>10 DEF TypeOK
<1>2. PlanKnown'
  BY DEF IInv, TypeOK, PlanKnown, Plans, ApplyDefault, AfterDefault, RuleShown, Ran
<1>3. AloneAgree'
  BY DEF IInv, TypeOK, PlanKnown, AloneAgree, ApplyDefault, AfterDefault, RuleShown, Ran
<1>4. StandingAgree'
  BY DEF IInv, TypeOK, PlanKnown, AloneAgree, StandingAgree, ApplyDefault, AfterDefault, RuleShown, Ran
<1>5. ClearedAgree'
  BY DEF IInv, TypeOK, PlanKnown, AloneAgree, ClearedAgree, ApplyDefault, AfterDefault, RuleShown, Ran
<1>6. Achieved'
  <2> SUFFICES ASSUME NEW a \in alone'
               PROVE  /\ pc'[a] \in {"ap_default", "ap_rule"} /\ ok'[a] => links'[NetOf[plan'[a].addr]] = plan'[a].iface
                      /\ pc'[a] = "ap_rule" /\ ok'[a] => default' = plan'[a].iface
                      /\ pc'[a] = "rm_flush" /\ ok'[a] => plan'[a].addr \notin rules'
    BY DEF Achieved
  <2>1. a \in Procs
    BY <1>1 DEF TypeOK
  <2>2. CASE a = p
    <3>1. plan[p] \in Plans /\ plan' = plan /\ links' = links /\ pc'[p] = "ap_rule"
      BY <2>1 DEF IInv, TypeOK, PlanKnown, ApplyDefault, AfterDefault, RuleShown
    <3>2. ok'[p] => ok[p] /\ default' = plan[p].iface
      BY DEF IInv, TypeOK, ApplyDefault, AfterDefault, RuleShown, Ran
    <3>3. p \in alone /\ pc[p] = "ap_default"
      BY <2>2 DEF ApplyDefault, AfterDefault, RuleShown, hist
    <3> QED
      BY <2>2, <3>1, <3>2, <3>3 DEF IInv, TypeOK, Achieved
  <2>3. CASE a # p
    BY <2>1, <2>3 DEF IInv, TypeOK, PlanKnown, AloneAgree, Achieved, Plans, ApplyDefault, AfterDefault, RuleShown, Ran
  <2> QED
    BY <2>2, <2>3
<1>7. Stands'
  BY DEF IInv, TypeOK, PlanKnown, AloneAgree, Achieved, StandingAgree, Stands, Plans, ApplyDefault, AfterDefault, RuleShown, Ran
<1>8. (cleared \cap rules = {})'
  BY DEF IInv, TypeOK, PlanKnown, AloneAgree, Achieved, ClearedAgree, ApplyDefault, AfterDefault, RuleShown, Ran
<1> QED
  BY <1>1, <1>2, <1>3, <1>4, <1>5, <1>6, <1>7, <1>8 DEF IInv

LEMMA RuleStep ==
    ASSUME IInv, NEW p \in Procs, ApplyRule(p)
    PROVE  IInv'
<1> USE DEF kernel, hist, procs, NoPlan
<1>1. TypeOK'
  <2>1. (phone \in [Ifaces -> Addrs \cup {Absent, NoAddr}])'
    BY DEF IInv, TypeOK, PlanKnown, Labels, Plans, ApplyRule, ApplyReturn, Return
  <2>2. (rules \in SUBSET Addrs)'
    BY DEF IInv, TypeOK, PlanKnown, Labels, Plans, ApplyRule, ApplyReturn, Return
  <2>3. (links \in [Nets -> Ifaces \cup {None}])'
    BY DEF IInv, TypeOK, PlanKnown, Labels, Plans, ApplyRule, ApplyReturn, Return
  <2>4. (default \in Ifaces \cup {None})'
    BY DEF IInv, TypeOK, PlanKnown, Labels, Plans, ApplyRule, ApplyReturn, Return
  <2>5. (pc \in [Procs -> Labels])'
    BY DEF IInv, TypeOK, PlanKnown, Labels, Plans, ApplyRule, ApplyReturn, Return
  <2>6. (plan \in [Procs -> [iface : Ifaces \cup {None}, addr : Addrs \cup {NoAddr}]])'
    BY DEF IInv, TypeOK, PlanKnown, Labels, Plans, ApplyRule, ApplyReturn, Return
  <2>7. (ok \in [Procs -> BOOLEAN])'
    BY DEF IInv, TypeOK, PlanKnown, Labels, Plans, ApplyRule, ApplyReturn, Return
  <2>8. (alone \subseteq Applying \cup Removing)'
    BY DEF IInv, TypeOK, PlanKnown, Labels, Plans, ApplyRule, ApplyReturn, Return
  <2>9. (standing \in SUBSET Plans)'
    BY DEF IInv, TypeOK, PlanKnown, Labels, Plans, ApplyRule, ApplyReturn, Return
  <2>10. (cleared \in SUBSET Addrs)'
    BY DEF IInv, TypeOK, PlanKnown, Labels, Plans, ApplyRule, ApplyReturn, Return
  <2> QED
    BY <2>1, <2>2, <2>3, <2>4, <2>5, <2>6, <2>7, <2>8, <2>9, <2>10 DEF TypeOK
<1>2. PlanKnown'
  BY DEF IInv, TypeOK, PlanKnown, Plans, ApplyRule, ApplyReturn, Return
<1>3. AloneAgree'
  BY DEF IInv, TypeOK, PlanKnown, AloneAgree, ApplyRule, ApplyReturn, Return
<1>4. StandingAgree'
  BY DEF IInv, TypeOK, PlanKnown, AloneAgree, StandingAgree, ApplyRule, ApplyReturn, Return
<1>5. ClearedAgree'
  BY DEF IInv, TypeOK, PlanKnown, AloneAgree, ClearedAgree, ApplyRule, ApplyReturn, Return
<1>6. Achieved'
  BY DEF IInv, TypeOK, PlanKnown, AloneAgree, Achieved, Plans, ApplyRule, ApplyReturn, Return
<1>7. Stands'
  BY DEF IInv, TypeOK, PlanKnown, AloneAgree, Achieved, StandingAgree, Stands, Plans, ApplyRule, ApplyReturn, Return
<1>8. (cleared \cap rules = {})'
  BY DEF IInv, TypeOK, PlanKnown, AloneAgree, Achieved, ClearedAgree, ApplyRule, ApplyReturn, Return
<1> QED
  BY <1>1, <1>2, <1>3, <1>4, <1>5, <1>6, <1>7, <1>8 DEF IInv

LEMMA RemoveRuleStep ==
    ASSUME IInv, NEW p \in Procs, RemoveRule(p)
    PROVE  IInv'
<1> USE DEF kernel, hist, procs, NoPlan
<1>1. TypeOK'
  BY DEF IInv, TypeOK, PlanKnown, Labels, Plans, RemoveRule, Ran
<1>2. PlanKnown'
  BY DEF IInv, TypeOK, PlanKnown, Plans, RemoveRule, Ran
<1>3. AloneAgree'
  BY DEF IInv, TypeOK, PlanKnown, AloneAgree, RemoveRule, Ran
<1>4. StandingAgree'
  BY DEF IInv, TypeOK, PlanKnown, AloneAgree, StandingAgree, RemoveRule, Ran
<1>5. ClearedAgree'
  BY DEF IInv, TypeOK, PlanKnown, AloneAgree, ClearedAgree, RemoveRule, Ran
<1>6. Achieved'
  <2> SUFFICES ASSUME NEW a \in alone'
               PROVE  /\ pc'[a] \in {"ap_default", "ap_rule"} /\ ok'[a] => links'[NetOf[plan'[a].addr]] = plan'[a].iface
                      /\ pc'[a] = "ap_rule" /\ ok'[a] => default' = plan'[a].iface
                      /\ pc'[a] = "rm_flush" /\ ok'[a] => plan'[a].addr \notin rules'
    BY DEF Achieved
  <2>1. a \in Procs
    BY <1>1 DEF TypeOK
  <2>2. CASE a = p
    <3>1. pc'[p] = "rm_flush" /\ plan' = plan /\ p \in alone'
      BY <2>2 DEF IInv, TypeOK, RemoveRule
    <3>2. ok'[p] => plan[p].addr \notin rules'
      BY <3>1 DEF IInv, TypeOK, RemoveRule, Ran
    <3> QED
      BY <2>2, <3>1, <3>2
  <2>3. CASE a # p
    BY <2>1, <2>3 DEF IInv, TypeOK, PlanKnown, AloneAgree, Achieved, Plans, RemoveRule, Ran
  <2> QED
    BY <2>2, <2>3
<1>7. Stands'
  BY DEF IInv, TypeOK, PlanKnown, AloneAgree, Achieved, StandingAgree, Stands, Plans, RemoveRule, Ran
<1>8. (cleared \cap rules = {})'
  BY DEF IInv, TypeOK, PlanKnown, AloneAgree, Achieved, ClearedAgree, RemoveRule, Ran
<1> QED
  BY <1>1, <1>2, <1>3, <1>4, <1>5, <1>6, <1>7, <1>8 DEF IInv

LEMMA FlushStep ==
    ASSUME IInv, NEW p \in Procs, RemoveFlush(p)
    PROVE  IInv'
<1> USE DEF kernel, hist, procs, NoPlan
<1>1. TypeOK'
  <2>1. (phone \in [Ifaces -> Addrs \cup {Absent, NoAddr}])'
    BY DEF IInv, TypeOK, PlanKnown, Labels, Plans, RemoveFlush, RemoveReturn, Return
  <2>2. (rules \in SUBSET Addrs)'
    BY DEF IInv, TypeOK, PlanKnown, Labels, Plans, RemoveFlush, RemoveReturn, Return
  <2>3. (links \in [Nets -> Ifaces \cup {None}])'
    BY DEF IInv, TypeOK, PlanKnown, Labels, Plans, RemoveFlush, RemoveReturn, Return
  <2>4. (default \in Ifaces \cup {None})'
    BY DEF IInv, TypeOK, PlanKnown, Labels, Plans, RemoveFlush, RemoveReturn, Return
  <2>5. (pc \in [Procs -> Labels])'
    BY DEF IInv, TypeOK, PlanKnown, Labels, Plans, RemoveFlush, RemoveReturn, Return
  <2>6. (plan \in [Procs -> [iface : Ifaces \cup {None}, addr : Addrs \cup {NoAddr}]])'
    BY DEF IInv, TypeOK, PlanKnown, Labels, Plans, RemoveFlush, RemoveReturn, Return
  <2>7. (ok \in [Procs -> BOOLEAN])'
    BY DEF IInv, TypeOK, PlanKnown, Labels, Plans, RemoveFlush, RemoveReturn, Return
  <2>8. (alone \subseteq Applying \cup Removing)'
    BY DEF IInv, TypeOK, PlanKnown, Labels, Plans, RemoveFlush, RemoveReturn, Return
  <2>9. (standing \in SUBSET Plans)'
    BY DEF IInv, TypeOK, PlanKnown, Labels, Plans, RemoveFlush, RemoveReturn, Return
  <2>10. (cleared \in SUBSET Addrs)'
    BY DEF IInv, TypeOK, PlanKnown, Labels, Plans, RemoveFlush, RemoveReturn, Return
  <2> QED
    BY <2>1, <2>2, <2>3, <2>4, <2>5, <2>6, <2>7, <2>8, <2>9, <2>10 DEF TypeOK
<1>2. PlanKnown'
  BY DEF IInv, TypeOK, PlanKnown, Plans, RemoveFlush, RemoveReturn, Return
<1>3. AloneAgree'
  BY DEF IInv, TypeOK, PlanKnown, AloneAgree, RemoveFlush, RemoveReturn, Return
<1>4. StandingAgree'
  BY DEF IInv, TypeOK, PlanKnown, AloneAgree, StandingAgree, RemoveFlush, RemoveReturn, Return
<1>5. ClearedAgree'
  BY DEF IInv, TypeOK, PlanKnown, AloneAgree, ClearedAgree, RemoveFlush, RemoveReturn, Return
<1>6. Achieved'
  BY DEF IInv, TypeOK, PlanKnown, AloneAgree, Achieved, Plans, RemoveFlush, RemoveReturn, Return
<1>7. Stands'
  BY DEF IInv, TypeOK, PlanKnown, AloneAgree, Achieved, StandingAgree, Stands, Plans, RemoveFlush, RemoveReturn, Return
<1>8. (cleared \cap rules = {})'
  BY DEF IInv, TypeOK, PlanKnown, AloneAgree, Achieved, ClearedAgree, RemoveFlush, RemoveReturn, Return
<1> QED
  BY <1>1, <1>2, <1>3, <1>4, <1>5, <1>6, <1>7, <1>8 DEF IInv

LEMMA CrashStep ==
    ASSUME IInv, NEW p \in Procs, Crash(p)
    PROVE  IInv'
<1> USE DEF kernel, hist, procs, NoPlan
<1>1. TypeOK'
  BY DEF IInv, TypeOK, PlanKnown, Labels, Plans, Crash, Return
<1>2. PlanKnown'
  BY DEF IInv, TypeOK, PlanKnown, Plans, Crash, Return
<1>3. AloneAgree'
  BY DEF IInv, TypeOK, PlanKnown, AloneAgree, Crash, Return
<1>4. StandingAgree'
  BY DEF IInv, TypeOK, PlanKnown, AloneAgree, StandingAgree, Crash, Return
<1>5. ClearedAgree'
  BY DEF IInv, TypeOK, PlanKnown, AloneAgree, ClearedAgree, Crash, Return
<1>6. Achieved'
  BY DEF IInv, TypeOK, PlanKnown, AloneAgree, Achieved, Plans, Crash, Return
<1>7. Stands'
  BY DEF IInv, TypeOK, PlanKnown, AloneAgree, Achieved, StandingAgree, Stands, Plans, Crash, Return
<1>8. (cleared \cap rules = {})'
  BY DEF IInv, TypeOK, PlanKnown, AloneAgree, Achieved, ClearedAgree, Crash, Return
<1> QED
  BY <1>1, <1>2, <1>3, <1>4, <1>5, <1>6, <1>7, <1>8 DEF IInv

LEMMA UnplugStep ==
    ASSUME IInv, NEW i \in Ifaces, Unplug(i)
    PROVE  IInv'
<1> USE DEF kernel, hist, procs, NoPlan
<1>1. TypeOK'
  BY DEF IInv, TypeOK, PlanKnown, Labels, Plans, Unplug, PhoneMoved
<1>2. PlanKnown'
  BY DEF IInv, TypeOK, PlanKnown, Plans, Unplug, PhoneMoved
<1>3. AloneAgree'
  BY DEF IInv, TypeOK, PlanKnown, AloneAgree, Unplug, PhoneMoved
<1>4. StandingAgree'
  BY DEF IInv, TypeOK, PlanKnown, AloneAgree, StandingAgree, Unplug, PhoneMoved
<1>5. ClearedAgree'
  BY DEF IInv, TypeOK, PlanKnown, AloneAgree, ClearedAgree, Unplug, PhoneMoved
<1>6. Achieved'
  BY DEF IInv, TypeOK, PlanKnown, AloneAgree, Achieved, Plans, Unplug, PhoneMoved
<1>7. Stands'
  BY DEF IInv, TypeOK, PlanKnown, AloneAgree, Achieved, StandingAgree, Stands, Plans, Unplug, PhoneMoved
<1>8. (cleared \cap rules = {})'
  BY DEF IInv, TypeOK, PlanKnown, AloneAgree, Achieved, ClearedAgree, Unplug, PhoneMoved
<1> QED
  BY <1>1, <1>2, <1>3, <1>4, <1>5, <1>6, <1>7, <1>8 DEF IInv

LEMMA AddressStep ==
    ASSUME IInv, NEW i \in Ifaces, Address(i)
    PROVE  IInv'
<1> USE DEF kernel, hist, procs, NoPlan
<1>1. TypeOK'
  BY DEF IInv, TypeOK, PlanKnown, Labels, Plans, Address, PhoneMoved
<1>2. PlanKnown'
  BY DEF IInv, TypeOK, PlanKnown, Plans, Address, PhoneMoved
<1>3. AloneAgree'
  BY DEF IInv, TypeOK, PlanKnown, AloneAgree, Address, PhoneMoved
<1>4. StandingAgree'
  BY DEF IInv, TypeOK, PlanKnown, AloneAgree, StandingAgree, Address, PhoneMoved
<1>5. ClearedAgree'
  BY DEF IInv, TypeOK, PlanKnown, AloneAgree, ClearedAgree, Address, PhoneMoved
<1>6. Achieved'
  BY DEF IInv, TypeOK, PlanKnown, AloneAgree, Achieved, Plans, Address, PhoneMoved
<1>7. Stands'
  BY DEF IInv, TypeOK, PlanKnown, AloneAgree, Achieved, StandingAgree, Stands, Plans, Address, PhoneMoved
<1>8. (cleared \cap rules = {})'
  BY DEF IInv, TypeOK, PlanKnown, AloneAgree, Achieved, ClearedAgree, Address, PhoneMoved
<1> QED
  BY <1>1, <1>2, <1>3, <1>4, <1>5, <1>6, <1>7, <1>8 DEF IInv

LEMMA RebootStep ==
    ASSUME IInv, Reboot
    PROVE  IInv'
<1> USE DEF kernel, hist, procs, NoPlan
<1>1. TypeOK'
  BY DEF IInv, TypeOK, PlanKnown, Labels, Plans, Reboot
<1>2. PlanKnown'
  BY DEF IInv, TypeOK, PlanKnown, Plans, Reboot
<1>3. AloneAgree'
  BY DEF IInv, TypeOK, PlanKnown, AloneAgree, Reboot
<1>4. StandingAgree'
  BY DEF IInv, TypeOK, PlanKnown, AloneAgree, StandingAgree, Reboot
<1>5. ClearedAgree'
  BY DEF IInv, TypeOK, PlanKnown, AloneAgree, ClearedAgree, Reboot
<1>6. Achieved'
  BY DEF IInv, TypeOK, PlanKnown, AloneAgree, Achieved, Plans, Reboot
<1>7. Stands'
  BY DEF IInv, TypeOK, PlanKnown, AloneAgree, Achieved, StandingAgree, Stands, Plans, Reboot
<1>8. (cleared \cap rules = {})'
  BY DEF IInv, TypeOK, PlanKnown, AloneAgree, Achieved, ClearedAgree, Reboot
<1> QED
  BY <1>1, <1>2, <1>3, <1>4, <1>5, <1>6, <1>7, <1>8 DEF IInv

LEMMA StepInvariant == IInv /\ [Next]_vars => IInv'
<1> SUFFICES ASSUME IInv, [Next]_vars
             PROVE  IInv'
  OBVIOUS
<1>1. ASSUME NEW p \in Procs, Step(p)
      PROVE  IInv'
  BY <1>1, FindStep, PendingStep, NoAddressStep, ApplyAddressStep, RemoveAddressStep,
     LinkStep, DefaultStep, RuleStep, RemoveRuleStep, FlushStep, CrashStep DEF Step
<1>2. ASSUME NEW i \in Ifaces, Unplug(i) \/ Address(i)
      PROVE  IInv'
  BY <1>2, UnplugStep, AddressStep
<1>3. CASE Reboot
  BY <1>3, RebootStep
<1>4. CASE UNCHANGED vars
  BY <1>4 DEF vars, kernel, procs, hist, IInv, TypeOK, PlanKnown, AloneAgree,
              StandingAgree, ClearedAgree, Achieved, Stands
<1> QED
  BY <1>1, <1>2, <1>3, <1>4 DEF Next

\* The inductive invariant holds in every state: what a command that nothing
\* came in the way of has achieved so far is still there before its next step.
THEOREM Invariance == Spec => []IInv
<1> QED
  BY InitInvariant, StepInvariant, PTL DEF Spec

\* After an apply that reported success, what is sent from the address leaves
\* by that phone, however other commands for it overlap, until the phone goes
\* or another phone or a remove comes in.
THEOREM Applied == Spec => []AppliedEgress
<1>1. IInv => AppliedEgress
  BY DEF IInv, Stands, AppliedEgress, Egress
<1> QED
  BY <1>1, Invariance, PTL

\* After a remove that reported success nothing sent from the address goes by
\* the table until the address is applied again.
THEOREM Removed == Spec => []RemovedEgress
<1>1. IInv => RemovedEgress
  BY DEF IInv, RemovedEgress, Egress
<1> QED
  BY <1>1, Invariance, PTL
=============================================================================
