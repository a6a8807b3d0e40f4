-------------------------- MODULE PhoneTetherProofs --------------------------
(***************************************************************************)
(* Proofs about PhoneTether for any number of commands, any interfaces,    *)
(* connections and decisions, any size of the store and any crashes.       *)
(* SafeInv is inductive while commands overlap; on it rests that the files *)
(* are a PromptLedger until two commands have held one (LedgerIsKept), and *)
(* with Quiet what holds while commands take turns.                        *)
(***************************************************************************)
EXTENDS PhoneTether, SequenceTheorems, WellFoundedInduction, TLAPS

\* The store keeps at least one event.
LEMMA CapPositive == Cap \in Nat \ {0}
BY PhoneAssumption

----------------------------------------------------------------------------
(* The operators on the store *)

\* How many events a store loses when it is cut.
Dropped(s) == IF Len(s) > Cap THEN Len(s) - Cap ELSE 0

\* A store that is cut keeps its newest events in their order.
LEMMA CappedKeeps ==
    ASSUME NEW s \in Seq(Event)
    PROVE  /\ Dropped(s) \in Nat
           /\ Capped(s) \in Seq(Event)
           /\ Len(Capped(s)) = Len(s) - Dropped(s) /\ Len(Capped(s)) <= Cap
           /\ DOMAIN Capped(s) = 1 .. Len(s) - Dropped(s)
           /\ \A k \in DOMAIN Capped(s) :
                 k + Dropped(s) \in DOMAIN s /\ Capped(s)[k] = s[k + Dropped(s)]
<1> USE CapPositive
<1>1. Len(s) \in Nat /\ DOMAIN s = 1 .. Len(s) /\ \A k \in 1 .. Len(s) : s[k] \in Event
  BY LenProperties, ElementOfSeq
<1>2. CASE Len(s) > Cap
  <2>1. Capped(s) = SubSeq(s, Len(s) - Cap + 1, Len(s)) /\ Dropped(s) = Len(s) - Cap
    BY <1>2 DEF Capped, Dropped
  <2>2. /\ Len(s) - Cap + 1 \in Int /\ Len(s) \in Int
        /\ \A k \in Len(s) - Cap + 1 .. Len(s) : s[k] \in Event
    BY <1>1, <1>2
  <2>3. /\ Capped(s) \in Seq(Event)
        /\ Len(Capped(s)) =
              IF Len(s) - Cap + 1 <= Len(s) THEN Len(s) - (Len(s) - Cap + 1) + 1 ELSE 0
        /\ \A i \in 1 .. Len(s) - (Len(s) - Cap + 1) + 1 :
              Capped(s)[i] = s[(Len(s) - Cap + 1) + i - 1]
    BY <2>1, <2>2, SubSeqProperties
  <2>4. Len(Capped(s)) = Cap /\ \A i \in 1 .. Cap : Capped(s)[i] = s[i + (Len(s) - Cap)]
    BY <1>1, <2>3
  <2>5. DOMAIN Capped(s) = 1 .. Cap
    BY <2>3, <2>4, LenProperties
  <2> QED
    BY <1>1, <1>2, <2>1, <2>3, <2>4, <2>5, SMTT(30)
<1>3. CASE Len(s) <= Cap
  <2> ~(Len(s) > Cap)
    BY <1>1, <1>3
  <2>1. Capped(s) = s /\ Dropped(s) = 0
    BY Zenon DEF Capped, Dropped
  <2> QED
    BY <1>1, <1>3, <2>1
<1> QED
  BY <1>1, <1>2, <1>3

\* Marking changes the presence of events and nothing else.
LEMMA MarkedKeeps ==
    ASSUME NEW s \in Seq(Event), NEW plans
    PROVE  /\ Marked(s, plans) \in Seq(Event)
           /\ Len(Marked(s, plans)) = Len(s) /\ DOMAIN Marked(s, plans) = DOMAIN s
           /\ \A k \in DOMAIN s :
                 /\ Marked(s, plans)[k].iface = s[k].iface
                 /\ Marked(s, plans)[k].conn = s[k].conn
                 /\ Marked(s, plans)[k].status = s[k].status
                 /\ Marked(s, plans)[k].decision = s[k].decision
                 /\ Marked(s, plans)[k].present = \E plan \in plans : Matches(s[k], plan)
<1>1. Len(s) \in Nat /\ DOMAIN s = 1 .. Len(s) /\ \A k \in DOMAIN s : s[k] \in Event
  BY LenProperties, ElementOfSeq
<1>2. \A k \in DOMAIN s : Marked(s, plans)[k] =
          [s[k] EXCEPT !.present = \E plan \in plans : Matches(s[k], plan)]
  BY DEF Marked
<1> DEFINE here(k) == \E plan \in plans : Matches(s[k], plan)
<1>3. \A k \in DOMAIN s : Marked(s, plans)[k] \in Event
  <2> SUFFICES ASSUME NEW k \in DOMAIN s
               PROVE  [s[k] EXCEPT !.present = here(k)] \in Event
    BY <1>2
  <2>1. s[k] \in Event /\ here(k) \in BOOLEAN
    BY <1>1
  <2> HIDE DEF here
  <2> QED
    BY <2>1 DEF Event
<1>4. DOMAIN Marked(s, plans) = 1 .. Len(s) /\ Marked(s, plans) \in [1 .. Len(s) -> Event]
  BY <1>1, <1>3 DEF Marked
<1>5. Marked(s, plans) \in Seq(Event) /\ Len(Marked(s, plans)) = Len(s)
  BY <1>1, <1>4, SeqDef
<1>6. ASSUME NEW k \in DOMAIN s
      PROVE  /\ Marked(s, plans)[k].iface = s[k].iface
             /\ Marked(s, plans)[k].conn = s[k].conn
             /\ Marked(s, plans)[k].status = s[k].status
             /\ Marked(s, plans)[k].decision = s[k].decision
             /\ Marked(s, plans)[k].present = here(k)
  <2> HIDE DEF here
  <2> QED
    BY <1>1, <1>2 DEF here, Event
<1> QED
  BY <1>1, <1>4, <1>5, <1>6

\* A non-empty set of places in a store has a first one.
LEMMA FirstPlace ==
    ASSUME NEW S \in SUBSET Nat, S # {}
    PROVE  (CHOOSE k \in S : \A j \in S : k <= j) \in S
<1> DEFINE less == OpToRel(<, Nat)
<1>1. IsWellFoundedOn(less, Nat)
  BY NatLessThanWellFounded
<1> HIDE DEF less
<1>2. PICK k \in S : \A j \in S : ~(<<j, k>> \in less)
  BY <1>1, WFMin
<1>3. \A j \in S : j < k => <<j, k>> \in less
  BY DEF less, OpToRel
<1>4. \A j \in S : k <= j
  <2> SUFFICES ASSUME NEW j \in S
               PROVE  k <= j
    OBVIOUS
  <2>1. j \in Nat /\ k \in Nat /\ ~(j < k)
    BY <1>2, <1>3
  <2> QED
    BY <2>1
<1> QED
  BY <1>4

\* Recording writes one event, pending and of the plan: a pending one that
\* matched it, or a new one at the end.
LEMMA RecordedKeeps ==
    ASSUME NEW s \in Seq(Event), NEW plan \in Plans
    PROVE  \E n \in Nat \ {0} :
              /\ Recorded(s, plan) \in Seq(Event)
              /\ n \in DOMAIN Recorded(s, plan)
              /\ Recorded(s, plan)[n].iface = plan.iface
              /\ Recorded(s, plan)[n].status = "pending" /\ Recorded(s, plan)[n].present
              /\ \A k \in DOMAIN Recorded(s, plan) :
                    k # n => k \in DOMAIN s /\ Recorded(s, plan)[k] = s[k]
              /\ \/ /\ n \in DOMAIN s /\ Len(Recorded(s, plan)) = Len(s)
                    /\ s[n].status = "pending" /\ Matches(s[n], plan)
                    /\ Recorded(s, plan)[n].conn =
                          IF plan.conn = NoConn THEN s[n].conn ELSE plan.conn
                 \/ /\ n = Len(s) + 1 /\ Len(Recorded(s, plan)) = n
                    /\ PendingFor(s, plan) = {}
                    /\ Recorded(s, plan)[n].conn = plan.conn
<1>1. Len(s) \in Nat /\ DOMAIN s = 1 .. Len(s) /\ \A k \in DOMAIN s : s[k] \in Event
  BY LenProperties, ElementOfSeq
<1> DEFINE found == PendingFor(s, plan)
           first == CHOOSE k \in found : \A j \in found : k <= j
           new == [iface |-> plan.iface, conn |-> plan.conn,
                   status |-> "pending", present |-> TRUE, decision |-> "none"]
           taken == [s[first] EXCEPT
                     !.conn = IF plan.conn = NoConn THEN s[first].conn ELSE plan.conn,
                     !.present = TRUE]
<1>2. CASE found # {}
  <2>1. first \in found
    <3>1. found \in SUBSET Nat
      BY <1>1 DEF PendingFor
    <3> QED
      BY <1>2, <3>1, FirstPlace
  <2>2. first \in DOMAIN s /\ s[first].status = "pending" /\ Matches(s[first], plan)
    BY <2>1 DEF PendingFor
  <2>3. taken \in Event /\ taken.iface = s[first].iface /\ taken.status = "pending" /\ taken.present
        /\ taken.conn = IF plan.conn = NoConn THEN s[first].conn ELSE plan.conn
    BY <1>1, <2>2 DEF Event, Plans
  <2>4. Recorded(s, plan) = [s EXCEPT ![first] = taken]
    BY <1>2 DEF Recorded
  <2> HIDE DEF taken, first
  <2>5. /\ Recorded(s, plan) \in Seq(Event) /\ Len(Recorded(s, plan)) = Len(s)
        /\ \A j \in 1 .. Len(s) : Recorded(s, plan)[j] = IF j = first THEN taken ELSE s[j]
    BY <1>1, <2>2, <2>3, <2>4, ExceptSeq
  <2>6. DOMAIN Recorded(s, plan) = 1 .. Len(s)
    BY <2>5, LenProperties
  <2> QED
    <3>1. Recorded(s, plan)[first] = taken /\ first \in Nat \ {0}
      BY <1>1, <2>2, <2>5
    <3>2. taken.iface = plan.iface
      BY <2>2, <2>3 DEF Matches
    <3>3. \A k \in DOMAIN Recorded(s, plan) :
              k # first => k \in DOMAIN s /\ Recorded(s, plan)[k] = s[k]
      BY <1>1, <2>5, <2>6
    <3> QED
      BY <1>1, <2>2, <2>3, <2>5, <2>6, <3>1, <3>2, <3>3
<1>3. CASE found = {}
  <2>1. new \in Event
    BY DEF Event, Plans
  <2>2. Recorded(s, plan) = Append(s, new)
    BY <1>3 DEF Recorded
  <2>3. new.iface = plan.iface /\ new.conn = plan.conn /\ new.status = "pending" /\ new.present
    OBVIOUS
  <2> HIDE DEF new
  <2>4. /\ Recorded(s, plan) \in Seq(Event) /\ Len(Recorded(s, plan)) = Len(s) + 1
        /\ \A j \in 1 .. Len(s) : Recorded(s, plan)[j] = s[j]
        /\ Recorded(s, plan)[Len(s) + 1] = new
    BY <1>1, <2>1, <2>2, AppendProperties
  <2>5. DOMAIN Recorded(s, plan) = 1 .. Len(s) + 1
    BY <2>4, LenProperties
  <2> QED
    <3> DEFINE n == Len(s) + 1
    <3>1. n \in Nat \ {0} /\ n \in DOMAIN Recorded(s, plan) /\ Recorded(s, plan)[n] = new
      BY <1>1, <2>4, <2>5
    <3>2. \A k \in DOMAIN Recorded(s, plan) :
              k # n => k \in DOMAIN s /\ Recorded(s, plan)[k] = s[k]
      BY <1>1, <2>4, <2>5
    <3> QED
      BY <1>3, <2>3, <2>4, <3>1, <3>2
<1> QED
  BY <1>2, <1>3

\* The place where recording has put the plan.
RecordedAt(s, plan, n) ==
    /\ Recorded(s, plan) \in Seq(Event)
    /\ n \in DOMAIN Recorded(s, plan)
    /\ Recorded(s, plan)[n].iface = plan.iface
    /\ Recorded(s, plan)[n].status = "pending" /\ Recorded(s, plan)[n].present
    /\ \A k \in DOMAIN Recorded(s, plan) :
          k # n => k \in DOMAIN s /\ Recorded(s, plan)[k] = s[k]
    /\ \/ /\ n \in DOMAIN s /\ Len(Recorded(s, plan)) = Len(s)
          /\ s[n].status = "pending" /\ Matches(s[n], plan)
          /\ Recorded(s, plan)[n].conn = IF plan.conn = NoConn THEN s[n].conn ELSE plan.conn
       \/ /\ n = Len(s) + 1 /\ Len(Recorded(s, plan)) = n
          /\ PendingFor(s, plan) = {}
          /\ Recorded(s, plan)[n].conn = plan.conn

\* There is one.
LEMMA RecordedPlace ==
    ASSUME NEW s \in Seq(Event), NEW plan \in Plans
    PROVE  \E n \in Nat \ {0} : RecordedAt(s, plan, n)
BY RecordedKeeps DEF RecordedAt

\* A decision changes one event.
LEMMA ResolvedKeeps ==
    ASSUME NEW s \in Seq(Event), NEW n \in DOMAIN s, NEW decision \in Choices
    PROVE  /\ Resolved(s, n, decision) \in Seq(Event)
           /\ Len(Resolved(s, n, decision)) = Len(s)
           /\ DOMAIN Resolved(s, n, decision) = DOMAIN s
           /\ \A k \in DOMAIN s : k # n => Resolved(s, n, decision)[k] = s[k]
           /\ Resolved(s, n, decision)[n].iface = s[n].iface
           /\ Resolved(s, n, decision)[n].conn = s[n].conn
           /\ Resolved(s, n, decision)[n].status = "resolved"
           /\ Resolved(s, n, decision)[n].decision = decision
           /\ Resolved(s, n, decision)[n].present
<1>1. Len(s) \in Nat /\ DOMAIN s = 1 .. Len(s) /\ \A k \in DOMAIN s : s[k] \in Event
  BY LenProperties, ElementOfSeq
<1> DEFINE e == [iface |-> s[n].iface, conn |-> s[n].conn, status |-> "resolved",
                 present |-> TRUE, decision |-> decision]
<1>2. e \in Event
  BY <1>1 DEF Event
<1>3. Resolved(s, n, decision) = [s EXCEPT ![n] = e]
  <2>1. s[n] = [iface |-> s[n].iface, conn |-> s[n].conn, status |-> s[n].status,
                present |-> s[n].present, decision |-> s[n].decision]
    BY <1>1 DEF Event
  <2>2. Resolved(s, n, decision) =
            [s EXCEPT ![n] = [[[@ EXCEPT !.status = "resolved"]
                                  EXCEPT !.decision = decision] EXCEPT !.present = TRUE]]
    BY <1>1 DEF Resolved
  <2> QED
    BY <1>1, <2>1, <2>2
<1>4. e.iface = s[n].iface /\ e.conn = s[n].conn /\ e.status = "resolved"
      /\ e.decision = decision /\ e.present
  OBVIOUS
<1> HIDE DEF e
<1>5. /\ Resolved(s, n, decision) \in Seq(Event) /\ Len(Resolved(s, n, decision)) = Len(s)
      /\ \A j \in 1 .. Len(s) : Resolved(s, n, decision)[j] = IF j = n THEN e ELSE s[j]
  BY <1>1, <1>2, <1>3, ExceptSeq
<1>6. DOMAIN Resolved(s, n, decision) = 1 .. Len(s)
  BY <1>5, LenProperties
<1> QED
  BY <1>1, <1>4, <1>5, <1>6

----------------------------------------------------------------------------
(* What the operators keep of a store *)

\* A store that is cut has no event it did not have, so it stays good.
LEMMA GoodCapped ==
    ASSUME NEW s \in Seq(Event), NEW profiles, Enforced(s, profiles), Distinct(s)
    PROVE  Enforced(Capped(s), profiles) /\ Distinct(Capped(s))
<1> DEFINE C == Capped(s)
           d == Dropped(s)
<1>1. /\ \A k \in DOMAIN C : k + d \in DOMAIN s /\ C[k] = s[k + d]
      /\ d \in Nat /\ DOMAIN C = 1 .. Len(s) - d /\ Len(s) \in Nat
  <2>1. Len(s) \in Nat
    BY LenProperties
  <2> QED
    BY <2>1, CappedKeeps, ZenonT(40)
<1> HIDE DEF C, d
<1>2. \A j, k \in DOMAIN C : j # k => j + d # k + d
  BY <1>1
<1>3. Enforced(C, profiles)
  BY <1>1 DEF Enforced
<1>4. Distinct(C)
  BY <1>1, <1>2 DEF Distinct
<1> QED
  BY <1>3, <1>4 DEF C

\* Marking keeps it good.
LEMMA GoodMarked ==
    ASSUME NEW s \in Seq(Event), NEW profiles, NEW plans, Enforced(s, profiles), Distinct(s)
    PROVE  Enforced(Marked(s, plans), profiles) /\ Distinct(Marked(s, plans))
<1> DEFINE M == Marked(s, plans)
<1>1. /\ DOMAIN M = DOMAIN s
      /\ \A k \in DOMAIN s : /\ M[k].iface = s[k].iface /\ M[k].conn = s[k].conn
                             /\ M[k].status = s[k].status /\ M[k].decision = s[k].decision
  BY MarkedKeeps
<1> HIDE DEF M
<1>2. Enforced(M, profiles)
  BY <1>1 DEF Enforced
<1>3. Distinct(M)
  BY <1>1 DEF Distinct
<1> QED
  BY <1>2, <1>3 DEF M

\* A pending event that takes a connection had none before, and was the only
\* one of its interface.
LEMMA GoodRecorded ==
    ASSUME NEW s \in Seq(Event), NEW profiles, NEW plan \in Plans,
           Enforced(s, profiles), Distinct(s)
    PROVE  Enforced(Recorded(s, plan), profiles) /\ Distinct(Recorded(s, plan))
<1> DEFINE R == Recorded(s, plan)
<1>1. PICK n \in Nat \ {0} :
        /\ n \in DOMAIN R
        /\ R[n].iface = plan.iface /\ R[n].status = "pending"
        /\ \A k \in DOMAIN R : k # n => k \in DOMAIN s /\ R[k] = s[k]
        /\ \/ /\ n \in DOMAIN s
              /\ s[n].status = "pending" /\ Matches(s[n], plan)
              /\ R[n].conn = IF plan.conn = NoConn THEN s[n].conn ELSE plan.conn
           \/ PendingFor(s, plan) = {} /\ R[n].conn = plan.conn
  BY RecordedKeeps
<1> HIDE DEF R
<1>2. Enforced(R, profiles)
  BY <1>1 DEF Enforced
<1>3. ASSUME NEW k \in DOMAIN R, k # n, R[k].status = "pending", R[k].iface = plan.iface
      PROVE  ~SameConn(R[n].conn, R[k].conn)
  <2>1. k \in DOMAIN s /\ R[k] = s[k]
    BY <1>1, <1>3
  <2>2. CASE n \in DOMAIN s /\ Matches(s[n], plan) /\ s[n].status = "pending"
              /\ R[n].conn = IF plan.conn = NoConn THEN s[n].conn ELSE plan.conn
    BY <1>3, <2>1, <2>2 DEF Distinct, SameConn, Matches
  <2>3. CASE PendingFor(s, plan) = {} /\ R[n].conn = plan.conn
    BY <1>3, <2>1, <2>3 DEF PendingFor, SameConn, Matches
  <2> QED
    BY <1>1, <2>2, <2>3
<1>4. Distinct(R)
  BY <1>1, <1>3 DEF Distinct, SameConn
<1> QED
  BY <1>2, <1>4 DEF R

\* So does a decision whose profile is demoted.
LEMMA GoodResolved ==
    ASSUME NEW s \in Seq(Event), NEW profiles, NEW n \in DOMAIN s, NEW decision \in Choices,
           decision # "ignore-once" /\ s[n].conn # NoConn => s[n].conn \in profiles,
           Enforced(s, profiles), Distinct(s)
    PROVE  Enforced(Resolved(s, n, decision), profiles) /\ Distinct(Resolved(s, n, decision))
<1> DEFINE R == Resolved(s, n, decision)
<1>1. /\ DOMAIN R = DOMAIN s
      /\ \A k \in DOMAIN s : k # n => R[k] = s[k]
      /\ R[n].status = "resolved" /\ R[n].decision = decision /\ R[n].conn = s[n].conn
  BY ResolvedKeeps
<1> HIDE DEF R
<1>2. Enforced(R, profiles) /\ Distinct(R)
  BY <1>1 DEF Enforced, Distinct
<1> QED
  BY <1>2 DEF R

\* An empty store is good.
LEMMA GoodEmpty ==
    ASSUME NEW profiles
    PROVE  <<>> \in Seq(Event) /\ Enforced(<<>>, profiles) /\ Distinct(<<>>)
BY EmptySeq DEF Enforced, Distinct

\* The request of an idle process is one.
LEMMA NoArgType ==
    NoArg \in Requests
<1>1. (CHOOSE i \in Ifaces : TRUE) \in Ifaces
  BY PhoneAssumption
<1> HIDE DEF Choices
<1> QED
  BY <1>1, CapPositive DEF NoArg, Request, Requests, Plans

\* No saved policy is enforced, whatever is demoted.
LEMMA NoPolicyType ==
    NoPolicy \in [Keys -> Saved] /\ \A profiles : EnforcedPolicy(NoPolicy, profiles)
BY DEF NoPolicy, Saved, EnforcedPolicy

----------------------------------------------------------------------------
(* Every step keeps the invariant of overlapping commands *)

\* A scan discovers its plans.
LEMMA BeginScanStep ==
    ASSUME SafeInv, NEW p \in Procs, BeginScan(p),
           clobbered' = (clobbered \/ Overlapping')
    PROVE  SafeInv'
<1> USE DEF files, net, locals, hist, At, Goto, Busy
<1>1. /\ events' \in Seq(Event) /\ Len(events') <= Cap
      /\ Enforced(events', demoted') /\ Distinct(events')
  BY DEF SafeInv, TypeOK, DecisionsEnforced, NoDuplicatePending, Enforced, BeginScan,
     Begin
<1>2. /\ snap' \in [Procs -> Seq(Event)]
      /\ \A q \in Procs : Enforced(snap'[q], demoted') /\ Distinct(snap'[q])
  BY DEF SafeInv, TypeOK, CopiesGood, Good, BeginScan, Begin
<1>3. /\ policy' \in [Keys -> Saved] /\ psnap' \in [Procs -> [Keys -> Saved]]
      /\ EnforcedPolicy(policy', demoted')
      /\ \A q \in Procs : EnforcedPolicy(psnap'[q], demoted')
  BY NoPolicyType DEF SafeInv, TypeOK, DecisionsEnforced, CopiesGood, EnforcedPolicy,
     BeginScan, Begin
<1>4. TypeOK'
  <2>1. (/\ phase \in [Ifaces -> Phases]
        /\ conn \in [Ifaces -> Conns \cup {NoConn}])'
    BY DEF SafeInv, TypeOK, Phases, BeginScan, Begin
  <2>2. (/\ demoted \subseteq Conns
        /\ unguarded \subseteq Conns
        /\ answered \subseteq Plans
        /\ clobbered \in BOOLEAN)'
    BY DEF SafeInv, TypeOK, StepOfOp, SelectHolds, BeginScan, Begin
  <2>3. (/\ pc \in [Procs -> PcValues]
        /\ op \in [Procs -> OpNames \cup {"none"}])'
    BY DEF SafeInv, TypeOK, PcValues, OpNames, BeginScan, Begin
  <2>4. (/\ arg \in [Procs -> Requests]
        /\ seen \in [Procs -> SUBSET Plans]
        /\ todo \in [Procs -> SUBSET Plans])'
    BY NoArgType, CapPositive DEF SafeInv, TypeOK, Discovered, Plans, BeginScan, Begin
  <2>5. (crashes \in 0..MaxCrashes)'
    BY DEF SafeInv, TypeOK, BeginScan, Begin
  <2> QED
    BY <1>1, <1>2, <1>3, <2>1, <2>2, <2>3, <2>4, <2>5 DEF TypeOK
<1>5. StepOfOp'
  BY DEF SafeInv, TypeOK, StepOfOp, BeginScan, Begin
<1>6. NamedWhenUp'
  BY DEF SafeInv, TypeOK, NamedWhenUp, BeginScan, Begin
<1>7. GuardHolds'
  BY DEF SafeInv, TypeOK, StepOfOp, NamedWhenUp, GuardHolds, BeginScan, Begin
<1>8. SelectHolds'
  BY DEF SafeInv, TypeOK, StepOfOp, SelectHolds, BeginScan, Begin
<1>9. NoSilentTakeover'
  BY DEF SafeInv, TypeOK, GuardHolds, NoSilentTakeover, BeginScan, Begin
<1>10. DecisionsEnforced' /\ NoDuplicatePending' /\ CopiesGood'
  BY <1>1, <1>2, <1>3 DEF DecisionsEnforced, NoDuplicatePending, CopiesGood, Good
<1>11. Current'
  BY DEF SafeInv, TypeOK, StepOfOp, Current, Overlapping, HoldsEvents, HoldsPolicy,
     BeginScan, Begin
<1> QED
  BY <1>4, <1>5, <1>6, <1>7, <1>8, <1>9, <1>10, <1>11 DEF SafeInv

\* It reads the store and marks what is present.
LEMMA ScanMarkStep ==
    ASSUME SafeInv, NEW p \in Procs, ScanMark(p),
           clobbered' = (clobbered \/ Overlapping')
    PROVE  SafeInv'
<1> USE DEF files, net, locals, hist, At, Goto, Busy
<1>0. /\ pc[p] = "sc_mark" /\ UNCHANGED <<files, net, op, arg, seen, todo, psnap, crashes, hist>>
      /\ \/ pc' = [pc EXCEPT ![p] = "sc_loop"] /\ snap' = snap
         \/ /\ pc' = [pc EXCEPT ![p] = "sc_mark_w"]
            /\ snap' = [snap EXCEPT ![p] = Marked(events, seen[p])]
  BY DEF ScanMark
<1>1. /\ events' \in Seq(Event) /\ Len(events') <= Cap
      /\ Enforced(events', demoted') /\ Distinct(events')
  BY <1>0 DEF SafeInv, TypeOK, DecisionsEnforced, NoDuplicatePending, Enforced
<1>2. /\ snap' \in [Procs -> Seq(Event)]
      /\ \A q \in Procs : Enforced(snap'[q], demoted') /\ Distinct(snap'[q])
  <2>1. /\ Marked(events, seen[p]) \in Seq(Event)
        /\ Enforced(Marked(events, seen[p]), demoted) /\ Distinct(Marked(events, seen[p]))
    BY MarkedKeeps, GoodMarked DEF SafeInv, TypeOK, DecisionsEnforced, NoDuplicatePending
  <2> QED
    BY <1>0, <2>1 DEF SafeInv, TypeOK, CopiesGood, Good
<1>3. /\ policy' \in [Keys -> Saved] /\ psnap' \in [Procs -> [Keys -> Saved]]
      /\ EnforcedPolicy(policy', demoted')
      /\ \A q \in Procs : EnforcedPolicy(psnap'[q], demoted')
  BY <1>0, NoPolicyType DEF SafeInv, TypeOK, DecisionsEnforced, CopiesGood,
     EnforcedPolicy
<1>4. TypeOK'
  <2>1. (/\ phase \in [Ifaces -> Phases]
        /\ conn \in [Ifaces -> Conns \cup {NoConn}])'
    BY <1>0 DEF SafeInv, TypeOK, Phases
  <2>2. (/\ demoted \subseteq Conns
        /\ unguarded \subseteq Conns
        /\ answered \subseteq Plans
        /\ clobbered \in BOOLEAN)'
    BY <1>0 DEF SafeInv, TypeOK, StepOfOp, SelectHolds
  <2>3. (/\ pc \in [Procs -> PcValues]
        /\ op \in [Procs -> OpNames \cup {"none"}])'
    BY <1>0 DEF SafeInv, TypeOK, PcValues, OpNames
  <2>4. (/\ arg \in [Procs -> Requests]
        /\ seen \in [Procs -> SUBSET Plans]
        /\ todo \in [Procs -> SUBSET Plans])'
    BY <1>0, NoArgType, CapPositive DEF SafeInv, TypeOK
  <2>5. (crashes \in 0..MaxCrashes)'
    BY <1>0 DEF SafeInv, TypeOK
  <2> QED
    BY <1>1, <1>2, <1>3, <2>1, <2>2, <2>3, <2>4, <2>5 DEF TypeOK
<1>5. StepOfOp'
  BY <1>0 DEF SafeInv, TypeOK, StepOfOp
<1>6. NamedWhenUp'
  BY <1>0 DEF SafeInv, TypeOK, NamedWhenUp
<1>7. GuardHolds'
  BY <1>0 DEF SafeInv, TypeOK, StepOfOp, NamedWhenUp, GuardHolds
<1>8. SelectHolds'
  BY <1>0 DEF SafeInv, TypeOK, StepOfOp, SelectHolds
<1>9. NoSilentTakeover'
  BY <1>0 DEF SafeInv, TypeOK, GuardHolds, NoSilentTakeover
<1>10. DecisionsEnforced' /\ NoDuplicatePending' /\ CopiesGood'
  BY <1>1, <1>2, <1>3 DEF DecisionsEnforced, NoDuplicatePending, CopiesGood, Good
<1>11. Current'
  <2> SUFFICES ASSUME ~clobbered'
               PROVE  Current'
    BY DEF Current
  <2>1. ~clobbered /\ ~Overlapping'
    BY DEF SafeInv, TypeOK
  <2>2. ASSUME NEW q \in Procs
        PROVE  /\ pc'[q] = "sc_mark_w" => snap'[q] = Marked(events', seen'[q])
               /\ pc'[q] = "rec_write" => snap'[q] = Recorded(events', arg'[q].plan)
               /\ op'[q] = "select" => snap'[q] = events'
               /\ HoldsPolicy(q)' => psnap'[q] = policy'
    <3>1. CASE q # p
      BY <1>0, <2>1, <3>1 DEF SafeInv, TypeOK, Current, HoldsPolicy
    <3>2. CASE q = p
      BY <1>0, <2>1, <3>2 DEF SafeInv, TypeOK, StepOfOp, HoldsPolicy
    <3> QED
      BY <3>1, <3>2
  <2> QED
    BY <2>1, <2>2 DEF Current
<1> QED
  BY <1>4, <1>5, <1>6, <1>7, <1>8, <1>9, <1>10, <1>11 DEF SafeInv

\* It writes the marked store.
LEMMA ScanMarkWriteStep ==
    ASSUME SafeInv, NEW p \in Procs, ScanMarkWrite(p),
           clobbered' = (clobbered \/ Overlapping')
    PROVE  SafeInv'
<1> USE DEF files, net, locals, hist, At, Goto, Busy
<1>1. /\ events' \in Seq(Event) /\ Len(events') <= Cap
      /\ Enforced(events', demoted') /\ Distinct(events')
  BY CappedKeeps, GoodCapped DEF SafeInv, TypeOK, CopiesGood, Good, ScanMarkWrite
<1>2. /\ snap' \in [Procs -> Seq(Event)]
      /\ \A q \in Procs : Enforced(snap'[q], demoted') /\ Distinct(snap'[q])
  BY GoodEmpty DEF SafeInv, TypeOK, CopiesGood, Good, ScanMarkWrite
<1>3. /\ policy' \in [Keys -> Saved] /\ psnap' \in [Procs -> [Keys -> Saved]]
      /\ EnforcedPolicy(policy', demoted')
      /\ \A q \in Procs : EnforcedPolicy(psnap'[q], demoted')
  BY NoPolicyType DEF SafeInv, TypeOK, DecisionsEnforced, CopiesGood, EnforcedPolicy,
     ScanMarkWrite
<1>4. TypeOK'
  <2>1. (/\ phase \in [Ifaces -> Phases]
        /\ conn \in [Ifaces -> Conns \cup {NoConn}])'
    BY DEF SafeInv, TypeOK, Phases, ScanMarkWrite
  <2>2. (/\ demoted \subseteq Conns
        /\ unguarded \subseteq Conns
        /\ answered \subseteq Plans
        /\ clobbered \in BOOLEAN)'
    BY DEF SafeInv, TypeOK, StepOfOp, SelectHolds, ScanMarkWrite
  <2>3. (/\ pc \in [Procs -> PcValues]
        /\ op \in [Procs -> OpNames \cup {"none"}])'
    BY DEF SafeInv, TypeOK, PcValues, OpNames, ScanMarkWrite
  <2>4. (/\ arg \in [Procs -> Requests]
        /\ seen \in [Procs -> SUBSET Plans]
        /\ todo \in [Procs -> SUBSET Plans])'
    BY NoArgType, CapPositive DEF SafeInv, TypeOK, ScanMarkWrite
  <2>5. (crashes \in 0..MaxCrashes)'
    BY DEF SafeInv, TypeOK, ScanMarkWrite
  <2> QED
    BY <1>1, <1>2, <1>3, <2>1, <2>2, <2>3, <2>4, <2>5 DEF TypeOK
<1>5. StepOfOp'
  BY DEF SafeInv, TypeOK, StepOfOp, ScanMarkWrite
<1>6. NamedWhenUp'
  BY DEF SafeInv, TypeOK, NamedWhenUp, ScanMarkWrite
<1>7. GuardHolds'
  BY DEF SafeInv, TypeOK, StepOfOp, NamedWhenUp, GuardHolds, ScanMarkWrite
<1>8. SelectHolds'
  BY DEF SafeInv, TypeOK, StepOfOp, SelectHolds, ScanMarkWrite
<1>9. NoSilentTakeover'
  BY DEF SafeInv, TypeOK, GuardHolds, NoSilentTakeover, ScanMarkWrite
<1>10. DecisionsEnforced' /\ NoDuplicatePending' /\ CopiesGood'
  BY <1>1, <1>2, <1>3 DEF DecisionsEnforced, NoDuplicatePending, CopiesGood, Good
<1>11. Current'
  BY DEF SafeInv, TypeOK, StepOfOp, Current, Overlapping, HoldsEvents, HoldsPolicy,
     ScanMarkWrite
<1> QED
  BY <1>4, <1>5, <1>6, <1>7, <1>8, <1>9, <1>10, <1>11 DEF SafeInv

\* It takes the next plan.
LEMMA ScanNextStep ==
    ASSUME SafeInv, NEW p \in Procs, ScanNext(p),
           clobbered' = (clobbered \/ Overlapping')
    PROVE  SafeInv'
<1> USE DEF files, net, locals, hist, At, Goto, Busy
<1>0. PICK plan \in todo[p] :
        /\ pc[p] = "sc_loop" /\ op[p] = "scan" /\ plan \in Plans
        /\ UNCHANGED <<files, net, op, seen, snap, psnap, crashes, hist>>
        /\ \/ /\ todo' = [todo EXCEPT ![p] = todo[p] \ {plan}]
              /\ pc' = pc /\ arg' = arg
           \/ /\ pc' = [pc EXCEPT ![p] = "rec_read"] /\ todo' = todo
              /\ arg' = [arg EXCEPT ![p] = Request(plan, 0, "none", FALSE)]
  BY DEF ScanNext, SafeInv, TypeOK, StepOfOp
<1>1. /\ events' \in Seq(Event) /\ Len(events') <= Cap
      /\ Enforced(events', demoted') /\ Distinct(events')
  BY <1>0 DEF SafeInv, TypeOK, DecisionsEnforced, NoDuplicatePending, Enforced, Request
<1>2. /\ snap' \in [Procs -> Seq(Event)]
      /\ \A q \in Procs : Enforced(snap'[q], demoted') /\ Distinct(snap'[q])
  BY <1>0 DEF SafeInv, TypeOK, CopiesGood, Good, Request
<1>3. /\ policy' \in [Keys -> Saved] /\ psnap' \in [Procs -> [Keys -> Saved]]
      /\ EnforcedPolicy(policy', demoted')
      /\ \A q \in Procs : EnforcedPolicy(psnap'[q], demoted')
  BY <1>0, NoPolicyType DEF SafeInv, TypeOK, DecisionsEnforced, CopiesGood,
     EnforcedPolicy, Request
<1>4. TypeOK'
  <2>1. (/\ phase \in [Ifaces -> Phases]
        /\ conn \in [Ifaces -> Conns \cup {NoConn}])'
    BY <1>0 DEF SafeInv, TypeOK, Phases, Request
  <2>2. (/\ demoted \subseteq Conns
        /\ unguarded \subseteq Conns
        /\ answered \subseteq Plans
        /\ clobbered \in BOOLEAN)'
    BY <1>0 DEF SafeInv, TypeOK, StepOfOp, SelectHolds, Request
  <2>3. (/\ pc \in [Procs -> PcValues]
        /\ op \in [Procs -> OpNames \cup {"none"}])'
    BY <1>0 DEF SafeInv, TypeOK, PcValues, OpNames, Request
  <2>4. (/\ arg \in [Procs -> Requests]
        /\ seen \in [Procs -> SUBSET Plans]
        /\ todo \in [Procs -> SUBSET Plans])'
    <3>1. Request(plan, 0, "none", FALSE) \in
            Requests
      <4> HIDE DEF Choices
      <4> QED
        BY <1>0, CapPositive DEF Request, Requests
    <3>2. (arg \in [Procs -> Requests])'
      BY <1>0, <3>1 DEF SafeInv, TypeOK
    <3> QED
      BY <1>0, <3>2 DEF SafeInv, TypeOK
  <2>5. (crashes \in 0..MaxCrashes)'
    BY <1>0 DEF SafeInv, TypeOK, Request
  <2> QED
    BY <1>1, <1>2, <1>3, <2>1, <2>2, <2>3, <2>4, <2>5 DEF TypeOK
<1>5. StepOfOp'
  BY <1>0 DEF SafeInv, TypeOK, StepOfOp, Request
<1>6. NamedWhenUp'
  BY <1>0 DEF SafeInv, TypeOK, NamedWhenUp, Request
<1>7. GuardHolds'
  <2> SUFFICES ASSUME NEW q \in Procs, op[q] = "guard"
               PROVE  /\ arg'[q].plan.conn \in Conns
                      /\ arg'[q].first /\ phase[arg'[q].plan.iface] = "guarding" =>
                            conn[arg'[q].plan.iface] = arg'[q].plan.conn
    BY <1>0 DEF GuardHolds
  <2>1. arg'[q] = arg[q]
    BY <1>0 DEF SafeInv, TypeOK
  <2> QED
    BY <2>1 DEF SafeInv, GuardHolds
<1>8. SelectHolds'
  <2>1. ASSUME NEW q \in Procs, op[q] = "select"
        PROVE  arg'[q] = arg[q] /\ pc'[q] = pc[q]
    BY <1>0, <2>1 DEF SafeInv, TypeOK
  <2> QED
    BY <1>0, <2>1 DEF SafeInv, SelectHolds
<1>9. NoSilentTakeover'
  BY <1>0 DEF SafeInv, TypeOK, GuardHolds, NoSilentTakeover, Request
<1>10. DecisionsEnforced' /\ NoDuplicatePending' /\ CopiesGood'
  BY <1>1, <1>2, <1>3 DEF DecisionsEnforced, NoDuplicatePending, CopiesGood, Good
<1>11. Current'
  <2> SUFFICES ASSUME ~clobbered'
               PROVE  Current'
    BY DEF Current
  <2>1. ~clobbered /\ ~Overlapping'
    BY DEF SafeInv, TypeOK
  <2>2. ASSUME NEW q \in Procs
        PROVE  /\ pc'[q] = "sc_mark_w" => snap'[q] = Marked(events', seen'[q])
               /\ pc'[q] = "rec_write" => snap'[q] = Recorded(events', arg'[q].plan)
               /\ op'[q] = "select" => snap'[q] = events'
               /\ HoldsPolicy(q)' => psnap'[q] = policy'
    <3>1. CASE q # p
      BY <1>0, <2>1, <3>1 DEF SafeInv, TypeOK, Current, HoldsPolicy
    <3>2. CASE q = p
      BY <1>0, <2>1, <3>2 DEF SafeInv, TypeOK, StepOfOp, HoldsPolicy
    <3> QED
      BY <3>1, <3>2
  <2> QED
    BY <2>1, <2>2 DEF Current
<1> QED
  BY <1>4, <1>5, <1>6, <1>7, <1>8, <1>9, <1>10, <1>11 DEF SafeInv

\* It ends.
LEMMA ScanDoneStep ==
    ASSUME SafeInv, NEW p \in Procs, ScanDone(p),
           clobbered' = (clobbered \/ Overlapping')
    PROVE  SafeInv'
<1> USE DEF files, net, locals, hist, At, Goto, Busy
<1>1. /\ events' \in Seq(Event) /\ Len(events') <= Cap
      /\ Enforced(events', demoted') /\ Distinct(events')
  BY DEF SafeInv, TypeOK, DecisionsEnforced, NoDuplicatePending, Enforced, ScanDone,
     Finish
<1>2. /\ snap' \in [Procs -> Seq(Event)]
      /\ \A q \in Procs : Enforced(snap'[q], demoted') /\ Distinct(snap'[q])
  BY GoodEmpty DEF SafeInv, TypeOK, CopiesGood, Good, Enforced, ScanDone, Finish
<1>3. /\ policy' \in [Keys -> Saved] /\ psnap' \in [Procs -> [Keys -> Saved]]
      /\ EnforcedPolicy(policy', demoted')
      /\ \A q \in Procs : EnforcedPolicy(psnap'[q], demoted')
  BY NoPolicyType DEF SafeInv, TypeOK, DecisionsEnforced, CopiesGood, EnforcedPolicy,
     ScanDone, Finish
<1>4. TypeOK'
  <2>1. (/\ phase \in [Ifaces -> Phases]
        /\ conn \in [Ifaces -> Conns \cup {NoConn}])'
    BY DEF SafeInv, TypeOK, Phases, ScanDone, Finish
  <2>2. (/\ demoted \subseteq Conns
        /\ unguarded \subseteq Conns
        /\ answered \subseteq Plans
        /\ clobbered \in BOOLEAN)'
    BY DEF SafeInv, TypeOK, StepOfOp, SelectHolds, ScanDone, Finish
  <2>3. (/\ pc \in [Procs -> PcValues]
        /\ op \in [Procs -> OpNames \cup {"none"}])'
    BY DEF SafeInv, TypeOK, PcValues, OpNames, ScanDone, Finish
  <2>4. (/\ arg \in [Procs -> Requests]
        /\ seen \in [Procs -> SUBSET Plans]
        /\ todo \in [Procs -> SUBSET Plans])'
    BY NoArgType, CapPositive DEF SafeInv, TypeOK, ScanDone, Finish
  <2>5. (crashes \in 0..MaxCrashes)'
    BY DEF SafeInv, TypeOK, ScanDone, Finish
  <2> QED
    BY <1>1, <1>2, <1>3, <2>1, <2>2, <2>3, <2>4, <2>5 DEF TypeOK
<1>5. StepOfOp'
  BY DEF SafeInv, TypeOK, StepOfOp, ScanDone, Finish
<1>6. NamedWhenUp'
  BY DEF SafeInv, TypeOK, NamedWhenUp, ScanDone, Finish
<1>7. GuardHolds'
  BY DEF SafeInv, TypeOK, StepOfOp, NamedWhenUp, GuardHolds, ScanDone, Finish
<1>8. SelectHolds'
  BY DEF SafeInv, TypeOK, StepOfOp, SelectHolds, ScanDone, Finish
<1>9. NoSilentTakeover'
  BY DEF SafeInv, TypeOK, GuardHolds, NoSilentTakeover, ScanDone, Finish
<1>10. DecisionsEnforced' /\ NoDuplicatePending' /\ CopiesGood'
  BY <1>1, <1>2, <1>3 DEF DecisionsEnforced, NoDuplicatePending, CopiesGood, Good
<1>11. Current'
  BY DEF SafeInv, TypeOK, StepOfOp, Current, Overlapping, HoldsEvents, HoldsPolicy,
     ScanDone, Finish
<1> QED
  BY <1>4, <1>5, <1>6, <1>7, <1>8, <1>9, <1>10, <1>11 DEF SafeInv

\* A plan is recorded in a copy of the store.
LEMMA RecordReadStep ==
    ASSUME SafeInv, NEW p \in Procs, RecordRead(p),
           clobbered' = (clobbered \/ Overlapping')
    PROVE  SafeInv'
<1> USE DEF files, net, locals, hist, At, Goto, Busy
<1>1. /\ events' \in Seq(Event) /\ Len(events') <= Cap
      /\ Enforced(events', demoted') /\ Distinct(events')
  BY DEF SafeInv, TypeOK, DecisionsEnforced, NoDuplicatePending, Enforced, RecordRead
<1>2. /\ snap' \in [Procs -> Seq(Event)]
      /\ \A q \in Procs : Enforced(snap'[q], demoted') /\ Distinct(snap'[q])
  BY RecordedKeeps, GoodRecorded DEF DecisionsEnforced, NoDuplicatePending, SafeInv,
     TypeOK, CopiesGood, Good, Requests, RecordRead
<1>3. /\ policy' \in [Keys -> Saved] /\ psnap' \in [Procs -> [Keys -> Saved]]
      /\ EnforcedPolicy(policy', demoted')
      /\ \A q \in Procs : EnforcedPolicy(psnap'[q], demoted')
  BY NoPolicyType DEF SafeInv, TypeOK, DecisionsEnforced, CopiesGood, EnforcedPolicy,
     RecordRead
<1>4. TypeOK'
  <2>1. (/\ phase \in [Ifaces -> Phases]
        /\ conn \in [Ifaces -> Conns \cup {NoConn}])'
    BY DEF SafeInv, TypeOK, Phases, RecordRead
  <2>2. (/\ demoted \subseteq Conns
        /\ unguarded \subseteq Conns
        /\ answered \subseteq Plans
        /\ clobbered \in BOOLEAN)'
    BY DEF SafeInv, TypeOK, StepOfOp, SelectHolds, RecordRead
  <2>3. (/\ pc \in [Procs -> PcValues]
        /\ op \in [Procs -> OpNames \cup {"none"}])'
    BY DEF SafeInv, TypeOK, PcValues, OpNames, RecordRead
  <2>4. (/\ arg \in [Procs -> Requests]
        /\ seen \in [Procs -> SUBSET Plans]
        /\ todo \in [Procs -> SUBSET Plans])'
    BY NoArgType, CapPositive DEF SafeInv, TypeOK, RecordRead
  <2>5. (crashes \in 0..MaxCrashes)'
    BY DEF SafeInv, TypeOK, RecordRead
  <2> QED
    BY <1>1, <1>2, <1>3, <2>1, <2>2, <2>3, <2>4, <2>5 DEF TypeOK
<1>5. StepOfOp'
  BY DEF SafeInv, TypeOK, StepOfOp, RecordRead
<1>6. NamedWhenUp'
  BY DEF SafeInv, TypeOK, NamedWhenUp, RecordRead
<1>7. GuardHolds'
  BY DEF SafeInv, TypeOK, StepOfOp, NamedWhenUp, GuardHolds, RecordRead
<1>8. SelectHolds'
  BY DEF SafeInv, TypeOK, StepOfOp, SelectHolds, RecordRead
<1>9. NoSilentTakeover'
  BY DEF SafeInv, TypeOK, GuardHolds, NoSilentTakeover, RecordRead
<1>10. DecisionsEnforced' /\ NoDuplicatePending' /\ CopiesGood'
  BY <1>1, <1>2, <1>3 DEF DecisionsEnforced, NoDuplicatePending, CopiesGood, Good
<1>11. Current'
  BY DEF SafeInv, TypeOK, StepOfOp, Current, Overlapping, HoldsEvents, HoldsPolicy,
     RecordRead
<1> QED
  BY <1>4, <1>5, <1>6, <1>7, <1>8, <1>9, <1>10, <1>11 DEF SafeInv

\* The copy replaces the store.
LEMMA RecordWriteStep ==
    ASSUME SafeInv, NEW p \in Procs, RecordWrite(p),
           clobbered' = (clobbered \/ Overlapping')
    PROVE  SafeInv'
<1> USE DEF files, net, locals, hist, At, Goto, Busy
<1>1. /\ events' \in Seq(Event) /\ Len(events') <= Cap
      /\ Enforced(events', demoted') /\ Distinct(events')
  BY CappedKeeps, GoodCapped DEF SafeInv, TypeOK, CopiesGood, Good, RecordWrite
<1>2. /\ snap' \in [Procs -> Seq(Event)]
      /\ \A q \in Procs : Enforced(snap'[q], demoted') /\ Distinct(snap'[q])
  BY GoodEmpty DEF SafeInv, TypeOK, CopiesGood, Good, RecordWrite
<1>3. /\ policy' \in [Keys -> Saved] /\ psnap' \in [Procs -> [Keys -> Saved]]
      /\ EnforcedPolicy(policy', demoted')
      /\ \A q \in Procs : EnforcedPolicy(psnap'[q], demoted')
  BY NoPolicyType DEF SafeInv, TypeOK, DecisionsEnforced, CopiesGood, EnforcedPolicy,
     RecordWrite
<1>4. TypeOK'
  <2>1. (/\ phase \in [Ifaces -> Phases]
        /\ conn \in [Ifaces -> Conns \cup {NoConn}])'
    BY DEF SafeInv, TypeOK, Phases, RecordWrite
  <2>2. (/\ demoted \subseteq Conns
        /\ unguarded \subseteq Conns
        /\ answered \subseteq Plans
        /\ clobbered \in BOOLEAN)'
    BY DEF SafeInv, TypeOK, StepOfOp, SelectHolds, RecordWrite
  <2>3. (/\ pc \in [Procs -> PcValues]
        /\ op \in [Procs -> OpNames \cup {"none"}])'
    BY DEF SafeInv, TypeOK, PcValues, OpNames, RecordWrite
  <2>4. (/\ arg \in [Procs -> Requests]
        /\ seen \in [Procs -> SUBSET Plans]
        /\ todo \in [Procs -> SUBSET Plans])'
    BY NoArgType, CapPositive DEF SafeInv, TypeOK, RecordWrite
  <2>5. (crashes \in 0..MaxCrashes)'
    BY DEF SafeInv, TypeOK, RecordWrite
  <2> QED
    BY <1>1, <1>2, <1>3, <2>1, <2>2, <2>3, <2>4, <2>5 DEF TypeOK
<1>5. StepOfOp'
  BY DEF SafeInv, TypeOK, StepOfOp, RecordWrite
<1>6. NamedWhenUp'
  BY DEF SafeInv, TypeOK, NamedWhenUp, RecordWrite
<1>7. GuardHolds'
  BY DEF SafeInv, TypeOK, StepOfOp, NamedWhenUp, GuardHolds, RecordWrite
<1>8. SelectHolds'
  BY DEF SafeInv, TypeOK, StepOfOp, SelectHolds, RecordWrite
<1>9. NoSilentTakeover'
  BY DEF SafeInv, TypeOK, GuardHolds, NoSilentTakeover, RecordWrite
<1>10. DecisionsEnforced' /\ NoDuplicatePending' /\ CopiesGood'
  BY <1>1, <1>2, <1>3 DEF DecisionsEnforced, NoDuplicatePending, CopiesGood, Good
<1>11. Current'
  BY DEF SafeInv, TypeOK, StepOfOp, Current, Overlapping, HoldsEvents, HoldsPolicy,
     RecordWrite
<1> QED
  BY <1>4, <1>5, <1>6, <1>7, <1>8, <1>9, <1>10, <1>11 DEF SafeInv

\* The dispatcher holds a connection back.
LEMMA BeginGuardStep ==
    ASSUME SafeInv, NEW p \in Procs, BeginGuard(p),
           clobbered' = (clobbered \/ Overlapping')
    PROVE  SafeInv'
<1> USE DEF files, net, locals, hist, At, Goto, Busy
<1>0. PICK i \in Ifaces :
        /\ phase[i] \in {"pre_up", "up"} /\ conn[i] \in Conns
        /\ pc[p] = "idle" /\ op[p] = "none" /\ "guard" \in Ops[p]
        /\ op' = [op EXCEPT ![p] = "guard"]
        /\ \/ pc' = [pc EXCEPT ![p] = "rec_read"]
           \/ pc' = [pc EXCEPT ![p] = "gd_apply"]
        /\ arg' = [arg EXCEPT ![p] =
              Request([iface |-> i, conn |-> conn[i]], 0, "none", phase[i] = "pre_up")]
        /\ phase' = [phase EXCEPT ![i] = IF @ = "pre_up" THEN "guarding" ELSE @]
        /\ answered' = {plan \in answered : plan.iface # i}
        /\ UNCHANGED <<files, conn, demoted, seen, todo, snap, psnap, crashes, unguarded>>
  BY DEF BeginGuard, Begin, SafeInv, TypeOK, NamedWhenUp, StepOfOp
<1>1. /\ events' \in Seq(Event) /\ Len(events') <= Cap
      /\ Enforced(events', demoted') /\ Distinct(events')
  BY <1>0 DEF SafeInv, TypeOK, DecisionsEnforced, NoDuplicatePending, Enforced, Request
<1>2. /\ snap' \in [Procs -> Seq(Event)]
      /\ \A q \in Procs : Enforced(snap'[q], demoted') /\ Distinct(snap'[q])
  BY <1>0 DEF SafeInv, TypeOK, CopiesGood, Good, Request
<1>3. /\ policy' \in [Keys -> Saved] /\ psnap' \in [Procs -> [Keys -> Saved]]
      /\ EnforcedPolicy(policy', demoted')
      /\ \A q \in Procs : EnforcedPolicy(psnap'[q], demoted')
  BY <1>0, NoPolicyType DEF SafeInv, TypeOK, DecisionsEnforced, CopiesGood,
     EnforcedPolicy, Request
<1>4. TypeOK'
  <2>1. (/\ phase \in [Ifaces -> Phases]
        /\ conn \in [Ifaces -> Conns \cup {NoConn}])'
    BY <1>0 DEF SafeInv, TypeOK, Phases, Request
  <2>2. (/\ demoted \subseteq Conns
        /\ unguarded \subseteq Conns
        /\ answered \subseteq Plans
        /\ clobbered \in BOOLEAN)'
    BY <1>0 DEF SafeInv, TypeOK, StepOfOp, SelectHolds, Request
  <2>3. (/\ pc \in [Procs -> PcValues]
        /\ op \in [Procs -> OpNames \cup {"none"}])'
    BY <1>0 DEF SafeInv, TypeOK, PcValues, OpNames, Request
  <2>4. (/\ arg \in [Procs -> Requests]
        /\ seen \in [Procs -> SUBSET Plans]
        /\ todo \in [Procs -> SUBSET Plans])'
    BY <1>0, NoArgType, CapPositive DEF SafeInv, TypeOK, Discovered, Plans, Requests,
       Request
  <2>5. (crashes \in 0..MaxCrashes)'
    BY <1>0 DEF SafeInv, TypeOK, Request
  <2> QED
    BY <1>1, <1>2, <1>3, <2>1, <2>2, <2>3, <2>4, <2>5 DEF TypeOK
<1>5. StepOfOp'
  BY <1>0 DEF SafeInv, TypeOK, StepOfOp, Request
<1>6. NamedWhenUp'
  BY <1>0 DEF SafeInv, TypeOK, NamedWhenUp, Request
<1>7. GuardHolds'
  <2> SUFFICES ASSUME NEW q \in Procs, op'[q] = "guard"
               PROVE  /\ arg'[q].plan.conn \in Conns
                      /\ arg'[q].first /\ phase'[arg'[q].plan.iface] = "guarding" =>
                            conn'[arg'[q].plan.iface] = arg'[q].plan.conn
    BY DEF GuardHolds
  <2>1. q = p
    <3> SUFFICES ASSUME q # p
                 PROVE  FALSE
      OBVIOUS
    <3>1. op[q] = "guard"
      BY <1>0 DEF SafeInv, TypeOK
    <3>2. "guard" \in Ops[q] \cap Ops[p]
      BY <1>0, <3>1 DEF SafeInv, StepOfOp
    <3> QED
      BY <3>2, PhoneAssumption, Zenon
  <2>2. arg'[q] = Request([iface |-> i, conn |-> conn[i]], 0, "none", phase[i] = "pre_up")
    BY <1>0, <2>1 DEF SafeInv, TypeOK
  <2> QED
    BY <1>0, <2>2 DEF Request
<1>8. SelectHolds'
  BY <1>0 DEF SafeInv, TypeOK, StepOfOp, SelectHolds, Request
<1>9. NoSilentTakeover'
  BY <1>0 DEF SafeInv, TypeOK, GuardHolds, NoSilentTakeover, Request
<1>10. DecisionsEnforced' /\ NoDuplicatePending' /\ CopiesGood'
  BY <1>1, <1>2, <1>3 DEF DecisionsEnforced, NoDuplicatePending, CopiesGood, Good
<1>11. Current'
  <2> SUFFICES ASSUME ~clobbered'
               PROVE  Current'
    BY DEF Current
  <2>1. ~clobbered /\ ~Overlapping'
    BY DEF SafeInv, TypeOK
  <2>2. ASSUME NEW q \in Procs
        PROVE  /\ pc'[q] = "sc_mark_w" => snap'[q] = Marked(events', seen'[q])
               /\ pc'[q] = "rec_write" => snap'[q] = Recorded(events', arg'[q].plan)
               /\ op'[q] = "select" => snap'[q] = events'
               /\ HoldsPolicy(q)' => psnap'[q] = policy'
    <3>1. CASE q # p
      BY <1>0, <2>1, <3>1 DEF SafeInv, TypeOK, Current, HoldsPolicy
    <3>2. CASE q = p
      BY <1>0, <2>1, <3>2 DEF SafeInv, TypeOK, StepOfOp, HoldsPolicy
    <3> QED
      BY <3>1, <3>2
  <2> QED
    BY <2>1, <2>2 DEF Current
<1> QED
  BY <1>4, <1>5, <1>6, <1>7, <1>8, <1>9, <1>10, <1>11 DEF SafeInv

\* It demotes the profile, or fails to, and lets the connection come up.
LEMMA GuardApplyStep ==
    ASSUME SafeInv, NEW p \in Procs, GuardApply(p),
           clobbered' = (clobbered \/ Overlapping')
    PROVE  SafeInv'
<1> USE DEF files, net, locals, hist, At, Goto, Busy
<1>0. /\ pc[p] = "gd_apply" /\ UNCHANGED <<files, conn, crashes, answered>>
      /\ op[p] = "guard" /\ arg[p].plan.conn \in Conns
      /\ \/ demoted' = demoted \cup {arg[p].plan.conn} /\ UNCHANGED unguarded
         \/ unguarded' = unguarded \cup {arg[p].plan.conn} /\ UNCHANGED demoted
      /\ ComesUp(p) /\ Finish(p)
  BY DEF GuardApply, SafeInv, StepOfOp, GuardHolds
<1>1. /\ events' \in Seq(Event) /\ Len(events') <= Cap
      /\ Enforced(events', demoted') /\ Distinct(events')
  BY <1>0 DEF SafeInv, TypeOK, DecisionsEnforced, NoDuplicatePending, Enforced, ComesUp,
     Finish
<1>2. /\ snap' \in [Procs -> Seq(Event)]
      /\ \A q \in Procs : Enforced(snap'[q], demoted') /\ Distinct(snap'[q])
  BY <1>0, GoodEmpty DEF SafeInv, TypeOK, CopiesGood, Good, Enforced, ComesUp, Finish
<1>3. /\ policy' \in [Keys -> Saved] /\ psnap' \in [Procs -> [Keys -> Saved]]
      /\ EnforcedPolicy(policy', demoted')
      /\ \A q \in Procs : EnforcedPolicy(psnap'[q], demoted')
  BY <1>0, NoPolicyType DEF SafeInv, TypeOK, DecisionsEnforced, CopiesGood,
     EnforcedPolicy, ComesUp, Finish
<1>4. TypeOK'
  <2>1. (/\ phase \in [Ifaces -> Phases]
        /\ conn \in [Ifaces -> Conns \cup {NoConn}])'
    BY <1>0 DEF SafeInv, TypeOK, Phases, ComesUp, Finish
  <2>2. (/\ demoted \subseteq Conns
        /\ unguarded \subseteq Conns
        /\ answered \subseteq Plans
        /\ clobbered \in BOOLEAN)'
    BY <1>0 DEF SafeInv, TypeOK, StepOfOp, SelectHolds, ComesUp, Finish
  <2>3. (/\ pc \in [Procs -> PcValues]
        /\ op \in [Procs -> OpNames \cup {"none"}])'
    BY <1>0 DEF SafeInv, TypeOK, PcValues, OpNames, ComesUp, Finish
  <2>4. (/\ arg \in [Procs -> Requests]
        /\ seen \in [Procs -> SUBSET Plans]
        /\ todo \in [Procs -> SUBSET Plans])'
    BY <1>0, NoArgType, CapPositive DEF SafeInv, TypeOK, ComesUp, Finish
  <2>5. (crashes \in 0..MaxCrashes)'
    BY <1>0 DEF SafeInv, TypeOK, ComesUp, Finish
  <2> QED
    BY <1>1, <1>2, <1>3, <2>1, <2>2, <2>3, <2>4, <2>5 DEF TypeOK
<1>5. StepOfOp'
  BY <1>0 DEF SafeInv, TypeOK, StepOfOp, ComesUp, Finish
<1>6. NamedWhenUp'
  BY <1>0 DEF SafeInv, TypeOK, NamedWhenUp, ComesUp, Finish
<1>7. GuardHolds'
  BY <1>0 DEF SafeInv, TypeOK, StepOfOp, NamedWhenUp, GuardHolds, ComesUp, Finish
<1>8. SelectHolds'
  BY <1>0 DEF SafeInv, TypeOK, StepOfOp, SelectHolds, ComesUp, Finish
<1>9. NoSilentTakeover'
  BY <1>0 DEF SafeInv, TypeOK, GuardHolds, NoSilentTakeover, ComesUp, Finish
<1>10. DecisionsEnforced' /\ NoDuplicatePending' /\ CopiesGood'
  BY <1>1, <1>2, <1>3 DEF DecisionsEnforced, NoDuplicatePending, CopiesGood, Good
<1>11. Current'
  BY <1>0 DEF SafeInv, TypeOK, StepOfOp, Current, Overlapping, HoldsEvents, HoldsPolicy,
     ComesUp, Finish
<1> QED
  BY <1>4, <1>5, <1>6, <1>7, <1>8, <1>9, <1>10, <1>11 DEF SafeInv

\* A decision reads the store and finds its event.
LEMMA BeginSelectStep ==
    ASSUME SafeInv, NEW p \in Procs, BeginSelect(p),
           clobbered' = (clobbered \/ Overlapping')
    PROVE  SafeInv'
<1> USE DEF files, net, locals, hist, At, Goto, Busy
<1>0. PICK k \in DOMAIN events, decision \in Decisions, label \in {"se_apply", "se_pol_read", "se_write"} :
        /\ pc[p] = "idle" /\ op[p] = "none" /\ "select" \in Ops[p]
        /\ k \in 0..Cap /\ decision \in Choices
        /\ events[k].iface \in Ifaces /\ events[k].conn \in Conns \cup {NoConn}
        /\ label = "se_apply" => events[k].conn # NoConn
        /\ label # "se_apply" => events[k].conn = NoConn \/ decision = "ignore-once"
        /\ label = "se_pol_read" => decision \in Always
        /\ op' = [op EXCEPT ![p] = "select"]
        /\ pc' = [pc EXCEPT ![p] = label]
        /\ arg' = [arg EXCEPT ![p] =
              Request([iface |-> events[k].iface, conn |-> events[k].conn], k, decision, FALSE)]
        /\ snap' = [snap EXCEPT ![p] = events]
        /\ UNCHANGED <<files, net, seen, todo, psnap, crashes, hist>>
  <2>1. PICK k \in DOMAIN events, decision \in Decisions :
          /\ events[k].conn = NoConn => decision \notin UsePhone
          /\ Begin(p, "select",
                   IF events[k].conn # NoConn /\ decision # "ignore-once" THEN "se_apply"
                   ELSE AfterApply(decision))
          /\ arg' = [arg EXCEPT ![p] =
                Request([iface |-> events[k].iface, conn |-> events[k].conn], k, decision, FALSE)]
          /\ snap' = [snap EXCEPT ![p] = events]
          /\ UNCHANGED <<files, net, seen, todo, psnap, crashes, hist>>
    BY Zenon DEF BeginSelect
  <2> DEFINE label == IF events[k].conn # NoConn /\ decision # "ignore-once" THEN "se_apply"
                      ELSE AfterApply(decision)
  <2>2. /\ label \in {"se_apply", "se_pol_read", "se_write"}
        /\ label = "se_apply" => events[k].conn # NoConn
        /\ label # "se_apply" => events[k].conn = NoConn \/ decision = "ignore-once"
        /\ label = "se_pol_read" => decision \in Always
    BY DEF AfterApply
  <2> HIDE DEF label
  <2>3. /\ op' = [op EXCEPT ![p] = "select"] /\ pc[p] = "idle" /\ "select" \in Ops[p]
        /\ pc' = [pc EXCEPT ![p] = label] /\ op[p] = "none"
    BY <2>1 DEF Begin, label, SafeInv, TypeOK, StepOfOp
  <2>4. /\ k \in 0..Cap /\ decision \in Choices
        /\ events[k].iface \in Ifaces /\ events[k].conn \in Conns \cup {NoConn}
    <3>1. events[k] \in Event /\ decision \in Choices
      BY PhoneAssumption DEF SafeInv, TypeOK
    <3>2. events[k].iface \in Ifaces /\ events[k].conn \in Conns \cup {NoConn}
      <4> HIDE DEF Choices
      <4> QED
        BY <3>1 DEF Event
    <3>3. k \in 0..Cap
      BY CapPositive DEF SafeInv, TypeOK
    <3> QED
      BY <3>1, <3>2, <3>3
  <2> QED
    BY <2>1, <2>2, <2>3, <2>4
<1>1. /\ events' \in Seq(Event) /\ Len(events') <= Cap
      /\ Enforced(events', demoted') /\ Distinct(events')
  BY <1>0 DEF SafeInv, TypeOK, DecisionsEnforced, NoDuplicatePending, Enforced, Request
<1>2. /\ snap' \in [Procs -> Seq(Event)]
      /\ \A q \in Procs : Enforced(snap'[q], demoted') /\ Distinct(snap'[q])
  BY <1>0 DEF DecisionsEnforced, NoDuplicatePending, SafeInv, TypeOK, CopiesGood, Good,
     Request
<1>3. /\ policy' \in [Keys -> Saved] /\ psnap' \in [Procs -> [Keys -> Saved]]
      /\ EnforcedPolicy(policy', demoted')
      /\ \A q \in Procs : EnforcedPolicy(psnap'[q], demoted')
  BY <1>0, NoPolicyType DEF SafeInv, TypeOK, DecisionsEnforced, CopiesGood,
     EnforcedPolicy, Request
<1>4. TypeOK'
  <2>1. (/\ phase \in [Ifaces -> Phases]
        /\ conn \in [Ifaces -> Conns \cup {NoConn}])'
    BY <1>0 DEF SafeInv, TypeOK, Phases, Request
  <2>2. (/\ demoted \subseteq Conns
        /\ unguarded \subseteq Conns
        /\ answered \subseteq Plans
        /\ clobbered \in BOOLEAN)'
    BY <1>0 DEF SafeInv, TypeOK, StepOfOp, SelectHolds, Request
  <2>3. (/\ pc \in [Procs -> PcValues]
        /\ op \in [Procs -> OpNames \cup {"none"}])'
    BY <1>0 DEF SafeInv, TypeOK, PcValues, OpNames, Request
  <2>4. (/\ arg \in [Procs -> Requests]
        /\ seen \in [Procs -> SUBSET Plans]
        /\ todo \in [Procs -> SUBSET Plans])'
    <3>1. Request([iface |-> events[k].iface, conn |-> events[k].conn], k, decision, FALSE)
            \in Requests
      <4> HIDE DEF Choices
      <4> QED
        BY <1>0 DEF Request, Requests, Plans
    <3> QED
      BY <1>0, <3>1 DEF SafeInv, TypeOK
  <2>5. (crashes \in 0..MaxCrashes)'
    BY <1>0 DEF SafeInv, TypeOK, Request
  <2> QED
    BY <1>1, <1>2, <1>3, <2>1, <2>2, <2>3, <2>4, <2>5 DEF TypeOK
<1>5. StepOfOp'
  BY <1>0 DEF SafeInv, TypeOK, StepOfOp, Request
<1>6. NamedWhenUp'
  BY <1>0 DEF SafeInv, TypeOK, NamedWhenUp, Request
<1>7. GuardHolds'
  BY <1>0 DEF SafeInv, TypeOK, StepOfOp, NamedWhenUp, GuardHolds, Request
<1>8. SelectHolds'
  BY <1>0, PhoneAssumption DEF SafeInv, TypeOK, StepOfOp, SelectHolds, Request
<1>9. NoSilentTakeover'
  BY <1>0 DEF SafeInv, TypeOK, GuardHolds, NoSilentTakeover, Request
<1>10. DecisionsEnforced' /\ NoDuplicatePending' /\ CopiesGood'
  BY <1>1, <1>2, <1>3 DEF DecisionsEnforced, NoDuplicatePending, CopiesGood, Good
<1>11. Current'
  <2> SUFFICES ASSUME ~clobbered'
               PROVE  Current'
    BY DEF Current
  <2>1. ~clobbered /\ ~Overlapping'
    BY DEF SafeInv, TypeOK
  <2>2. ASSUME NEW q \in Procs
        PROVE  /\ pc'[q] = "sc_mark_w" => snap'[q] = Marked(events', seen'[q])
               /\ pc'[q] = "rec_write" => snap'[q] = Recorded(events', arg'[q].plan)
               /\ op'[q] = "select" => snap'[q] = events'
               /\ HoldsPolicy(q)' => psnap'[q] = policy'
    <3>1. CASE q # p
      BY <1>0, <2>1, <3>1 DEF SafeInv, TypeOK, Current, HoldsPolicy
    <3>2. CASE q = p
      BY <1>0, <2>1, <3>2 DEF SafeInv, TypeOK, StepOfOp, HoldsPolicy
    <3> QED
      BY <3>1, <3>2
  <2> QED
    BY <2>1, <2>2 DEF Current
<1> QED
  BY <1>4, <1>5, <1>6, <1>7, <1>8, <1>9, <1>10, <1>11 DEF SafeInv

\* The decision demotes the profile.
LEMMA SelectTookStep ==
    ASSUME SafeInv, NEW p \in Procs, NEW label \in {"se_pol_read", "se_write"},
           pc[p] = "se_apply", arg[p].plan.conn \in Conns,
           demoted' = demoted \cup {arg[p].plan.conn},
           pc' = [pc EXCEPT ![p] = label],
           label = "se_pol_read" => arg[p].decision \in Always,
           UNCHANGED <<files, phase, conn, crashes, hist, op, arg, seen, todo, snap, psnap>>,
           clobbered' = (clobbered \/ Overlapping')
    PROVE  SafeInv'
<1> USE DEF files, net, locals, hist, At, Goto, Busy
<1>1. /\ events' \in Seq(Event) /\ Len(events') <= Cap
      /\ Enforced(events', demoted') /\ Distinct(events')
  BY DEF SafeInv, TypeOK, DecisionsEnforced, NoDuplicatePending, Enforced
<1>2. /\ snap' \in [Procs -> Seq(Event)]
      /\ \A q \in Procs : Enforced(snap'[q], demoted') /\ Distinct(snap'[q])
  <2>1. demoted \subseteq demoted'
    OBVIOUS
  <2> QED
    BY <2>1 DEF SafeInv, TypeOK, CopiesGood, Good, Enforced
<1>3. /\ policy' \in [Keys -> Saved] /\ psnap' \in [Procs -> [Keys -> Saved]]
      /\ EnforcedPolicy(policy', demoted')
      /\ \A q \in Procs : EnforcedPolicy(psnap'[q], demoted')
  <2>1. demoted \subseteq demoted'
    OBVIOUS
  <2> QED
    BY <2>1 DEF SafeInv, TypeOK, DecisionsEnforced, CopiesGood, EnforcedPolicy
<1>4. TypeOK'
  <2>1. (/\ phase \in [Ifaces -> Phases]
        /\ conn \in [Ifaces -> Conns \cup {NoConn}])'
    BY DEF SafeInv, TypeOK, Phases
  <2>2. (/\ demoted \subseteq Conns
        /\ unguarded \subseteq Conns
        /\ answered \subseteq Plans
        /\ clobbered \in BOOLEAN)'
    BY DEF SafeInv, TypeOK, StepOfOp, SelectHolds
  <2>3. (/\ pc \in [Procs -> PcValues]
        /\ op \in [Procs -> OpNames \cup {"none"}])'
    BY DEF SafeInv, TypeOK, PcValues, OpNames
  <2>4. (/\ arg \in [Procs -> Requests]
        /\ seen \in [Procs -> SUBSET Plans]
        /\ todo \in [Procs -> SUBSET Plans])'
    BY NoArgType, CapPositive DEF SafeInv, TypeOK
  <2>5. (crashes \in 0..MaxCrashes)'
    BY DEF SafeInv, TypeOK
  <2> QED
    BY <1>1, <1>2, <1>3, <2>1, <2>2, <2>3, <2>4, <2>5 DEF TypeOK
<1>5. StepOfOp'
  BY DEF SafeInv, TypeOK, StepOfOp
<1>6. NamedWhenUp'
  BY DEF SafeInv, TypeOK, NamedWhenUp
<1>7. GuardHolds'
  BY DEF SafeInv, TypeOK, StepOfOp, NamedWhenUp, GuardHolds
<1>8. SelectHolds'
  BY DEF SafeInv, TypeOK, StepOfOp, SelectHolds
<1>9. NoSilentTakeover'
  BY DEF SafeInv, TypeOK, GuardHolds, NoSilentTakeover
<1>10. DecisionsEnforced' /\ NoDuplicatePending' /\ CopiesGood'
  BY <1>1, <1>2, <1>3 DEF DecisionsEnforced, NoDuplicatePending, CopiesGood, Good
<1>11. Current'
  BY DEF SafeInv, TypeOK, StepOfOp, Current, Overlapping, HoldsEvents, HoldsPolicy
<1> QED
  BY <1>4, <1>5, <1>6, <1>7, <1>8, <1>9, <1>10, <1>11 DEF SafeInv

\* The demotion of a decision fails, and the command ends.
LEMMA SelectFailsStep ==
    ASSUME SafeInv, NEW p \in Procs, pc[p] = "se_apply", Finish(p),
           UNCHANGED <<files, phase, conn, crashes, hist, demoted>>,
           clobbered' = (clobbered \/ Overlapping')
    PROVE  SafeInv'
<1> USE DEF files, net, locals, hist, At, Goto, Busy
<1>1. /\ events' \in Seq(Event) /\ Len(events') <= Cap
      /\ Enforced(events', demoted') /\ Distinct(events')
  BY DEF SafeInv, TypeOK, DecisionsEnforced, NoDuplicatePending, Enforced, Finish
<1>2. /\ snap' \in [Procs -> Seq(Event)]
      /\ \A q \in Procs : Enforced(snap'[q], demoted') /\ Distinct(snap'[q])
  BY GoodEmpty DEF SafeInv, TypeOK, CopiesGood, Good, Enforced, Finish
<1>3. /\ policy' \in [Keys -> Saved] /\ psnap' \in [Procs -> [Keys -> Saved]]
      /\ EnforcedPolicy(policy', demoted')
      /\ \A q \in Procs : EnforcedPolicy(psnap'[q], demoted')
  BY NoPolicyType DEF SafeInv, TypeOK, DecisionsEnforced, CopiesGood, EnforcedPolicy,
     Finish
<1>4. TypeOK'
  <2>1. (/\ phase \in [Ifaces -> Phases]
        /\ conn \in [Ifaces -> Conns \cup {NoConn}])'
    BY DEF SafeInv, TypeOK, Phases, Finish
  <2>2. (/\ demoted \subseteq Conns
        /\ unguarded \subseteq Conns
        /\ answered \subseteq Plans
        /\ clobbered \in BOOLEAN)'
    BY DEF SafeInv, TypeOK, StepOfOp, SelectHolds, Finish
  <2>3. (/\ pc \in [Procs -> PcValues]
        /\ op \in [Procs -> OpNames \cup {"none"}])'
    BY DEF SafeInv, TypeOK, PcValues, OpNames, Finish
  <2>4. (/\ arg \in [Procs -> Requests]
        /\ seen \in [Procs -> SUBSET Plans]
        /\ todo \in [Procs -> SUBSET Plans])'
    BY NoArgType, CapPositive DEF SafeInv, TypeOK, Finish
  <2>5. (crashes \in 0..MaxCrashes)'
    BY DEF SafeInv, TypeOK, Finish
  <2> QED
    BY <1>1, <1>2, <1>3, <2>1, <2>2, <2>3, <2>4, <2>5 DEF TypeOK
<1>5. StepOfOp'
  BY DEF SafeInv, TypeOK, StepOfOp, Finish
<1>6. NamedWhenUp'
  BY DEF SafeInv, TypeOK, NamedWhenUp, Finish
<1>7. GuardHolds'
  BY DEF SafeInv, TypeOK, StepOfOp, NamedWhenUp, GuardHolds, Finish
<1>8. SelectHolds'
  BY DEF SafeInv, TypeOK, StepOfOp, SelectHolds, Finish
<1>9. NoSilentTakeover'
  BY DEF SafeInv, TypeOK, GuardHolds, NoSilentTakeover, Finish
<1>10. DecisionsEnforced' /\ NoDuplicatePending' /\ CopiesGood'
  BY <1>1, <1>2, <1>3 DEF DecisionsEnforced, NoDuplicatePending, CopiesGood, Good
<1>11. Current'
  BY DEF SafeInv, TypeOK, StepOfOp, Current, Overlapping, HoldsEvents, HoldsPolicy,
     Finish
<1> QED
  BY <1>4, <1>5, <1>6, <1>7, <1>8, <1>9, <1>10, <1>11 DEF SafeInv

\* A decision applies the policy of its profile.
LEMMA SelectApplyStep ==
    ASSUME SafeInv, NEW p \in Procs, SelectApply(p),
           clobbered' = (clobbered \/ Overlapping')
    PROVE  SafeInv'
<1>1. /\ pc[p] = "se_apply" /\ arg[p].plan.conn \in Conns
      /\ UNCHANGED <<files, phase, conn, crashes, hist>>
      /\ \/ /\ demoted' = demoted \cup {arg[p].plan.conn}
            /\ Goto(p, AfterApply(arg[p].decision))
            /\ UNCHANGED <<op, arg, seen, todo, snap, psnap>>
         \/ Finish(p) /\ UNCHANGED demoted
  BY DEF SelectApply, At, SafeInv, TypeOK, Requests, StepOfOp, SelectHolds, Plans
<1>2. CASE Finish(p) /\ UNCHANGED demoted
  BY <1>1, <1>2, SelectFailsStep DEF files, hist
<1>3. CASE /\ demoted' = demoted \cup {arg[p].plan.conn}
           /\ Goto(p, AfterApply(arg[p].decision))
           /\ UNCHANGED <<op, arg, seen, todo, snap, psnap>>
  <2> DEFINE label == AfterApply(arg[p].decision)
  <2>1. /\ label \in {"se_pol_read", "se_write"}
        /\ label = "se_pol_read" => arg[p].decision \in Always
        /\ pc' = [pc EXCEPT ![p] = label]
    BY <1>3 DEF AfterApply, Goto
  <2> HIDE DEF label
  <2> QED
    BY <1>1, <1>3, <2>1, SelectTookStep DEF files, hist
<1> QED
  BY <1>1, <1>2, <1>3

\* It reads the saved policies.
LEMMA SavePolicyReadStep ==
    ASSUME SafeInv, NEW p \in Procs, SavePolicyRead(p),
           clobbered' = (clobbered \/ Overlapping')
    PROVE  SafeInv'
<1> USE DEF files, net, locals, hist, At, Goto, Busy
<1>1. /\ events' \in Seq(Event) /\ Len(events') <= Cap
      /\ Enforced(events', demoted') /\ Distinct(events')
  BY DEF SafeInv, TypeOK, DecisionsEnforced, NoDuplicatePending, Enforced,
     SavePolicyRead
<1>2. /\ snap' \in [Procs -> Seq(Event)]
      /\ \A q \in Procs : Enforced(snap'[q], demoted') /\ Distinct(snap'[q])
  BY DEF SafeInv, TypeOK, CopiesGood, Good, SavePolicyRead
<1>3. /\ policy' \in [Keys -> Saved] /\ psnap' \in [Procs -> [Keys -> Saved]]
      /\ EnforcedPolicy(policy', demoted')
      /\ \A q \in Procs : EnforcedPolicy(psnap'[q], demoted')
  BY NoPolicyType DEF SafeInv, TypeOK, DecisionsEnforced, CopiesGood, EnforcedPolicy,
     SavePolicyRead
<1>4. TypeOK'
  <2>1. (/\ phase \in [Ifaces -> Phases]
        /\ conn \in [Ifaces -> Conns \cup {NoConn}])'
    BY DEF SafeInv, TypeOK, Phases, SavePolicyRead
  <2>2. (/\ demoted \subseteq Conns
        /\ unguarded \subseteq Conns
        /\ answered \subseteq Plans
        /\ clobbered \in BOOLEAN)'
    BY DEF SafeInv, TypeOK, StepOfOp, SelectHolds, SavePolicyRead
  <2>3. (/\ pc \in [Procs -> PcValues]
        /\ op \in [Procs -> OpNames \cup {"none"}])'
    BY DEF SafeInv, TypeOK, PcValues, OpNames, SavePolicyRead
  <2>4. (/\ arg \in [Procs -> Requests]
        /\ seen \in [Procs -> SUBSET Plans]
        /\ todo \in [Procs -> SUBSET Plans])'
    BY NoArgType, CapPositive DEF SafeInv, TypeOK, SavePolicyRead
  <2>5. (crashes \in 0..MaxCrashes)'
    BY DEF SafeInv, TypeOK, SavePolicyRead
  <2> QED
    BY <1>1, <1>2, <1>3, <2>1, <2>2, <2>3, <2>4, <2>5 DEF TypeOK
<1>5. StepOfOp'
  BY DEF SafeInv, TypeOK, StepOfOp, SavePolicyRead
<1>6. NamedWhenUp'
  BY DEF SafeInv, TypeOK, NamedWhenUp, SavePolicyRead
<1>7. GuardHolds'
  BY DEF SafeInv, TypeOK, StepOfOp, NamedWhenUp, GuardHolds, SavePolicyRead
<1>8. SelectHolds'
  BY DEF SafeInv, TypeOK, StepOfOp, SelectHolds, SavePolicyRead
<1>9. NoSilentTakeover'
  BY DEF SafeInv, TypeOK, GuardHolds, NoSilentTakeover, SavePolicyRead
<1>10. DecisionsEnforced' /\ NoDuplicatePending' /\ CopiesGood'
  BY <1>1, <1>2, <1>3 DEF DecisionsEnforced, NoDuplicatePending, CopiesGood, Good
<1>11. Current'
  BY DEF SafeInv, TypeOK, StepOfOp, Current, Overlapping, HoldsEvents, HoldsPolicy,
     SavePolicyRead
<1> QED
  BY <1>4, <1>5, <1>6, <1>7, <1>8, <1>9, <1>10, <1>11 DEF SafeInv

\* It saves a policy, of a profile that is demoted.
LEMMA SavePolicyWriteStep ==
    ASSUME SafeInv, NEW p \in Procs, SavePolicyWrite(p),
           clobbered' = (clobbered \/ Overlapping')
    PROVE  SafeInv'
<1> USE DEF files, net, locals, hist, At, Goto, Busy
<1>1. /\ events' \in Seq(Event) /\ Len(events') <= Cap
      /\ Enforced(events', demoted') /\ Distinct(events')
  BY DEF SafeInv, TypeOK, DecisionsEnforced, NoDuplicatePending, Enforced,
     SavePolicyWrite
<1>2. /\ snap' \in [Procs -> Seq(Event)]
      /\ \A q \in Procs : Enforced(snap'[q], demoted') /\ Distinct(snap'[q])
  BY DEF SafeInv, TypeOK, CopiesGood, Good, SavePolicyWrite
<1>3. /\ policy' \in [Keys -> Saved] /\ psnap' \in [Procs -> [Keys -> Saved]]
      /\ EnforcedPolicy(policy', demoted')
      /\ \A q \in Procs : EnforcedPolicy(psnap'[q], demoted')
  <2> DEFINE f == [psnap[p] EXCEPT ![arg[p].plan] =
          IF arg[p].decision = "always-use-phone" THEN "use-phone-port" ELSE "keep-current"]
  <2>1. /\ psnap[p] \in [Keys -> Saved] /\ EnforcedPolicy(psnap[p], demoted)
        /\ arg[p].plan.conn # NoConn => arg[p].plan.conn \in demoted
    BY DEF SafeInv, TypeOK, StepOfOp, SelectHolds, CopiesGood, Always, SavePolicyWrite
  <2>2. f \in [Keys -> Saved] /\ EnforcedPolicy(f, demoted)
    BY <2>1 DEF EnforcedPolicy, Saved
  <2>3. policy' = f /\ demoted' = demoted /\ psnap' = [psnap EXCEPT ![p] = NoPolicy]
    BY DEF SavePolicyWrite
  <2> QED
    BY <2>2, <2>3, NoPolicyType DEF SafeInv, TypeOK, CopiesGood
<1>4. TypeOK'
  <2>1. (/\ phase \in [Ifaces -> Phases]
        /\ conn \in [Ifaces -> Conns \cup {NoConn}])'
    BY DEF SafeInv, TypeOK, Phases, SavePolicyWrite
  <2>2. (/\ demoted \subseteq Conns
        /\ unguarded \subseteq Conns
        /\ answered \subseteq Plans
        /\ clobbered \in BOOLEAN)'
    BY DEF SafeInv, TypeOK, StepOfOp, SelectHolds, SavePolicyWrite
  <2>3. (/\ pc \in [Procs -> PcValues]
        /\ op \in [Procs -> OpNames \cup {"none"}])'
    BY DEF SafeInv, TypeOK, PcValues, OpNames, SavePolicyWrite
  <2>4. (/\ arg \in [Procs -> Requests]
        /\ seen \in [Procs -> SUBSET Plans]
        /\ todo \in [Procs -> SUBSET Plans])'
    BY NoArgType, CapPositive DEF SafeInv, TypeOK, SavePolicyWrite
  <2>5. (crashes \in 0..MaxCrashes)'
    BY DEF SafeInv, TypeOK, SavePolicyWrite
  <2> QED
    BY <1>1, <1>2, <1>3, <2>1, <2>2, <2>3, <2>4, <2>5 DEF TypeOK
<1>5. StepOfOp'
  BY DEF SafeInv, TypeOK, StepOfOp, SavePolicyWrite
<1>6. NamedWhenUp'
  BY DEF SafeInv, TypeOK, NamedWhenUp, SavePolicyWrite
<1>7. GuardHolds'
  BY DEF SafeInv, TypeOK, StepOfOp, NamedWhenUp, GuardHolds, SavePolicyWrite
<1>8. SelectHolds'
  BY DEF SafeInv, TypeOK, StepOfOp, SelectHolds, SavePolicyWrite
<1>9. NoSilentTakeover'
  BY DEF SafeInv, TypeOK, GuardHolds, NoSilentTakeover, SavePolicyWrite
<1>10. DecisionsEnforced' /\ NoDuplicatePending' /\ CopiesGood'
  BY <1>1, <1>2, <1>3 DEF DecisionsEnforced, NoDuplicatePending, CopiesGood, Good
<1>11. Current'
  BY DEF SafeInv, TypeOK, StepOfOp, Current, Overlapping, HoldsEvents, HoldsPolicy,
     SavePolicyWrite
<1> QED
  BY <1>4, <1>5, <1>6, <1>7, <1>8, <1>9, <1>10, <1>11 DEF SafeInv

\* It resolves its event, whose profile is demoted.
LEMMA SelectWriteStep ==
    ASSUME SafeInv, NEW p \in Procs, SelectWrite(p),
           clobbered' = (clobbered \/ Overlapping')
    PROVE  SafeInv'
<1> USE DEF files, net, locals, hist, At, Goto, Busy
<1>1. /\ events' \in Seq(Event) /\ Len(events') <= Cap
      /\ Enforced(events', demoted') /\ Distinct(events')
  <2> DEFINE R == Resolved(snap[p], arg[p].k, arg[p].decision)
  <2>1. /\ snap[p] \in Seq(Event) /\ Enforced(snap[p], demoted) /\ Distinct(snap[p])
        /\ arg[p].k \in DOMAIN snap[p] /\ arg[p].decision \in Choices
        /\ arg[p].decision # "ignore-once" /\ snap[p][arg[p].k].conn # NoConn =>
              snap[p][arg[p].k].conn \in demoted
    BY DEF SafeInv, TypeOK, StepOfOp, SelectHolds, CopiesGood, Good, SelectWrite
  <2>2. R \in Seq(Event) /\ Enforced(R, demoted) /\ Distinct(R)
    BY <2>1, ResolvedKeeps, GoodResolved
  <2>3. events' = Capped(R) /\ demoted' = demoted
    BY DEF SelectWrite
  <2> HIDE DEF R
  <2> QED
    BY <2>2, <2>3, CappedKeeps, GoodCapped
<1>2. /\ snap' \in [Procs -> Seq(Event)]
      /\ \A q \in Procs : Enforced(snap'[q], demoted') /\ Distinct(snap'[q])
  BY GoodEmpty DEF SafeInv, TypeOK, CopiesGood, Good, SelectWrite, Finish
<1>3. /\ policy' \in [Keys -> Saved] /\ psnap' \in [Procs -> [Keys -> Saved]]
      /\ EnforcedPolicy(policy', demoted')
      /\ \A q \in Procs : EnforcedPolicy(psnap'[q], demoted')
  BY NoPolicyType DEF SafeInv, TypeOK, DecisionsEnforced, CopiesGood, EnforcedPolicy,
     SelectWrite, Finish
<1>4. TypeOK'
  <2>1. (/\ phase \in [Ifaces -> Phases]
        /\ conn \in [Ifaces -> Conns \cup {NoConn}])'
    BY DEF SafeInv, TypeOK, Phases, SelectWrite, Finish
  <2>2. (/\ demoted \subseteq Conns
        /\ unguarded \subseteq Conns
        /\ answered \subseteq Plans
        /\ clobbered \in BOOLEAN)'
    BY DEF SafeInv, TypeOK, StepOfOp, SelectHolds, Requests, SelectWrite, Finish
  <2>3. (/\ pc \in [Procs -> PcValues]
        /\ op \in [Procs -> OpNames \cup {"none"}])'
    BY DEF SafeInv, TypeOK, PcValues, OpNames, SelectWrite, Finish
  <2>4. (/\ arg \in [Procs -> Requests]
        /\ seen \in [Procs -> SUBSET Plans]
        /\ todo \in [Procs -> SUBSET Plans])'
    BY NoArgType, CapPositive DEF SafeInv, TypeOK, SelectWrite, Finish
  <2>5. (crashes \in 0..MaxCrashes)'
    BY DEF SafeInv, TypeOK, SelectWrite, Finish
  <2> QED
    BY <1>1, <1>2, <1>3, <2>1, <2>2, <2>3, <2>4, <2>5 DEF TypeOK
<1>5. StepOfOp'
  BY DEF SafeInv, TypeOK, StepOfOp, SelectWrite, Finish
<1>6. NamedWhenUp'
  BY DEF SafeInv, TypeOK, NamedWhenUp, SelectWrite, Finish
<1>7. GuardHolds'
  BY DEF SafeInv, TypeOK, StepOfOp, NamedWhenUp, GuardHolds, SelectWrite, Finish
<1>8. SelectHolds'
  BY DEF SafeInv, TypeOK, StepOfOp, SelectHolds, SelectWrite, Finish
<1>9. NoSilentTakeover'
  BY DEF SafeInv, TypeOK, GuardHolds, NoSilentTakeover, SelectWrite, Finish
<1>10. DecisionsEnforced' /\ NoDuplicatePending' /\ CopiesGood'
  BY <1>1, <1>2, <1>3 DEF DecisionsEnforced, NoDuplicatePending, CopiesGood, Good
<1>11. Current'
  BY DEF SafeInv, TypeOK, StepOfOp, Current, Overlapping, HoldsEvents, HoldsPolicy,
     SelectWrite, Finish
<1> QED
  BY <1>4, <1>5, <1>6, <1>7, <1>8, <1>9, <1>10, <1>11 DEF SafeInv

\* A command is cut short; a connection that was held back comes up unguarded.
LEMMA CrashStep ==
    ASSUME SafeInv, NEW p \in Procs, Crash(p),
           clobbered' = (clobbered \/ Overlapping')
    PROVE  SafeInv'
<1> USE DEF files, net, locals, hist, At, Goto, Busy
<1>0. /\ pc[p] # "idle" /\ crashes' \in 0 .. MaxCrashes
      /\ UNCHANGED <<files, conn, demoted, answered>>
      /\ \/ /\ op[p] = "guard" /\ arg[p].plan.conn \in Conns /\ ComesUp(p)
            /\ unguarded' = unguarded \cup {arg[p].plan.conn}
         \/ op[p] # "guard" /\ UNCHANGED <<phase, unguarded>>
      /\ Finish(p)
  BY PhoneAssumption DEF Crash, SafeInv, TypeOK, GuardHolds
<1>1. /\ events' \in Seq(Event) /\ Len(events') <= Cap
      /\ Enforced(events', demoted') /\ Distinct(events')
  BY <1>0 DEF SafeInv, TypeOK, DecisionsEnforced, NoDuplicatePending, Enforced, ComesUp,
     Finish
<1>2. /\ snap' \in [Procs -> Seq(Event)]
      /\ \A q \in Procs : Enforced(snap'[q], demoted') /\ Distinct(snap'[q])
  BY <1>0, GoodEmpty DEF SafeInv, TypeOK, CopiesGood, Good, Enforced, ComesUp, Finish
<1>3. /\ policy' \in [Keys -> Saved] /\ psnap' \in [Procs -> [Keys -> Saved]]
      /\ EnforcedPolicy(policy', demoted')
      /\ \A q \in Procs : EnforcedPolicy(psnap'[q], demoted')
  BY <1>0, NoPolicyType DEF SafeInv, TypeOK, DecisionsEnforced, CopiesGood,
     EnforcedPolicy, ComesUp, Finish
<1>4. TypeOK'
  <2>1. (/\ phase \in [Ifaces -> Phases]
        /\ conn \in [Ifaces -> Conns \cup {NoConn}])'
    BY <1>0 DEF SafeInv, TypeOK, Phases, ComesUp, Finish
  <2>2. (/\ demoted \subseteq Conns
        /\ unguarded \subseteq Conns
        /\ answered \subseteq Plans
        /\ clobbered \in BOOLEAN)'
    BY <1>0 DEF SafeInv, TypeOK, StepOfOp, SelectHolds, ComesUp, Finish
  <2>3. (/\ pc \in [Procs -> PcValues]
        /\ op \in [Procs -> OpNames \cup {"none"}])'
    BY <1>0 DEF SafeInv, TypeOK, PcValues, OpNames, ComesUp, Finish
  <2>4. (/\ arg \in [Procs -> Requests]
        /\ seen \in [Procs -> SUBSET Plans]
        /\ todo \in [Procs -> SUBSET Plans])'
    BY <1>0, NoArgType, CapPositive DEF SafeInv, TypeOK, ComesUp, Finish
  <2>5. (crashes \in 0..MaxCrashes)'
    BY <1>0 DEF SafeInv, TypeOK, ComesUp, Finish
  <2> QED
    BY <1>1, <1>2, <1>3, <2>1, <2>2, <2>3, <2>4, <2>5 DEF TypeOK
<1>5. StepOfOp'
  BY <1>0 DEF SafeInv, TypeOK, StepOfOp, ComesUp, Finish
<1>6. NamedWhenUp'
  BY <1>0 DEF SafeInv, TypeOK, NamedWhenUp, ComesUp, Finish
<1>7. GuardHolds'
  <2> SUFFICES ASSUME NEW q \in Procs, op'[q] = "guard"
               PROVE  /\ arg'[q].plan.conn \in Conns
                      /\ arg'[q].first /\ phase'[arg'[q].plan.iface] = "guarding" =>
                            conn'[arg'[q].plan.iface] = arg'[q].plan.conn
    BY DEF GuardHolds
  <2>1. arg'[q] = arg[q] /\ op[q] = "guard"
    BY <1>0 DEF SafeInv, TypeOK, Finish
  <2>2. \A j \in Ifaces : phase'[j] = "guarding" => phase[j] = "guarding"
    BY <1>0 DEF ComesUp, SafeInv, TypeOK
  <2>3. arg[q].plan.iface \in Ifaces
    BY DEF SafeInv, TypeOK, Requests, Plans
  <2> QED
    BY <1>0, <2>1, <2>2, <2>3 DEF SafeInv, GuardHolds
<1>8. SelectHolds'
  BY <1>0 DEF SafeInv, TypeOK, StepOfOp, SelectHolds, ComesUp, Finish
<1>9. NoSilentTakeover'
  BY <1>0 DEF SafeInv, TypeOK, GuardHolds, NoSilentTakeover, ComesUp, Finish
<1>10. DecisionsEnforced' /\ NoDuplicatePending' /\ CopiesGood'
  BY <1>1, <1>2, <1>3 DEF DecisionsEnforced, NoDuplicatePending, CopiesGood, Good
<1>11. Current'
  BY <1>0 DEF SafeInv, TypeOK, StepOfOp, Current, Overlapping, HoldsEvents, HoldsPolicy,
     ComesUp, Finish
<1> QED
  BY <1>4, <1>5, <1>6, <1>7, <1>8, <1>9, <1>10, <1>11 DEF SafeInv

\* A phone is plugged in.
LEMMA PlugInStep ==
    ASSUME SafeInv, NEW i \in Ifaces, PlugIn(i),
           clobbered' = (clobbered \/ Overlapping')
    PROVE  SafeInv'
<1> USE DEF files, net, locals, hist, At, Goto, Busy
<1>1. /\ events' \in Seq(Event) /\ Len(events') <= Cap
      /\ Enforced(events', demoted') /\ Distinct(events')
  BY DEF SafeInv, TypeOK, DecisionsEnforced, NoDuplicatePending, Enforced, PlugIn
<1>2. /\ snap' \in [Procs -> Seq(Event)]
      /\ \A q \in Procs : Enforced(snap'[q], demoted') /\ Distinct(snap'[q])
  BY DEF SafeInv, TypeOK, CopiesGood, Good, PlugIn
<1>3. /\ policy' \in [Keys -> Saved] /\ psnap' \in [Procs -> [Keys -> Saved]]
      /\ EnforcedPolicy(policy', demoted')
      /\ \A q \in Procs : EnforcedPolicy(psnap'[q], demoted')
  BY NoPolicyType DEF SafeInv, TypeOK, DecisionsEnforced, CopiesGood, EnforcedPolicy,
     PlugIn
<1>4. TypeOK'
  <2>1. (/\ phase \in [Ifaces -> Phases]
        /\ conn \in [Ifaces -> Conns \cup {NoConn}])'
    BY DEF SafeInv, TypeOK, Phases, PlugIn
  <2>2. (/\ demoted \subseteq Conns
        /\ unguarded \subseteq Conns
        /\ answered \subseteq Plans
        /\ clobbered \in BOOLEAN)'
    BY DEF SafeInv, TypeOK, StepOfOp, SelectHolds, PlugIn
  <2>3. (/\ pc \in [Procs -> PcValues]
        /\ op \in [Procs -> OpNames \cup {"none"}])'
    BY DEF SafeInv, TypeOK, PcValues, OpNames, PlugIn
  <2>4. (/\ arg \in [Procs -> Requests]
        /\ seen \in [Procs -> SUBSET Plans]
        /\ todo \in [Procs -> SUBSET Plans])'
    BY NoArgType, CapPositive DEF SafeInv, TypeOK, PlugIn
  <2>5. (crashes \in 0..MaxCrashes)'
    BY DEF SafeInv, TypeOK, PlugIn
  <2> QED
    BY <1>1, <1>2, <1>3, <2>1, <2>2, <2>3, <2>4, <2>5 DEF TypeOK
<1>5. StepOfOp'
  BY DEF SafeInv, TypeOK, StepOfOp, PlugIn
<1>6. NamedWhenUp'
  BY DEF SafeInv, TypeOK, NamedWhenUp, PlugIn
<1>7. GuardHolds'
  BY DEF SafeInv, TypeOK, StepOfOp, NamedWhenUp, GuardHolds, PlugIn
<1>8. SelectHolds'
  BY DEF SafeInv, TypeOK, StepOfOp, SelectHolds, PlugIn
<1>9. NoSilentTakeover'
  BY DEF SafeInv, TypeOK, GuardHolds, NoSilentTakeover, PlugIn
<1>10. DecisionsEnforced' /\ NoDuplicatePending' /\ CopiesGood'
  BY <1>1, <1>2, <1>3 DEF DecisionsEnforced, NoDuplicatePending, CopiesGood, Good
<1>11. Current'
  BY DEF SafeInv, TypeOK, StepOfOp, Current, Overlapping, HoldsEvents, HoldsPolicy,
     PlugIn
<1> QED
  BY <1>4, <1>5, <1>6, <1>7, <1>8, <1>9, <1>10, <1>11 DEF SafeInv

\* A connection is about to come up.
LEMMA ActivateStep ==
    ASSUME SafeInv, NEW i \in Ifaces, Activate(i),
           clobbered' = (clobbered \/ Overlapping')
    PROVE  SafeInv'
<1> USE DEF files, net, locals, hist, At, Goto, Busy
<1>1. /\ events' \in Seq(Event) /\ Len(events') <= Cap
      /\ Enforced(events', demoted') /\ Distinct(events')
  BY DEF SafeInv, TypeOK, DecisionsEnforced, NoDuplicatePending, Enforced, Activate
<1>2. /\ snap' \in [Procs -> Seq(Event)]
      /\ \A q \in Procs : Enforced(snap'[q], demoted') /\ Distinct(snap'[q])
  BY DEF SafeInv, TypeOK, CopiesGood, Good, Activate
<1>3. /\ policy' \in [Keys -> Saved] /\ psnap' \in [Procs -> [Keys -> Saved]]
      /\ EnforcedPolicy(policy', demoted')
      /\ \A q \in Procs : EnforcedPolicy(psnap'[q], demoted')
  BY NoPolicyType DEF SafeInv, TypeOK, DecisionsEnforced, CopiesGood, EnforcedPolicy,
     Activate
<1>4. TypeOK'
  <2>1. (/\ phase \in [Ifaces -> Phases]
        /\ conn \in [Ifaces -> Conns \cup {NoConn}])'
    BY DEF SafeInv, TypeOK, Phases, Activate
  <2>2. (/\ demoted \subseteq Conns
        /\ unguarded \subseteq Conns
        /\ answered \subseteq Plans
        /\ clobbered \in BOOLEAN)'
    BY DEF SafeInv, TypeOK, StepOfOp, SelectHolds, Activate
  <2>3. (/\ pc \in [Procs -> PcValues]
        /\ op \in [Procs -> OpNames \cup {"none"}])'
    BY DEF SafeInv, TypeOK, PcValues, OpNames, Activate
  <2>4. (/\ arg \in [Procs -> Requests]
        /\ seen \in [Procs -> SUBSET Plans]
        /\ todo \in [Procs -> SUBSET Plans])'
    BY NoArgType, CapPositive DEF SafeInv, TypeOK, Activate
  <2>5. (crashes \in 0..MaxCrashes)'
    BY DEF SafeInv, TypeOK, Activate
  <2> QED
    BY <1>1, <1>2, <1>3, <2>1, <2>2, <2>3, <2>4, <2>5 DEF TypeOK
<1>5. StepOfOp'
  BY DEF SafeInv, TypeOK, StepOfOp, Activate
<1>6. NamedWhenUp'
  BY DEF SafeInv, TypeOK, NamedWhenUp, Activate
<1>7. GuardHolds'
  BY DEF SafeInv, TypeOK, StepOfOp, NamedWhenUp, GuardHolds, Activate
<1>8. SelectHolds'
  BY DEF SafeInv, TypeOK, StepOfOp, SelectHolds, Activate
<1>9. NoSilentTakeover'
  BY DEF SafeInv, TypeOK, GuardHolds, NoSilentTakeover, Activate
<1>10. DecisionsEnforced' /\ NoDuplicatePending' /\ CopiesGood'
  BY <1>1, <1>2, <1>3 DEF DecisionsEnforced, NoDuplicatePending, CopiesGood, Good
<1>11. Current'
  BY DEF SafeInv, TypeOK, StepOfOp, Current, Overlapping, HoldsEvents, HoldsPolicy,
     Activate
<1> QED
  BY <1>4, <1>5, <1>6, <1>7, <1>8, <1>9, <1>10, <1>11 DEF SafeInv

\* A connection goes down.
LEMMA DeactivateStep ==
    ASSUME SafeInv, NEW i \in Ifaces, Deactivate(i),
           clobbered' = (clobbered \/ Overlapping')
    PROVE  SafeInv'
<1> USE DEF files, net, locals, hist, At, Goto, Busy
<1>1. /\ events' \in Seq(Event) /\ Len(events') <= Cap
      /\ Enforced(events', demoted') /\ Distinct(events')
  BY DEF SafeInv, TypeOK, DecisionsEnforced, NoDuplicatePending, Enforced, Deactivate
<1>2. /\ snap' \in [Procs -> Seq(Event)]
      /\ \A q \in Procs : Enforced(snap'[q], demoted') /\ Distinct(snap'[q])
  BY DEF SafeInv, TypeOK, CopiesGood, Good, Deactivate
<1>3. /\ policy' \in [Keys -> Saved] /\ psnap' \in [Procs -> [Keys -> Saved]]
      /\ EnforcedPolicy(policy', demoted')
      /\ \A q \in Procs : EnforcedPolicy(psnap'[q], demoted')
  BY NoPolicyType DEF SafeInv, TypeOK, DecisionsEnforced, CopiesGood, EnforcedPolicy,
     Deactivate
<1>4. TypeOK'
  <2>1. (/\ phase \in [Ifaces -> Phases]
        /\ conn \in [Ifaces -> Conns \cup {NoConn}])'
    BY DEF SafeInv, TypeOK, Phases, Deactivate
  <2>2. (/\ demoted \subseteq Conns
        /\ unguarded \subseteq Conns
        /\ answered \subseteq Plans
        /\ clobbered \in BOOLEAN)'
    BY DEF SafeInv, TypeOK, StepOfOp, SelectHolds, Deactivate
  <2>3. (/\ pc \in [Procs -> PcValues]
        /\ op \in [Procs -> OpNames \cup {"none"}])'
    BY DEF SafeInv, TypeOK, PcValues, OpNames, Deactivate
  <2>4. (/\ arg \in [Procs -> Requests]
        /\ seen \in [Procs -> SUBSET Plans]
        /\ todo \in [Procs -> SUBSET Plans])'
    BY NoArgType, CapPositive DEF SafeInv, TypeOK, Deactivate
  <2>5. (crashes \in 0..MaxCrashes)'
    BY DEF SafeInv, TypeOK, Deactivate
  <2> QED
    BY <1>1, <1>2, <1>3, <2>1, <2>2, <2>3, <2>4, <2>5 DEF TypeOK
<1>5. StepOfOp'
  BY DEF SafeInv, TypeOK, StepOfOp, Deactivate
<1>6. NamedWhenUp'
  BY DEF SafeInv, TypeOK, NamedWhenUp, Deactivate
<1>7. GuardHolds'
  BY DEF SafeInv, TypeOK, StepOfOp, NamedWhenUp, GuardHolds, Deactivate
<1>8. SelectHolds'
  BY DEF SafeInv, TypeOK, StepOfOp, SelectHolds, Deactivate
<1>9. NoSilentTakeover'
  BY DEF SafeInv, TypeOK, GuardHolds, NoSilentTakeover, Deactivate
<1>10. DecisionsEnforced' /\ NoDuplicatePending' /\ CopiesGood'
  BY <1>1, <1>2, <1>3 DEF DecisionsEnforced, NoDuplicatePending, CopiesGood, Good
<1>11. Current'
  BY DEF SafeInv, TypeOK, StepOfOp, Current, Overlapping, HoldsEvents, HoldsPolicy,
     Deactivate
<1> QED
  BY <1>4, <1>5, <1>6, <1>7, <1>8, <1>9, <1>10, <1>11 DEF SafeInv

\* A phone is unplugged.
LEMMA UnplugStep ==
    ASSUME SafeInv, NEW i \in Ifaces, Unplug(i),
           clobbered' = (clobbered \/ Overlapping')
    PROVE  SafeInv'
<1> USE DEF files, net, locals, hist, At, Goto, Busy
<1>1. /\ events' \in Seq(Event) /\ Len(events') <= Cap
      /\ Enforced(events', demoted') /\ Distinct(events')
  BY DEF SafeInv, TypeOK, DecisionsEnforced, NoDuplicatePending, Enforced, Unplug
<1>2. /\ snap' \in [Procs -> Seq(Event)]
      /\ \A q \in Procs : Enforced(snap'[q], demoted') /\ Distinct(snap'[q])
  BY DEF SafeInv, TypeOK, CopiesGood, Good, Unplug
<1>3. /\ policy' \in [Keys -> Saved] /\ psnap' \in [Procs -> [Keys -> Saved]]
      /\ EnforcedPolicy(policy', demoted')
      /\ \A q \in Procs : EnforcedPolicy(psnap'[q], demoted')
  BY NoPolicyType DEF SafeInv, TypeOK, DecisionsEnforced, CopiesGood, EnforcedPolicy,
     Unplug
<1>4. TypeOK'
  <2>1. (/\ phase \in [Ifaces -> Phases]
        /\ conn \in [Ifaces -> Conns \cup {NoConn}])'
    BY DEF SafeInv, TypeOK, Phases, Unplug
  <2>2. (/\ demoted \subseteq Conns
        /\ unguarded \subseteq Conns
        /\ answered \subseteq Plans
        /\ clobbered \in BOOLEAN)'
    BY DEF SafeInv, TypeOK, StepOfOp, SelectHolds, Unplug
  <2>3. (/\ pc \in [Procs -> PcValues]
        /\ op \in [Procs -> OpNames \cup {"none"}])'
    BY DEF SafeInv, TypeOK, PcValues, OpNames, Unplug
  <2>4. (/\ arg \in [Procs -> Requests]
        /\ seen \in [Procs -> SUBSET Plans]
        /\ todo \in [Procs -> SUBSET Plans])'
    BY NoArgType, CapPositive DEF SafeInv, TypeOK, Unplug
  <2>5. (crashes \in 0..MaxCrashes)'
    BY DEF SafeInv, TypeOK, Unplug
  <2> QED
    BY <1>1, <1>2, <1>3, <2>1, <2>2, <2>3, <2>4, <2>5 DEF TypeOK
<1>5. StepOfOp'
  BY DEF SafeInv, TypeOK, StepOfOp, Unplug
<1>6. NamedWhenUp'
  BY DEF SafeInv, TypeOK, NamedWhenUp, Unplug
<1>7. GuardHolds'
  BY DEF SafeInv, TypeOK, StepOfOp, NamedWhenUp, GuardHolds, Unplug
<1>8. SelectHolds'
  BY DEF SafeInv, TypeOK, StepOfOp, SelectHolds, Unplug
<1>9. NoSilentTakeover'
  BY DEF SafeInv, TypeOK, GuardHolds, NoSilentTakeover, Unplug
<1>10. DecisionsEnforced' /\ NoDuplicatePending' /\ CopiesGood'
  BY <1>1, <1>2, <1>3 DEF DecisionsEnforced, NoDuplicatePending, CopiesGood, Good
<1>11. Current'
  BY DEF SafeInv, TypeOK, StepOfOp, Current, Overlapping, HoldsEvents, HoldsPolicy,
     Unplug
<1> QED
  BY <1>4, <1>5, <1>6, <1>7, <1>8, <1>9, <1>10, <1>11 DEF SafeInv

\* The invariant holds initially.
LEMMA SafeInit ==
    ASSUME Init
    PROVE  SafeInv
<1>1. TypeOK
  <2>1. events \in Seq(Event) /\ Len(events) <= Cap /\ snap \in [Procs -> Seq(Event)]
    BY CapPositive DEF Init
  <2>2. policy \in [Keys -> Saved] /\ psnap \in [Procs -> [Keys -> Saved]]
    BY NoPolicyType DEF Init
  <2>3. /\ phase \in [Ifaces -> Phases] /\ conn \in [Ifaces -> Conns \cup {NoConn}]
        /\ pc \in [Procs -> PcValues] /\ op \in [Procs -> OpNames \cup {"none"}]
    BY DEF Init, Phases, PcValues, OpNames
  <2>4. arg \in [Procs -> Requests]
    BY NoArgType DEF Init
  <2>5. /\ demoted \subseteq Conns /\ unguarded \subseteq Conns /\ answered \subseteq Plans
        /\ seen \in [Procs -> SUBSET Plans] /\ todo \in [Procs -> SUBSET Plans]
        /\ clobbered \in BOOLEAN
    BY DEF Init
  <2>6. crashes \in 0..MaxCrashes
    BY PhoneAssumption DEF Init
  <2> QED
    BY <2>1, <2>2, <2>3, <2>4, <2>5, <2>6 DEF TypeOK
<1>2. StepOfOp /\ NamedWhenUp /\ GuardHolds /\ SelectHolds /\ NoSilentTakeover
  BY DEF Init, StepOfOp, NamedWhenUp, GuardHolds, SelectHolds, NoSilentTakeover
<1>3. DecisionsEnforced /\ NoDuplicatePending /\ CopiesGood
  BY GoodEmpty, NoPolicyType DEF Init, DecisionsEnforced, NoDuplicatePending, CopiesGood, Good
<1>4. Current
  BY DEF Init, Current, Overlapping, HoldsEvents, HoldsPolicy, At
<1> QED
  BY <1>1, <1>2, <1>3, <1>4 DEF SafeInv

\* Every step keeps it.
LEMMA SafeStep ==
    ASSUME SafeInv, [Next]_vars
    PROVE  SafeInv'
<1>1. CASE UNCHANGED vars
  <2> USE <1>1 DEF vars, files, net, locals, hist, SafeInv
  <2>1. TypeOK'
    BY DEF TypeOK
  <2>2. (StepOfOp /\ NamedWhenUp)'
    BY DEF StepOfOp, NamedWhenUp
  <2>3. (GuardHolds /\ NoSilentTakeover)'
    BY DEF GuardHolds, NoSilentTakeover
  <2>4. SelectHolds'
    BY DEF SelectHolds, At
  <2>5. (DecisionsEnforced /\ NoDuplicatePending /\ CopiesGood)'
    BY DEF DecisionsEnforced, NoDuplicatePending, CopiesGood, Good, Enforced, EnforcedPolicy,
       Distinct
  <2>6. Current'
    BY DEF Current, Overlapping, HoldsEvents, HoldsPolicy, At
  <2> QED
    BY <2>1, <2>2, <2>3, <2>4, <2>5, <2>6
<1>2. ASSUME NEW p \in Procs,
             Step(BeginScan(p) \/ BeginGuard(p) \/ BeginSelect(p) \/ Continue(p) \/ Crash(p))
      PROVE  SafeInv'
  <2>1. clobbered' = (clobbered \/ Overlapping')
    BY <1>2 DEF Step
  <2>2. CASE BeginScan(p)
    BY <2>1, <2>2, BeginScanStep
  <2>3. CASE BeginGuard(p)
    BY <2>1, <2>3, BeginGuardStep
  <2>4. CASE BeginSelect(p)
    BY <2>1, <2>4, BeginSelectStep
  <2>5. CASE Continue(p)
    BY <2>1, <2>5, ScanMarkStep, ScanMarkWriteStep, ScanNextStep, ScanDoneStep,
       RecordReadStep, RecordWriteStep, GuardApplyStep, SelectApplyStep,
       SavePolicyReadStep, SavePolicyWriteStep, SelectWriteStep DEF Continue
  <2>6. CASE Crash(p)
    BY <2>1, <2>6, CrashStep
  <2> QED
    BY <1>2, <2>2, <2>3, <2>4, <2>5, <2>6 DEF Step
<1>3. ASSUME NEW i \in Ifaces,
             Step(PlugIn(i) \/ Activate(i) \/ Deactivate(i) \/ Unplug(i))
      PROVE  SafeInv'
  BY <1>3, PlugInStep, ActivateStep, DeactivateStep, UnplugStep DEF Step
<1> QED
  BY <1>1, <1>2, <1>3 DEF Next

\* Whatever commands overlap, fail or are cut short, the invariant holds.
THEOREM SafeInvariance == Spec => []SafeInv
<1>1. Init => SafeInv
  BY SafeInit
<1>2. SafeInv /\ [Next]_vars => SafeInv'
  BY SafeStep
<1> QED
  BY <1>1, <1>2, PTL DEF Spec

\* The files, the profiles and what every process holds keep their types, and
\* the store of events never outgrows its cap (write_network_event_store).
THEOREM TypeCorrect == Spec => []TypeOK
<1>1. SafeInv => TypeOK
  BY DEF SafeInv
<1> QED
  BY <1>1, SafeInvariance, PTL

\* No phone connection comes up with a profile that may take the default route
\* unless its demotion failed (phone_tether_guard_apply), for any number of
\* interfaces, connections and concurrent commands.
THEOREM NoTakeover == Spec => []NoSilentTakeover
<1>1. SafeInv => NoSilentTakeover
  BY DEF SafeInv
<1> QED
  BY <1>1, SafeInvariance, PTL

\* What the store and the saved policies say was decided took effect before it
\* was stored (upstream_select), also when commands overwrite each other.
THEOREM DecisionsTakeEffect == Spec => []DecisionsEnforced
<1>1. SafeInv => DecisionsEnforced
  BY DEF SafeInv
<1> QED
  BY <1>1, SafeInvariance, PTL

\* The user is never asked twice about one device (record_phone_tether_event),
\* also when scans, the dispatcher and decisions overwrite each other's store.
THEOREM AskedOnce == Spec => []NoDuplicatePending
<1>1. SafeInv => NoDuplicatePending
  BY DEF SafeInv
<1> QED
  BY <1>1, SafeInvariance, PTL

----------------------------------------------------------------------------
(* What a step may do to the store *)

\* What a command writes while no two held one file is made from the store as
\* it is: nothing that another one stored is lost.
LEMMA StoreStep ==
    ASSUME SafeInv, Next, ~clobbered
    PROVE  \/ events' = events
           \/ \E p \in Procs :
                 \/ At(p, "sc_mark_w") /\ events' = Capped(Marked(events, seen[p]))
                 \/ At(p, "rec_write") /\ events' = Capped(Recorded(events, arg[p].plan))
                 \/ /\ At(p, "se_write")
                    /\ events' = Capped(Resolved(events, arg[p].k, arg[p].decision))
                    /\ arg[p].k \in DOMAIN events /\ arg[p].decision \in Choices
                    /\ events[arg[p].k].iface = arg[p].plan.iface
                    /\ events[arg[p].k].conn = arg[p].plan.conn
<1>1. CASE \E i \in Ifaces : PlugIn(i) \/ Activate(i) \/ Deactivate(i) \/ Unplug(i)
  BY <1>1 DEF PlugIn, Activate, Deactivate, Unplug, files
<1>2. CASE \E p \in Procs : BeginScan(p) \/ BeginGuard(p) \/ BeginSelect(p) \/ Crash(p)
  <2> PICK p \in Procs : BeginScan(p) \/ BeginGuard(p) \/ BeginSelect(p) \/ Crash(p)
    BY <1>2
  <2> QED
    BY DEF BeginScan, BeginGuard, BeginSelect, Crash, files
<1>3. CASE \E p \in Procs : Continue(p)
  <2> PICK p \in Procs : Continue(p)
    BY <1>3
  <2>1. CASE ScanMark(p) \/ ScanNext(p) \/ ScanDone(p) \/ RecordRead(p) \/ GuardApply(p)
             \/ SelectApply(p) \/ SavePolicyRead(p) \/ SavePolicyWrite(p)
    BY <2>1 DEF ScanMark, ScanNext, ScanDone, RecordRead, GuardApply, SelectApply,
       SavePolicyRead, SavePolicyWrite, files
  <2>2. CASE ScanMarkWrite(p)
    BY <2>2 DEF ScanMarkWrite, SafeInv, Current
  <2>3. CASE RecordWrite(p)
    BY <2>3 DEF RecordWrite, SafeInv, Current
  <2>4. CASE SelectWrite(p)
    <3>1. At(p, "se_write") /\ op[p] = "select"
      BY <2>4 DEF SelectWrite, SafeInv, StepOfOp, At
    <3>2. snap[p] = events
      BY <3>1 DEF SafeInv, Current
    <3>3. /\ arg[p].k \in DOMAIN events /\ arg[p].decision \in Choices
          /\ events[arg[p].k].iface = arg[p].plan.iface
          /\ events[arg[p].k].conn = arg[p].plan.conn
      BY <3>1, <3>2 DEF SafeInv, SelectHolds
    <3>4. events' = Capped(Resolved(events, arg[p].k, arg[p].decision))
      BY <2>4, <3>2 DEF SelectWrite
    <3> QED
      BY <3>1, <3>3, <3>4
  <2> QED
    BY <2>1, <2>2, <2>3, <2>4 DEF Continue
<1> QED
  BY <1>1, <1>2, <1>3 DEF Next, Step

\* A store that grows by at most one event outgrows its cap by one.
LEMMA OneOver ==
    ASSUME NEW a \in Nat, NEW b \in {a, a + 1}, NEW c \in Nat, a <= c, b > c
    PROVE  b - c = 1 /\ a = c
OBVIOUS

\* A store that keeps its resolved events in their places, and gains at most one
\* event, loses at most the oldest one when it is cut.
LEMMA KeptWhenCut ==
    ASSUME NEW s \in Seq(Event), Len(s) <= Cap,
           NEW t \in Seq(Event), Len(t) \in {Len(s), Len(s) + 1},
           \A k \in DOMAIN s : s[k].status = "resolved" =>
              t[k].status = "resolved" /\ t[k].conn = s[k].conn
    PROVE  \E dropped \in IF Len(s) = Cap THEN 0..1 ELSE {0} :
              \A k \in DOMAIN s :
                 s[k].status = "resolved" /\ k > dropped =>
                    /\ k - dropped \in DOMAIN Capped(t)
                    /\ Capped(t)[k - dropped].status = "resolved"
                    /\ Capped(t)[k - dropped].conn = s[k].conn
<1> DEFINE d == Dropped(t)
<1>1. Len(s) \in Nat /\ DOMAIN s = 1 .. Len(s)
  BY LenProperties
<1>2. /\ d \in Nat /\ DOMAIN Capped(t) = 1 .. Len(t) - d
      /\ \A k \in DOMAIN Capped(t) : k + d \in DOMAIN t /\ Capped(t)[k] = t[k + d]
  BY CappedKeeps
<1>3. d \in IF Len(s) = Cap THEN 0..1 ELSE {0}
  <2>1. CASE Len(t) > Cap
    <3>1. Len(t) - Cap = 1 /\ Len(s) = Cap
      BY <1>1, <2>1, CapPositive, OneOver, ZenonT(40)
    <3>2. d = Len(t) - Cap
      BY <2>1 DEF Dropped
    <3>3. d = 1
      BY <3>1, <3>2
    <3> QED
      BY <3>1, <3>3
  <2>2. CASE ~(Len(t) > Cap)
    <3>1. d = 0
      BY <2>2 DEF Dropped
    <3> QED
      BY <3>1
  <2> QED
    BY <2>1, <2>2
<1> HIDE DEF d
<1>4. ASSUME NEW k \in DOMAIN s, s[k].status = "resolved", k > d
      PROVE  /\ k - d \in DOMAIN Capped(t)
             /\ Capped(t)[k - d].status = "resolved"
             /\ Capped(t)[k - d].conn = s[k].conn
  <2>1. k - d \in DOMAIN Capped(t) /\ (k - d) + d = k
    BY <1>1, <1>2, <1>4
  <2> QED
    BY <1>2, <1>4, <2>1
<1> QED
  BY <1>3, <1>4

\* A stored decision is never taken back by another command while no two held
\* one file (write_network_event_store, record_phone_tether_event,
\* mark_phone_event_presence, update_event): it keeps its place, but for the
\* oldest event that leaves a full store, and stays resolved.
THEOREM DecisionStays == Spec => DecisionKept
<1> DEFINE Kept == ~clobbered =>
        \E dropped \in IF Len(events) = Cap THEN 0..1 ELSE {0} :
            \A k \in DOMAIN events :
                events[k].status = "resolved" /\ k > dropped =>
                    /\ k - dropped \in DOMAIN events'
                    /\ events'[k - dropped].status = "resolved"
                    /\ events'[k - dropped].conn = events[k].conn
<1>1. ASSUME SafeInv, [Next]_vars
      PROVE  [Kept]_vars
  <2> SUFFICES ASSUME Next, ~clobbered
               PROVE  Kept
    BY <1>1
  <2>1. /\ events \in Seq(Event) /\ Len(events) <= Cap /\ Len(events) \in Nat
        /\ DOMAIN events = 1 .. Len(events)
        /\ \A p \in Procs : arg[p].plan \in Plans
    BY <1>1, LenProperties DEF SafeInv, TypeOK, Requests
  <2>2. CASE events' = events
    <3> 0 \in IF Len(events) = Cap THEN 0..1 ELSE {0}
      OBVIOUS
    <3>1. \A k \in DOMAIN events : k - 0 = k
      BY <2>1
    <3> QED
      BY <2>2, <3>1
  <2>3. ASSUME NEW t \in Seq(Event), events' = Capped(t), Len(t) \in {Len(events), Len(events) + 1},
               \A k \in DOMAIN events : events[k].status = "resolved" =>
                  t[k].status = "resolved" /\ t[k].conn = events[k].conn
        PROVE  Kept
    BY <2>1, <2>3, KeptWhenCut
  <2> HIDE DEF Kept
  <2>4. ASSUME NEW p \in Procs, events' = Capped(Marked(events, seen[p]))
        PROVE  Kept
    <3> DEFINE t == Marked(events, seen[p])
    <3>1. /\ t \in Seq(Event) /\ Len(t) = Len(events)
          /\ \A k \in DOMAIN events : t[k].status = events[k].status /\ t[k].conn = events[k].conn
      BY <2>1, MarkedKeeps
    <3> HIDE DEF t
    <3> QED
      BY <2>3, <2>4, <3>1 DEF t
  <2>5. ASSUME NEW p \in Procs, events' = Capped(Recorded(events, arg[p].plan))
        PROVE  Kept
    <3> DEFINE t == Recorded(events, arg[p].plan)
    <3>1. /\ t \in Seq(Event) /\ Len(t) \in {Len(events), Len(events) + 1}
          /\ \A k \in DOMAIN events : events[k].status = "resolved" =>
                t[k].status = "resolved" /\ t[k].conn = events[k].conn
      <4>1. arg[p].plan \in Plans
        BY <2>1
      <4>2. PICK n \in Nat \ {0} : RecordedAt(events, arg[p].plan, n)
        BY <2>1, <4>1, RecordedPlace
      <4>3. /\ t \in Seq(Event)
            /\ \A k \in DOMAIN t : k # n => k \in DOMAIN events /\ t[k] = events[k]
            /\ \/ n \in DOMAIN events /\ Len(t) = Len(events) /\ events[n].status = "pending"
               \/ n = Len(events) + 1 /\ Len(t) = n
        BY <4>2 DEF RecordedAt
      <4> HIDE DEF t
      <4>4. DOMAIN t = 1 .. Len(t)
        BY <4>3, LenProperties
      <4>5. Len(t) \in {Len(events), Len(events) + 1}
        BY <4>3
      <4>6. ASSUME NEW k \in DOMAIN events, events[k].status = "resolved"
            PROVE  t[k] = events[k]
        <5>1. k # n
          BY <2>1, <4>3, <4>6
        <5>2. Len(events) <= Len(t) /\ Len(t) \in Nat
          BY <2>1, <4>5
        <5>3. k \in DOMAIN t
          BY <2>1, <4>4, <5>2
        <5> QED
          BY <4>3, <5>1, <5>3
      <4> QED
        BY <4>3, <4>5, <4>6
    <3> HIDE DEF t
    <3> QED
      BY <2>3, <2>5, <3>1 DEF t
  <2>6. ASSUME NEW n \in DOMAIN events, NEW decision \in Choices,
               events' = Capped(Resolved(events, n, decision))
        PROVE  Kept
    <3> DEFINE t == Resolved(events, n, decision)
    <3>1. /\ t \in Seq(Event) /\ Len(t) = Len(events)
          /\ \A k \in DOMAIN events : k # n => t[k] = events[k]
          /\ t[n].conn = events[n].conn /\ t[n].status = "resolved"
      BY <2>1, ResolvedKeeps
    <3> HIDE DEF t
    <3> QED
      BY <2>3, <2>6, <3>1 DEF t
  <2> QED
    BY <1>1, <2>2, <2>4, <2>5, <2>6, StoreStep
<1> QED
  BY <1>1, SafeInvariance, PTL DEF Spec, DecisionKept

----------------------------------------------------------------------------
(* The files as an implementation of PromptLedger *)

Question == [iface : Ifaces, conn : Conns \cup {NoConn}, answered : BOOLEAN]

\* What an event shows of itself.
LEMMA ShownFacts ==
    ASSUME NEW e \in Event
    PROVE  /\ Shown(e) \in Question
           /\ Shown(e).iface = e.iface /\ Shown(e).conn = e.conn
           /\ e.status = "pending" => ~Shown(e).answered
           /\ e.status = "resolved" => Shown(e).answered
           /\ e.status \in {"pending", "resolved"}
BY DEF Shown, Question, Event

\* The questions of a store, one to an event.
LEMMA EntriesFacts ==
    ASSUME NEW s \in Seq(Event)
    PROVE  /\ Len(s) \in Nat /\ DOMAIN s = 1 .. Len(s) /\ \A k \in DOMAIN s : s[k] \in Event
           /\ Entries(s) \in Seq(Question)
           /\ Len(Entries(s)) = Len(s) /\ DOMAIN Entries(s) = DOMAIN s
           /\ \A k \in DOMAIN s : Entries(s)[k] = Shown(s[k])
<1>1. Len(s) \in Nat /\ DOMAIN s = 1 .. Len(s) /\ \A k \in DOMAIN s : s[k] \in Event
  BY LenProperties, ElementOfSeq
<1>2. Entries(s) \in [1 .. Len(s) -> Question]
  BY <1>1, ShownFacts DEF Entries
<1>3. Entries(s) \in Seq(Question) /\ Len(Entries(s)) = Len(s)
  BY <1>1, <1>2, SeqDef
<1> QED
  BY <1>1, <1>2, <1>3 DEF Entries

\* Stores of the same devices and statuses show the same questions.
LEMMA SameEntries ==
    ASSUME NEW s \in Seq(Event), NEW t \in Seq(Event), Len(t) = Len(s),
           \A k \in DOMAIN s : /\ t[k].iface = s[k].iface /\ t[k].conn = s[k].conn
                               /\ t[k].status = s[k].status
    PROVE  Entries(t) = Entries(s)
<1>1. DOMAIN t = DOMAIN s
  BY EntriesFacts
<1> QED
  BY <1>1 DEF Entries, Shown

\* A store that was not too long stays as it is when it is cut.
LEMMA ShortUncut ==
    ASSUME NEW s \in Seq(Event), Len(s) <= Cap
    PROVE  Capped(s) = s
<1>1. ~(Len(s) > Cap)
  BY EntriesFacts, CapPositive
<1> QED
  BY <1>1, Zenon DEF Capped

\* One that gained an event loses its oldest.
LEMMA CutEntries ==
    ASSUME NEW s \in Seq(Event), Len(s) <= Cap + 1
    PROVE  Entries(Capped(s)) = Ledger!Newest(Entries(s))
<1>1. Len(s) \in Nat /\ Len(Entries(s)) = Len(s) /\ DOMAIN s = 1 .. Len(s)
  BY EntriesFacts
<1>2. CASE Len(s) <= Cap
  <2>1. ~(Len(Entries(s)) > Cap)
    BY <1>1, <1>2, CapPositive
  <2> QED
    BY <1>2, <2>1, ShortUncut, Zenon DEF Ledger!Newest
<1>3. CASE Len(s) > Cap
  <2> DEFINE C == Capped(s)
             E == Entries(s)
  <2>1. Dropped(s) = 1
    BY <1>1, <1>3, CapPositive DEF Dropped
  <2>2. /\ C \in Seq(Event) /\ Len(C) = Len(s) - 1 /\ DOMAIN C = 1 .. Len(s) - 1
        /\ \A k \in DOMAIN C : k + 1 \in DOMAIN s /\ C[k] = s[k + 1]
    BY <2>1, CappedKeeps
  <2>3. Ledger!Newest(E) = Tail(E)
    BY <1>1, <1>3 DEF Ledger!Newest
  <2>4. /\ E \in Seq(Question) /\ Len(E) = Len(s) /\ E # <<>>
        /\ \A k \in DOMAIN C : E[k + 1] = Shown(C[k])
    BY <1>1, <1>3, <2>2, CapPositive, EntriesFacts
  <2> HIDE DEF C, E
  <2>5. /\ Tail(E) \in Seq(Question) /\ Len(Tail(E)) = Len(s) - 1
        /\ \A k \in 1 .. Len(s) - 1 : Tail(E)[k] = E[k + 1]
    BY <2>4, HeadTailProperties
  <2>6. /\ Entries(C) \in Seq(Question) /\ Len(Entries(C)) = Len(s) - 1
        /\ \A k \in 1 .. Len(s) - 1 : Entries(C)[k] = Shown(C[k])
    BY <2>2, EntriesFacts
  <2>7. Entries(C) = Tail(E)
    BY <2>2, <2>4, <2>5, <2>6
  <2> QED
    BY <2>3, <2>7 DEF C, E
<1> QED
  BY <1>1, <1>2, <1>3, CapPositive

\* Marking asks and answers nothing.
LEMMA MarkedEntries ==
    ASSUME NEW s \in Seq(Event), Len(s) <= Cap, NEW plans
    PROVE  Entries(Capped(Marked(s, plans))) = Entries(s)
<1> DEFINE t == Marked(s, plans)
<1>1. /\ t \in Seq(Event) /\ Len(t) = Len(s)
      /\ \A k \in DOMAIN s : /\ t[k].iface = s[k].iface /\ t[k].conn = s[k].conn
                             /\ t[k].status = s[k].status
  BY MarkedKeeps
<1> HIDE DEF t
<1>2. Capped(t) = t
  BY <1>1, ShortUncut
<1> QED
  BY <1>1, <1>2, SameEntries DEF t

\* Recording names a question or asks one.
LEMMA RecordedEntries ==
    ASSUME TypeOK, ~clobbered, UNCHANGED <<policy, clobbered>>, NEW plan \in Plans,
           events' = Capped(Recorded(events, plan))
    PROVE  [Ledger!Next]_<<Entries(events), {key \in Keys : ~Prompting(key)}, clobbered>>
<1> DEFINE t == Recorded(events, plan)
           L == Entries(events)
<1>0. events \in Seq(Event) /\ Len(events) <= Cap /\ plan \in Ledger!Devices
  BY DEF TypeOK, Plans, Ledger!Devices
<1>1. /\ Len(events) \in Nat /\ DOMAIN events = 1 .. Len(events)
      /\ \A k \in DOMAIN events : events[k] \in Event
      /\ L \in Seq(Question) /\ Len(L) = Len(events) /\ DOMAIN L = DOMAIN events
      /\ \A k \in DOMAIN events : L[k] = Shown(events[k])
  BY <1>0, EntriesFacts
<1>2. UNCHANGED {key \in Keys : ~Prompting(key)}
  BY DEF Prompting
<1>3. PICK n \in Nat \ {0} : RecordedAt(events, plan, n)
  BY <1>0, RecordedPlace
<1>4. /\ t \in Seq(Event) /\ n \in DOMAIN t
      /\ t[n].iface = plan.iface /\ t[n].status = "pending"
      /\ \A k \in DOMAIN t : k # n => k \in DOMAIN events /\ t[k] = events[k]
      /\ \/ /\ n \in DOMAIN events /\ Len(t) = Len(events)
            /\ events[n].status = "pending" /\ Matches(events[n], plan)
            /\ t[n].conn = IF plan.conn = NoConn THEN events[n].conn ELSE plan.conn
         \/ /\ n = Len(events) + 1 /\ Len(t) = n
            /\ PendingFor(events, plan) = {}
            /\ t[n].conn = plan.conn
  BY <1>3 DEF RecordedAt
<1>5. events' = Capped(t)
  OBVIOUS
<1> HIDE DEF t
<1>6. /\ DOMAIN t = 1 .. Len(t) /\ DOMAIN Entries(t) = 1 .. Len(t) /\ Len(Entries(t)) = Len(t)
      /\ Entries(t) \in Seq(Question) /\ t[n] \in Event
      /\ \A k \in DOMAIN t : Entries(t)[k] = Shown(t[k])
  BY <1>4, EntriesFacts
<1>7. L' = Entries(events')
  OBVIOUS
<1> HIDE DEF L
<1>8. CASE /\ n \in DOMAIN events /\ Len(t) = Len(events)
           /\ events[n].status = "pending" /\ Matches(events[n], plan)
           /\ t[n].conn = IF plan.conn = NoConn THEN events[n].conn ELSE plan.conn
  <2>1. L' = Entries(t)
    BY <1>0, <1>4, <1>5, <1>7, <1>8, ShortUncut
  <2>2. \A k \in DOMAIN L : k # n => L'[k] = L[k]
    BY <1>1, <1>4, <1>6, <1>8, <2>1
  <2>3. CASE t[n].conn = events[n].conn
    <3>1. Shown(t[n]) = Shown(events[n])
      BY <1>4, <1>8, <2>3 DEF Matches, Shown
    <3>1a. L'[n] = L[n]
      BY <1>1, <1>4, <1>6, <1>8, <2>1, <3>1
    <3>2. L' = L
      BY <1>1, <1>6, <1>8, <2>1, <2>2, <3>1a
    <3> QED
      BY <1>2, <3>2 DEF L
  <2>4. CASE t[n].conn # events[n].conn
    <3>1. events[n].conn = NoConn /\ t[n].conn = plan.conn /\ plan.conn \in Conns
      BY <1>8, <2>4 DEF Matches, SameConn, Plans
    <3>1a. Shown(t[n]) = [Shown(events[n]) EXCEPT !.conn = plan.conn]
      BY <1>4, <1>8, <3>1 DEF Matches, Shown
    <3>2. L'[n] = [L[n] EXCEPT !.conn = plan.conn]
      BY <1>1, <1>4, <1>6, <1>8, <2>1, <3>1a
    <3>3. L' = [L EXCEPT ![n].conn = plan.conn]
      BY <1>1, <1>6, <1>8, <2>1, <2>2, <3>2
    <3>4. ~L[n].answered /\ L[n].conn = NoConn /\ n \in DOMAIN L
      BY <1>1, <1>8, <3>1, ShownFacts
    <3> QED
      BY <1>2, <3>1, <3>3, <3>4 DEF L, Ledger!Next, Ledger!Name
  <2> QED
    BY <2>3, <2>4
<1>9. CASE /\ n = Len(events) + 1 /\ Len(t) = n
           /\ PendingFor(events, plan) = {} /\ t[n].conn = plan.conn
  <2> DEFINE e == [iface |-> plan.iface, conn |-> plan.conn, answered |-> FALSE]
  <2>1. Entries(t)[n] = e
    BY <1>4, <1>6, <1>9 DEF Shown
  <2>2. \A k \in DOMAIN L : Entries(t)[k] = L[k]
    BY <1>1, <1>4, <1>6, <1>9
  <2> HIDE DEF e
  <2>3. Entries(t) = Append(L, e)
    BY <1>1, <1>6, <1>9, <2>1, <2>2
  <2>4. Entries(Capped(t)) = Ledger!Newest(Entries(t))
    BY <1>0, <1>1, <1>4, <1>9, CapPositive, CutEntries
  <2>5. L' = Ledger!Newest(Append(L, e))
    BY <1>5, <1>7, <2>3, <2>4
  <2>6. ASSUME NEW k \in DOMAIN L, ~L[k].answered, L[k].iface = plan.iface,
               L[k].conn = plan.conn \/ NoConn \in {L[k].conn, plan.conn}
        PROVE  FALSE
    <3>1. events[k] \in Event /\ L[k] = Shown(events[k]) /\ k \in DOMAIN events
      BY <1>1
    <3>2. /\ events[k].status = "pending"
          /\ events[k].iface = plan.iface
          /\ events[k].conn = plan.conn \/ NoConn \in {events[k].conn, plan.conn}
      BY <2>6, <3>1, ShownFacts
    <3> QED
      BY <1>9, <3>1, <3>2 DEF PendingFor, Matches, SameConn
  <2>7. Ledger!Open(plan) = {}
    BY <2>6 DEF L, Ledger!Open
  <2> QED
    BY <1>0, <1>2, <2>5, <2>7 DEF e, L, Ledger!Next, Ledger!Ask
<1> QED
  BY <1>4, <1>8, <1>9

\* A decision answers a question, which may have been answered.
LEMMA ResolvedEntries ==
    ASSUME TypeOK, ~clobbered, UNCHANGED <<policy, clobbered>>,
           NEW n \in DOMAIN events, NEW decision \in Choices,
           events' = Capped(Resolved(events, n, decision))
    PROVE  [Ledger!Next]_<<Entries(events), {key \in Keys : ~Prompting(key)}, clobbered>>
<1> DEFINE t == Resolved(events, n, decision)
           L == Entries(events)
<1>0. events \in Seq(Event) /\ Len(events) <= Cap
  BY DEF TypeOK
<1>1. /\ Len(events) \in Nat /\ DOMAIN events = 1 .. Len(events)
      /\ Len(L) = Len(events) /\ DOMAIN L = DOMAIN events
      /\ L \in Seq(Question) /\ events[n] \in Event
      /\ \A k \in DOMAIN events : L[k] = Shown(events[k])
  BY <1>0, EntriesFacts
<1>2. UNCHANGED {key \in Keys : ~Prompting(key)}
  BY DEF Prompting
<1>3. /\ t \in Seq(Event) /\ Len(t) = Len(events) /\ DOMAIN t = DOMAIN events
      /\ \A k \in DOMAIN events : k # n => t[k] = events[k]
      /\ t[n].iface = events[n].iface /\ t[n].conn = events[n].conn
      /\ t[n].status = "resolved"
  BY <1>0, ResolvedKeeps
<1>4. events' = Capped(t)
  OBVIOUS
<1> HIDE DEF t
<1>5. L' = Entries(t)
  BY <1>0, <1>3, <1>4, ShortUncut
<1>6. /\ Len(L') = Len(L) /\ DOMAIN L' = DOMAIN L
      /\ L' \in Seq(Question)
      /\ \A k \in DOMAIN t : L'[k] = Shown(t[k])
  BY <1>1, <1>3, <1>5, EntriesFacts
<1> HIDE DEF L
<1>7a. \A k \in DOMAIN L : k # n => L'[k] = L[k]
  BY <1>1, <1>3, <1>6
<1>7. Shown(t[n]) = [Shown(events[n]) EXCEPT !.answered = TRUE]
  <2>1. (t[n].status = "resolved") = TRUE
    BY <1>3
  <2>2. Shown(t[n]) = [iface |-> events[n].iface, conn |-> events[n].conn, answered |-> TRUE]
    BY <1>3, <2>1, Zenon DEF Shown
  <2>3. /\ Shown(events[n]) \in Question
        /\ Shown(events[n]).iface = events[n].iface /\ Shown(events[n]).conn = events[n].conn
    BY <1>1, ShownFacts
  <2>4. ASSUME NEW q \in Question, NEW v \in BOOLEAN
        PROVE  [q EXCEPT !.answered = v] = [iface |-> q.iface, conn |-> q.conn, answered |-> v]
    BY DEF Question
  <2> QED
    BY <2>2, <2>3, <2>4, Zenon
<1>8. CASE events[n].status = "resolved"
  <2>0. Shown(t[n]) = Shown(events[n])
    BY <1>3, <1>8 DEF Shown
  <2>1. L'[n] = L[n]
    BY <1>1, <1>3, <1>6, <2>0
  <2>2. L' = L
    BY <1>1, <1>6, <1>7a, <2>1
  <2> QED
    BY <1>2, <2>2 DEF L
<1>9. CASE events[n].status = "pending"
  <2>1. ~L[n].answered /\ n \in DOMAIN L /\ L'[n] = [L[n] EXCEPT !.answered = TRUE]
    BY <1>1, <1>3, <1>6, <1>7, <1>9, ShownFacts
  <2>2. L' = [L EXCEPT ![n].answered = TRUE]
    BY <1>1, <1>6, <1>7a, <2>1
  <2> QED
    BY <1>2, <2>1, <2>2 DEF L, Ledger!Next, Ledger!Answer
<1> QED
  BY <1>1, <1>8, <1>9, ShownFacts

\* A command that ends its hold of a file, or goes on holding the store alone,
\* overlaps no other.
LEMMA NoNewOverlap ==
    ASSUME SafeInv, ~clobbered, NEW p \in Procs, NEW label, label \in PcValues,
           label \notin {"sc_mark_w", "rec_write", "se_apply", "se_pol_read", "se_pol_write"},
           HoldsEvents(p), pc' = [pc EXCEPT ![p] = label]
    PROVE  ~Overlapping'
<1>1. ~Overlapping /\ pc \in [Procs -> PcValues]
  BY DEF SafeInv, Current, TypeOK
<1>2. \A q \in Procs \ {p} : pc'[q] = pc[q] /\ ~HoldsEvents(q)
  BY <1>1 DEF Overlapping
<1>3. \A q \in Procs \ {p} : ~HoldsEvents(q)' /\ ~HoldsPolicy(q)'
  BY <1>2 DEF HoldsEvents, HoldsPolicy
<1>4. ~HoldsPolicy(p)'
  BY <1>1 DEF HoldsPolicy
<1> QED
  BY <1>3, <1>4 DEF Overlapping

\* Every step is one of PromptLedger or shows nothing there.
LEMMA LedgerStep ==
    ASSUME SafeInv, [Next]_vars
    PROVE  [Ledger!Next]_<<Entries(events), {key \in Keys : ~Prompting(key)}, clobbered>>
<1> DEFINE S == {key \in Keys : ~Prompting(key)}
<1>0. TypeOK /\ clobbered \in BOOLEAN
  BY DEF SafeInv, TypeOK
<1>1. CASE UNCHANGED vars
  BY <1>1 DEF vars, files, Prompting
<1>2. CASE Next /\ clobbered
  <2>1. clobbered' = TRUE
    BY <1>2 DEF Next, Step
  <2> QED
    BY <1>2, <2>1 DEF Ledger!Next, Ledger!Lost
<1>3. CASE Next /\ ~clobbered
  <2>1. CASE UNCHANGED files
    <3>1. UNCHANGED <<Entries(events), S>>
      BY <2>1 DEF files, Prompting
    <3>2. clobbered' \in BOOLEAN
      <4>1. clobbered' = (clobbered \/ Overlapping')
        BY <1>3 DEF Next, Step
      <4> QED
        BY <4>1 DEF Overlapping
    <3> HIDE DEF S
    <3>3. CASE clobbered' = TRUE
      BY <1>3, <3>1, <3>3 DEF S, Ledger!Next, Ledger!Tear
    <3>4. CASE clobbered' = FALSE
      <4>1. clobbered' = clobbered
        BY <1>0, <1>3, <3>4
      <4> QED
        BY <3>1, <4>1 DEF S
    <3> QED
      BY <3>2, <3>3, <3>4
  <2>2. ASSUME NEW p \in Procs, Step(ScanMarkWrite(p) \/ RecordWrite(p) \/ SelectWrite(p))
        PROVE  [Ledger!Next]_<<Entries(events), S, clobbered>>
    <3>1. /\ UNCHANGED policy /\ HoldsEvents(p)
          /\ \E label \in {"sc_loop", "gd_apply", "idle"} : pc' = [pc EXCEPT ![p] = label]
      BY <2>2 DEF Step, ScanMarkWrite, RecordWrite, SelectWrite, Goto, Finish, At, HoldsEvents
    <3>2. ~Overlapping'
      BY <1>3, <3>1, NoNewOverlap DEF PcValues
    <3>3. clobbered' = clobbered
      BY <1>3, <2>2, <3>2, <1>0 DEF Step
    <3>4. events \in Seq(Event) /\ Len(events) <= Cap /\ arg[p].plan \in Plans
      BY <1>0 DEF TypeOK, Requests
    <3>5. CASE ScanMarkWrite(p)
      <4>1. events' = Capped(Marked(events, seen[p]))
        BY <1>3, <3>5 DEF ScanMarkWrite, SafeInv, Current
      <4>2. Entries(events') = Entries(events)
        BY <3>4, <4>1, MarkedEntries
      <4> QED
        BY <3>1, <3>3, <4>2 DEF Prompting
    <3>6. CASE RecordWrite(p)
      <4>1. events' = Capped(Recorded(events, arg[p].plan))
        BY <1>3, <3>6 DEF RecordWrite, SafeInv, Current
      <4> QED
        BY <1>0, <1>3, <3>1, <3>3, <3>4, <4>1, RecordedEntries
    <3>7. CASE SelectWrite(p)
      <4>1. At(p, "se_write") /\ op[p] = "select"
        BY <3>7 DEF SelectWrite, SafeInv, StepOfOp, At
      <4>2. snap[p] = events
        BY <1>3, <4>1 DEF SafeInv, Current
      <4>3. arg[p].k \in DOMAIN events /\ arg[p].decision \in Choices
        BY <4>1, <4>2 DEF SafeInv, SelectHolds
      <4>4. events' = Capped(Resolved(events, arg[p].k, arg[p].decision))
        BY <3>7, <4>2 DEF SelectWrite
      <4> QED
        BY <1>0, <1>3, <3>1, <3>3, <4>3, <4>4, ResolvedEntries
    <3> QED
      BY <2>2, <3>5, <3>6, <3>7 DEF Step
  <2>3. ASSUME NEW p \in Procs, Step(SavePolicyWrite(p))
        PROVE  [Ledger!Next]_<<Entries(events), S, clobbered>>
    <3>1. At(p, "se_pol_write") /\ events' = events /\ pc' = [pc EXCEPT ![p] = "se_write"]
      BY <2>3 DEF Step, SavePolicyWrite, Goto
    <3>2. ~Overlapping'
      BY <1>3, <3>1, NoNewOverlap DEF PcValues, HoldsEvents, At
    <3>3. clobbered' = clobbered
      BY <1>0, <1>3, <2>3, <3>2 DEF Step
    <3>4. psnap[p] = policy
      BY <1>3, <3>1 DEF SafeInv, Current, HoldsPolicy, At
    <3>5. PICK saved \in {"use-phone-port", "keep-current"} :
             policy' = [policy EXCEPT ![arg[p].plan] = saved]
      BY <2>3, <3>4 DEF Step, SavePolicyWrite
    <3>6. policy \in [Keys -> Saved] /\ arg[p].plan \in Keys
      BY <1>0 DEF TypeOK, Requests, Keys
    <3>7. S' = S \cup {arg[p].plan}
      BY <3>5, <3>6 DEF Prompting
    <3>8. arg[p].plan \in Ledger!Devices
      BY <3>6 DEF Keys, Plans, Ledger!Devices
    <3>9. Entries(events)' = Entries(events)
      BY <3>1
    <3> HIDE DEF S
    <3> QED
      BY <1>3, <3>3, <3>7, <3>8, <3>9 DEF S, Ledger!Next, Ledger!Save
  <2>4. \/ UNCHANGED files
        \/ \E p \in Procs : Step(ScanMarkWrite(p) \/ RecordWrite(p) \/ SelectWrite(p))
        \/ \E p \in Procs : Step(SavePolicyWrite(p))
    <3>1. CASE \E i \in Ifaces : Step(PlugIn(i) \/ Activate(i) \/ Deactivate(i) \/ Unplug(i))
      BY <3>1 DEF Step, PlugIn, Activate, Deactivate, Unplug
    <3>2. ASSUME NEW p \in Procs,
                 Step(BeginScan(p) \/ BeginGuard(p) \/ BeginSelect(p) \/ Continue(p) \/ Crash(p))
          PROVE  \/ UNCHANGED files
                 \/ Step(ScanMarkWrite(p) \/ RecordWrite(p) \/ SelectWrite(p))
                 \/ Step(SavePolicyWrite(p))
      BY <3>2 DEF Step, Continue, BeginScan, BeginGuard, BeginSelect, Crash, ScanMark, ScanNext,
         ScanDone, RecordRead, GuardApply, SelectApply, SavePolicyRead
    <3> QED
      BY <1>3, <3>1, <3>2 DEF Next
  <2> QED
    BY <2>1, <2>2, <2>3, <2>4
<1> QED
  BY <1>1, <1>2, <1>3

\* The store and the saved policies are a PromptLedger, whatever scans, the
\* dispatcher and decisions do, until two of them have held the same file.
THEOREM LedgerIsKept == Spec => KeepsLedger
<1>1. Init => Ledger!Init
  BY DEF Init, Ledger!Init, Entries, NoPolicy, Prompting
<1>2. SafeInv /\ [Next]_vars
        => [Ledger!Next]_<<Entries(events), {key \in Keys : ~Prompting(key)}, clobbered>>
  BY LedgerStep
<1> QED
  BY <1>1, <1>2, SafeInvariance, PTL DEF Spec, KeepsLedger, Ledger!Spec

----------------------------------------------------------------------------
(* One command at a time *)

\* What is said of the store alone holds when neither it nor the policies change.
LEMMA StoreQuiet ==
    ASSUME Quiet, Serial, UNCHANGED files, answered' \subseteq answered
    PROVE  ResolvedDecided' /\ AnsweredStaysQuiet'
BY DEF Quiet, files, ResolvedDecided, AnsweredStaysQuiet, Prompting, Held, Matches

\* Nothing else is asked of a process that neither scans nor is about to ask.
LEMMA QuietWhenNotAsking ==
    ASSUME Serial, NEW p \in Procs, op'[p] \in {"none", "select"},
           pc'[p] \notin {"rec_read", "rec_write"},
           ~clobbered', AlwaysSaved', ResolvedDecided', AnsweredStaysQuiet'
    PROVE  Quiet'
<1>1. \A q \in Procs : q = p
  BY DEF Serial
<1>2. \A q \in Procs : op'[q] # "scan" /\ op'[q] # "guard"
  BY <1>1
<1>3. ScanSees' /\ CoveredSoFar' /\ PresentIfSeen'
  BY <1>2 DEF ScanSees, CoveredSoFar, PresentIfSeen
<1>4. AskersQuiet'
  BY <1>1, <1>2 DEF AskersQuiet
<1> QED
  BY <1>3, <1>4 DEF Quiet

\* The environment changes neither the files nor what a process is doing, and
\* takes back promises only.
LEMMA QuietEnvironment ==
    ASSUME Quiet, Serial, UNCHANGED <<files, locals>>, answered' \subseteq answered, ~clobbered'
    PROVE  Quiet'
<1> USE DEF files, locals, Quiet
<1>1. ResolvedDecided' /\ AnsweredStaysQuiet'
  BY StoreQuiet
<1>2. ScanSees' /\ AlwaysSaved'
  BY DEF ScanSees, AlwaysSaved, Prompting, At
<1>3. CoveredSoFar' /\ PresentIfSeen'
  BY DEF CoveredSoFar, PresentIfSeen, Prompting
<1>4. AskersQuiet'
  BY DEF AskersQuiet, Prompting, Held
<1> QED
  BY <1>1, <1>2, <1>3, <1>4

\* A scan begins.
LEMMA QuietBeginScan ==
    ASSUME SafeInv, Quiet, Serial, NEW p \in Procs, BeginScan(p), ~clobbered'
    PROVE  Quiet'
<1>1. \A q \in Procs : q = p
  BY DEF Serial
<1>2. /\ op'[p] = "scan" /\ pc'[p] = "sc_mark" /\ UNCHANGED <<files, answered>>
      /\ seen'[p] = Discovered /\ todo'[p] = {plan \in Discovered : Prompting(plan)}
  BY DEF BeginScan, Begin, Goto, hist, SafeInv, TypeOK
<1>3. ResolvedDecided' /\ AnsweredStaysQuiet'
  BY <1>2, StoreQuiet
<1>4. ScanSees'
  BY <1>1, <1>2 DEF ScanSees, Discovered, Prompting, files
<1>5. CoveredSoFar' /\ PresentIfSeen' /\ AlwaysSaved' /\ AskersQuiet'
  BY <1>1, <1>2 DEF CoveredSoFar, PresentIfSeen, AlwaysSaved, AskersQuiet, At
<1> QED
  BY <1>3, <1>4, <1>5 DEF Quiet

\* A scan marks what is present.
LEMMA QuietScanMark ==
    ASSUME SafeInv, Quiet, Serial, NEW p \in Procs, ScanMark(p), ~clobbered'
    PROVE  Quiet'
<1>1. \A q \in Procs : q = p
  BY DEF Serial
<1>2. /\ op'[p] = "scan" /\ op[p] = "scan" /\ pc[p] = "sc_mark"
      /\ UNCHANGED <<files, answered, seen, todo>>
      /\ \/ pc'[p] = "sc_loop" /\ Marked(events, seen[p]) = events
         \/ pc'[p] = "sc_mark_w"
  BY DEF ScanMark, Goto, At, hist, SafeInv, TypeOK, StepOfOp
<1>3. ResolvedDecided' /\ AnsweredStaysQuiet'
  BY <1>2, StoreQuiet
<1>4. ScanSees'
  BY <1>1, <1>2 DEF Quiet, ScanSees, Prompting, files
<1>5. CoveredSoFar'
  BY <1>1, <1>2 DEF Quiet, ScanSees, CoveredSoFar, Prompting, files
<1>6. PresentIfSeen'
  <2> SUFFICES ASSUME pc'[p] = "sc_loop", NEW k \in DOMAIN events, NEW plan \in seen[p],
                      Matches(events[k], plan)
               PROVE  events[k].present
    BY <1>1, <1>2 DEF PresentIfSeen, files
  <2>1. Marked(events, seen[p])[k].present = \E other \in seen[p] : Matches(events[k], other)
    <3>1. events \in Seq(Event)
      BY DEF SafeInv, TypeOK
    <3> QED
      BY <3>1, MarkedKeeps, ZenonT(40)
  <2>2. Marked(events, seen[p])[k].present
    BY <2>1, Zenon
  <2> QED
    BY <1>2, <2>2
<1>7. AlwaysSaved' /\ AskersQuiet'
  BY <1>1, <1>2 DEF AlwaysSaved, AskersQuiet, At
<1> QED
  BY <1>3, <1>4, <1>5, <1>6, <1>7 DEF Quiet

\* A store that is not over its cap is written as it is.
LEMMA NotCut ==
    ASSUME NEW s \in Seq(Event), Len(s) <= Cap
    PROVE  Capped(s) = s
<1>1. Len(s) \in Nat
  BY LenProperties
<1>2. ~(Len(s) > Cap)
  BY <1>1, CapPositive
<1> QED
  BY <1>2, Zenon DEF Capped

\* The marked store is written: what the scan saw is present.
LEMMA QuietScanMarkWrite ==
    ASSUME SafeInv, Quiet, Serial, NEW p \in Procs, ScanMarkWrite(p), ~clobbered'
    PROVE  Quiet'
<1> DEFINE m == Marked(events, seen[p])
<1>1. \A q \in Procs : q = p
  BY DEF Serial
<1>2. /\ op'[p] = "scan" /\ op[p] = "scan" /\ pc[p] = "sc_mark_w" /\ pc'[p] = "sc_loop"
      /\ UNCHANGED <<policy, answered, seen, todo>> /\ events' = Capped(snap[p])
  BY DEF ScanMarkWrite, Goto, At, hist, SafeInv, TypeOK, StepOfOp
<1>3. snap[p] = m
  BY <1>2 DEF SafeInv, Quiet, Current, At
<1>4. /\ m \in Seq(Event) /\ Len(m) <= Cap /\ DOMAIN m = DOMAIN events
      /\ \A k \in DOMAIN events :
            /\ m[k].iface = events[k].iface /\ m[k].conn = events[k].conn
            /\ m[k].status = events[k].status /\ m[k].decision = events[k].decision
  <2>1. events \in Seq(Event) /\ Len(events) <= Cap
    BY DEF SafeInv, TypeOK
  <2> QED
    BY <2>1, MarkedKeeps, ZenonT(40)
<1>5. \A k \in DOMAIN events, plan \in seen[p] : Matches(events[k], plan) => m[k].present
  <2> SUFFICES ASSUME NEW k \in DOMAIN events, NEW plan \in seen[p], Matches(events[k], plan)
               PROVE  m[k].present
    OBVIOUS
  <2>1. events \in Seq(Event)
    BY DEF SafeInv, TypeOK
  <2>2. m[k].present = \E other \in seen[p] : Matches(events[k], other)
    BY <2>1, MarkedKeeps, ZenonT(40)
  <2> QED
    BY <2>2, Zenon
<1> HIDE DEF m
<1>6. events' = m
  BY <1>2, <1>3, <1>4, NotCut
<1>7. ResolvedDecided'
  <2> SUFFICES ASSUME NEW k \in DOMAIN events, events[k].status = "resolved"
               PROVE  /\ m[k].decision \in Choices
                      /\ m[k].decision \in Always =>
                            policy[[iface |-> m[k].iface, conn |-> m[k].conn]] # "prompt"
    BY <1>2, <1>4, <1>6 DEF ResolvedDecided, Prompting
  <2>1. /\ events[k].decision \in Choices
        /\ events[k].decision \in Always =>
              policy[[iface |-> events[k].iface, conn |-> events[k].conn]] # "prompt"
    BY DEF Quiet, ResolvedDecided, Prompting
  <2> QED
    BY <1>4, <2>1
<1>8. AnsweredStaysQuiet'
  <2> SUFFICES ASSUME NEW plan \in answered', policy'[plan] = "prompt",
                      NEW h \in DOMAIN events', events'[h].status = "resolved",
                      events'[h].iface = plan.iface, events'[h].conn = plan.conn,
                      NEW k \in DOMAIN events', Matches(events'[k], plan)
               PROVE  events'[k].status # "pending"
    BY DEF AnsweredStaysQuiet, Prompting, Held
  <2>1. plan \in answered /\ policy[plan] = "prompt" /\ k \in DOMAIN events
    BY <1>2, <1>4, <1>6
  <2>2. Held(plan) /\ Matches(events[k], plan)
    BY <1>4, <1>6 DEF Held, Matches
  <2> QED
    BY <1>4, <1>6, <2>1, <2>2 DEF Quiet, AnsweredStaysQuiet, Prompting
<1>9. ScanSees'
  BY <1>1, <1>2 DEF Quiet, ScanSees, Prompting
<1>10. CoveredSoFar'
  BY <1>1, <1>2 DEF Quiet, ScanSees, CoveredSoFar, Prompting
<1>11. PresentIfSeen'
  BY <1>1, <1>2, <1>4, <1>5, <1>6 DEF PresentIfSeen, Matches
<1>12. AlwaysSaved' /\ AskersQuiet'
  BY <1>1, <1>2 DEF AlwaysSaved, AskersQuiet, At
<1> QED
  BY <1>7, <1>8, <1>9, <1>10, <1>11, <1>12 DEF Quiet

\* A scan goes on to a plan that no answer suppresses.
LEMMA QuietScanNext ==
    ASSUME SafeInv, Quiet, Serial, NEW p \in Procs, ScanNext(p), ~clobbered'
    PROVE  Quiet'
<1>1. \A q \in Procs : q = p
  BY DEF Serial
<1>2. PICK plan \in todo[p] :
        IF Suppressed(events, plan)
        THEN /\ todo' = [todo EXCEPT ![p] = @ \ {plan}]
             /\ UNCHANGED <<pc, arg>>
        ELSE /\ Goto(p, "rec_read")
             /\ arg' = [arg EXCEPT ![p] = Request(plan, 0, "none", FALSE)]
             /\ UNCHANGED todo
  BY DEF ScanNext
<1>3. /\ op[p] = "scan" /\ op'[p] = "scan" /\ pc[p] = "sc_loop"
      /\ UNCHANGED <<files, answered, seen>>
  BY DEF ScanNext, At, hist, SafeInv, TypeOK, StepOfOp
<1>4. /\ plan \in seen[p] /\ todo[p] \subseteq seen[p]
      /\ \A x, y \in seen[p] : x.iface = y.iface => x = y
  BY <1>3 DEF Quiet, ScanSees
<1>5. ResolvedDecided' /\ AnsweredStaysQuiet'
  BY <1>3, StoreQuiet
<1>6. PresentIfSeen'
  BY <1>1, <1>3 DEF Quiet, PresentIfSeen, files
<1>7. CASE Suppressed(events, plan)
  <2>1. pc'[p] = "sc_loop" /\ todo'[p] = todo[p] \ {plan}
    BY <1>2, <1>3, <1>7 DEF SafeInv, TypeOK
  <2>2. PICK k \in DOMAIN events :
          /\ Matches(events[k], plan)
          /\ events[k].present
          /\ events[k].decision \in {"ignore-once", "keep-current", "use-phone-once"}
    BY <1>7 DEF Suppressed
  <2>3. Covers(events[k], plan)
    BY <2>2 DEF Covers, Always
  <2>4. CoveredSoFar'
    <3> SUFFICES ASSUME NEW other \in seen[p] \ todo'[p], Prompting(other),
                        Len(events) < Cap \/ Ifaces = {other.iface}
                 PROVE  \E j \in DOMAIN events : Covers(events[j], other)
      BY <1>1, <1>3, Zenon DEF CoveredSoFar, Prompting, files
    <3>1. CASE other = plan
      BY <2>3, <3>1
    <3>2. CASE other \in seen[p] \ todo[p]
      BY <1>3, <3>2 DEF Quiet, CoveredSoFar
    <3> QED
      BY <2>1, <3>1, <3>2
  <2>5. ScanSees'
    BY <1>1, <1>3, <1>4, <2>1 DEF ScanSees
  <2>6. AlwaysSaved' /\ AskersQuiet'
    BY <1>1, <1>3, <2>1 DEF AlwaysSaved, AskersQuiet, At
  <2> QED
    BY <1>5, <1>6, <2>4, <2>5, <2>6 DEF Quiet
<1>8. CASE ~Suppressed(events, plan)
  <2>1. pc'[p] = "rec_read" /\ todo'[p] = todo[p] /\ arg'[p].plan = plan
    BY <1>2, <1>3, <1>8 DEF SafeInv, TypeOK, Goto, Request
  <2>2. CoveredSoFar'
    BY <1>1, <1>3, <2>1 DEF Quiet, CoveredSoFar, Prompting, files
  <2>3. ScanSees'
    BY <1>1, <1>3, <1>4, <2>1 DEF ScanSees
  <2>4. AlwaysSaved'
    BY <1>1, <2>1 DEF AlwaysSaved, At
  <2>5. AskersQuiet'
    <3> SUFFICES ASSUME NEW other \in answered, Prompting(other), Held(other),
                        plan.iface = other.iface, SameConn(plan.conn, other.conn)
                 PROVE  FALSE
      <4>1. op'[p] # "guard" /\ answered' = answered /\ policy' = policy /\ events' = events
        BY <1>3 DEF files
      <4> QED
        BY <1>1, <2>1, <4>1 DEF AskersQuiet, Prompting, Held
    <3>1. PICK k \in DOMAIN events :
            /\ events[k].status = "resolved"
            /\ events[k].iface = other.iface /\ events[k].conn = other.conn
      BY DEF Held
    <3>2. Matches(events[k], plan)
      BY <3>1 DEF Matches, SameConn
    <3>3. events[k].present
      BY <1>3, <1>4, <3>2 DEF Quiet, PresentIfSeen
    <3>4. other = [iface |-> events[k].iface, conn |-> events[k].conn]
      BY <3>1 DEF SafeInv, TypeOK, Plans
    <3>5. events[k].decision \in Choices /\ events[k].decision \notin Always
      BY <3>1, <3>4 DEF Quiet, ResolvedDecided
    <3>6. events[k].decision \in {"ignore-once", "keep-current", "use-phone-once"}
      BY <3>5 DEF Choices, Always, UsePhone
    <3> QED
      BY <1>8, <3>1, <3>2, <3>3, <3>6 DEF Suppressed
  <2> QED
    BY <1>5, <1>6, <2>2, <2>3, <2>4, <2>5 DEF Quiet
<1> QED
  BY <1>7, <1>8

\* A plan is about to be recorded.
LEMMA QuietRecordRead ==
    ASSUME SafeInv, Quiet, Serial, NEW p \in Procs, RecordRead(p), ~clobbered'
    PROVE  Quiet'
<1>1. \A q \in Procs : q = p
  BY DEF Serial
<1>2. /\ pc[p] = "rec_read" /\ pc'[p] = "rec_write"
      /\ UNCHANGED <<files, answered, op, arg, seen, todo>>
  BY DEF RecordRead, Goto, At, hist, SafeInv, TypeOK
<1>3. ResolvedDecided' /\ AnsweredStaysQuiet'
  BY <1>2, StoreQuiet
<1>4. ScanSees' /\ AlwaysSaved'
  BY <1>1, <1>2 DEF Quiet, ScanSees, AlwaysSaved, At
<1>5. CoveredSoFar' /\ PresentIfSeen'
  BY <1>1, <1>2 DEF Quiet, CoveredSoFar, PresentIfSeen, Prompting, files
<1>6. AskersQuiet'
  BY <1>1, <1>2 DEF Quiet, AskersQuiet, Prompting, Held, files
<1> QED
  BY <1>3, <1>4, <1>5, <1>6 DEF Quiet

\* What recording a plan leaves in the store: the plan, pending and present, and
\* of the older events all but the one it took over and the oldest of a full store.
LEMMA RecordedCut ==
    ASSUME NEW s \in Seq(Event), Len(s) <= Cap, NEW plan \in Plans
    PROVE  \E m \in DOMAIN Capped(Recorded(s, plan)), d \in 0..1 :
              /\ Capped(Recorded(s, plan))[m].iface = plan.iface
              /\ Capped(Recorded(s, plan))[m].status = "pending"
              /\ Capped(Recorded(s, plan))[m].present
              /\ SameConn(Capped(Recorded(s, plan))[m].conn, plan.conn)
              /\ plan.conn # NoConn => Capped(Recorded(s, plan))[m].conn = plan.conn
              /\ \A k \in DOMAIN Capped(Recorded(s, plan)) :
                    k # m => k + d \in DOMAIN s /\ Capped(Recorded(s, plan))[k] = s[k + d]
              /\ Len(Capped(Recorded(s, plan))) < Cap =>
                    /\ Len(s) < Cap
                    /\ \A k \in DOMAIN s : s[k].iface # plan.iface =>
                          /\ k \in DOMAIN Capped(Recorded(s, plan))
                          /\ Capped(Recorded(s, plan))[k] = s[k]
<1> DEFINE r == Recorded(s, plan)
           c == Capped(r)
<1>1. Len(s) \in Nat /\ DOMAIN s = 1 .. Len(s)
  BY LenProperties
<1>2. PICK n \in Nat \ {0} : RecordedAt(s, plan, n)
  BY RecordedPlace
<1>3. /\ r \in Seq(Event) /\ n \in DOMAIN r
      /\ r[n].iface = plan.iface /\ r[n].status = "pending" /\ r[n].present
      /\ \A k \in DOMAIN r : k # n => k \in DOMAIN s /\ r[k] = s[k]
  BY <1>2 DEF RecordedAt
<1>4. \/ n \in DOMAIN s /\ Len(r) = Len(s) /\ s[n].iface = plan.iface
      \/ n = Len(s) + 1 /\ Len(r) = n
  BY <1>2 DEF RecordedAt, Matches
<1>5. SameConn(r[n].conn, plan.conn) /\ (plan.conn # NoConn => r[n].conn = plan.conn)
  BY <1>2 DEF RecordedAt, SameConn
<1> HIDE DEF r
<1> DEFINE d == Dropped(r)
<1>6. /\ d \in Nat /\ c \in Seq(Event) /\ Len(c) = Len(r) - d /\ DOMAIN c = 1 .. Len(r) - d
      /\ \A k \in DOMAIN c : k + d \in DOMAIN r /\ c[k] = r[k + d]
  BY <1>3, CappedKeeps
<1>7. Len(r) \in Nat /\ DOMAIN r = 1 .. Len(r)
  BY <1>3, LenProperties
<1>8. d = 0 \/ (d = 1 /\ n = Len(s) + 1 /\ Len(r) = n /\ Len(s) = Cap)
  <2>1. CASE Len(r) > Cap
    <3>1. Len(r) \in {Len(s), Len(s) + 1}
      BY <1>4
    <3>2. Len(r) - Cap = 1 /\ Len(s) = Cap
      BY <1>1, <2>1, <3>1, CapPositive, OneOver, ZenonT(40)
    <3>3. d = 1
      BY <2>1, <3>2 DEF Dropped
    <3>4. n = Len(s) + 1 /\ Len(r) = n
      BY <1>1, <1>4, <3>2
    <3> QED
      BY <3>2, <3>3, <3>4
  <2>2. CASE ~(Len(r) > Cap)
    BY <2>2 DEF Dropped
  <2> QED
    BY <2>1, <2>2
<1> HIDE DEF c, d
<1> DEFINE m == n - d
<1>9. m \in DOMAIN c /\ m + d = n /\ d \in 0..1
  <2>1. n \in Nat /\ n \in 1 .. Len(r) /\ DOMAIN c = 1 .. Len(r) - d
    BY <1>3, <1>6, <1>7
  <2>2. CASE d = 0
    <3>1. m = n
      BY <2>1, <2>2
    <3> QED
      BY <1>7, <2>1, <2>2, <3>1
  <2>3. CASE d = 1 /\ n = Len(s) + 1 /\ Len(r) = n /\ Len(s) = Cap
    <3>1. m = Cap /\ Len(r) - d = Cap /\ m + d = n
      BY <2>3, CapPositive
    <3> QED
      BY <2>1, <2>3, <3>1, CapPositive
  <2> QED
    BY <1>8, <2>2, <2>3
<1>10. c[m] = r[n]
  BY <1>6, <1>9
<1>11. ASSUME NEW k \in DOMAIN c, k # m
       PROVE  k + d \in DOMAIN s /\ c[k] = s[k + d]
  <2>1. k \in Nat /\ k + d # n
    BY <1>3, <1>6, <1>7, <1>9, <1>11
  <2> QED
    BY <1>3, <1>6, <2>1
<1>12. ASSUME Len(c) < Cap
       PROVE  /\ Len(s) < Cap
              /\ \A k \in DOMAIN s : s[k].iface # plan.iface => k \in DOMAIN c /\ c[k] = s[k]
  <2>1. d = 0
    <3> SUFFICES ASSUME d = 1, Len(r) = Cap + 1
                 PROVE  FALSE
      BY <1>8
    <3>1. Len(c) = Cap
      BY <1>6, CapPositive
    <3> QED
      BY <1>12, <3>1, CapPositive
  <2>2. Len(c) = Len(r) /\ DOMAIN c = DOMAIN r /\ \A k \in DOMAIN c : c[k] = r[k]
    BY <1>6, <1>7, <2>1
  <2>3. Len(s) <= Len(r)
    BY <1>1, <1>4
  <2>4. ASSUME NEW k \in DOMAIN s, s[k].iface # plan.iface
        PROVE  k \in DOMAIN c /\ c[k] = s[k]
    <3>1. k \in DOMAIN r
      BY <1>1, <1>7, <2>3
    <3>2. k # n
      BY <1>1, <1>4, <2>4
    <3> QED
      BY <1>3, <2>2, <3>1, <3>2
  <2> QED
    BY <1>1, <1>7, <1>12, <2>2, <2>3, <2>4, CapPositive
<1> HIDE DEF m
<1>13. /\ c[m].iface = plan.iface /\ c[m].status = "pending" /\ c[m].present
       /\ SameConn(c[m].conn, plan.conn) /\ (plan.conn # NoConn => c[m].conn = plan.conn)
  BY <1>3, <1>5, <1>10
<1> QED
  BY <1>9, <1>11, <1>12, <1>13 DEF c, r

\* A plan is recorded: it is covered, and was not answered for.
LEMMA QuietRecordWrite ==
    ASSUME SafeInv, Quiet, Serial, NEW p \in Procs, RecordWrite(p), ~clobbered'
    PROVE  Quiet'
<1> DEFINE pl == arg[p].plan
           c == Capped(Recorded(events, pl))
<1>1. \A q \in Procs : q = p
  BY DEF Serial
<1>2. /\ op'[p] = op[p] /\ op[p] \in {"scan", "guard"} /\ pc[p] = "rec_write"
      /\ pc'[p] = (IF op[p] = "scan" THEN "sc_loop" ELSE "gd_apply")
      /\ UNCHANGED <<policy, answered, seen, op>> /\ events' = Capped(snap[p])
      /\ todo'[p] = todo[p] \ {pl}
      /\ op[p] = "guard" => arg'[p] = arg[p]
  BY DEF RecordWrite, Goto, At, hist, SafeInv, TypeOK, StepOfOp
<1>3. events' = c
  BY <1>2 DEF SafeInv, Quiet, Current, At
<1>4. events \in Seq(Event) /\ Len(events) <= Cap /\ pl \in Plans
  BY DEF SafeInv, TypeOK, Requests
<1>5. PICK m \in DOMAIN c, d \in 0..1 :
        /\ c[m].iface = pl.iface /\ c[m].status = "pending" /\ c[m].present
        /\ SameConn(c[m].conn, pl.conn)
        /\ pl.conn # NoConn => c[m].conn = pl.conn
        /\ \A k \in DOMAIN c : k # m => k + d \in DOMAIN events /\ c[k] = events[k + d]
        /\ Len(c) < Cap =>
              /\ Len(events) < Cap
              /\ \A k \in DOMAIN events : events[k].iface # pl.iface =>
                    k \in DOMAIN c /\ c[k] = events[k]
  BY <1>4, RecordedCut, ZenonT(40)
<1> HIDE DEF c
<1>6. ResolvedDecided'
  <2> SUFFICES ASSUME NEW k \in DOMAIN c, c[k].status = "resolved"
               PROVE  /\ c[k].decision \in Choices
                      /\ c[k].decision \in Always =>
                            policy[[iface |-> c[k].iface, conn |-> c[k].conn]] # "prompt"
    BY <1>2, <1>3 DEF ResolvedDecided, Prompting
  <2>1. k + d \in DOMAIN events /\ c[k] = events[k + d]
    BY <1>5
  <2> QED
    BY <2>1 DEF Quiet, ResolvedDecided, Prompting
<1>7. AnsweredStaysQuiet'
  <2> SUFFICES ASSUME NEW plan \in answered', policy'[plan] = "prompt",
                      NEW h \in DOMAIN events', events'[h].status = "resolved",
                      events'[h].iface = plan.iface, events'[h].conn = plan.conn,
                      NEW k \in DOMAIN events', Matches(events'[k], plan)
               PROVE  events'[k].status # "pending"
    BY DEF AnsweredStaysQuiet, Prompting, Held
  <2>1. plan \in answered /\ policy[plan] = "prompt" /\ k \in DOMAIN c /\ h \in DOMAIN c
    BY <1>2, <1>3
  <2>2. h + d \in DOMAIN events /\ c[h] = events[h + d]
    BY <1>3, <1>5, <2>1
  <2>3. Held(plan)
    BY <1>3, <2>2 DEF Held
  <2>4. ~(pl.iface = plan.iface /\ SameConn(pl.conn, plan.conn))
    BY <1>2, <2>1, <2>3 DEF Quiet, AskersQuiet, Prompting
  <2>5. CASE k = m
    BY <1>3, <1>5, <2>4, <2>5 DEF Matches, SameConn
  <2>6. CASE k # m
    <3>1. k + d \in DOMAIN events /\ c[k] = events[k + d]
      BY <1>5, <2>1, <2>6
    <3> QED
      BY <1>3, <2>1, <2>3, <3>1 DEF Quiet, AnsweredStaysQuiet, Prompting
  <2> QED
    BY <2>5, <2>6
<1>8. ScanSees'
  BY <1>1, <1>2 DEF Quiet, ScanSees
<1>9. PresentIfSeen'
  <2> SUFFICES ASSUME op[p] = "scan", NEW k \in DOMAIN c, NEW plan \in seen[p],
                      Matches(c[k], plan)
               PROVE  c[k].present
    BY <1>1, <1>2, <1>3 DEF PresentIfSeen
  <2>1. CASE k = m
    BY <1>5, <2>1
  <2>2. CASE k # m
    <3>1. k + d \in DOMAIN events /\ c[k] = events[k + d]
      BY <1>5, <2>2
    <3> QED
      BY <1>2, <3>1 DEF Quiet, PresentIfSeen
  <2> QED
    BY <2>1, <2>2
<1>10. CoveredSoFar'
  <2> SUFFICES ASSUME op[p] = "scan", NEW plan \in seen[p], plan \notin todo[p] \/ plan = pl,
                      Prompting(plan), Len(c) < Cap \/ Ifaces = {plan.iface}
               PROVE  \E k \in DOMAIN c : Covers(c[k], plan)
    BY <1>1, <1>2, <1>3 DEF CoveredSoFar, Prompting
  <2>1. CASE plan = pl
    <3>1. Covers(c[m], plan)
      BY <1>5, <2>1 DEF Covers, Matches
    <3> QED
      BY <1>5, <3>1
  <2>2. CASE plan # pl
    <3>1. pl \in seen[p] /\ plan.iface # pl.iface
      BY <1>2, <2>2 DEF Quiet, ScanSees
    <3>2. pl.iface \in Ifaces
      BY <1>4 DEF Plans
    <3>3. Len(c) < Cap
      BY <3>1, <3>2
    <3>4. PICK k \in DOMAIN events : Covers(events[k], plan)
      BY <1>2, <1>5, <2>2, <3>3 DEF Quiet, CoveredSoFar
    <3>5. events[k].iface # pl.iface
      BY <3>1, <3>4 DEF Covers, Matches
    <3> QED
      BY <1>5, <3>3, <3>4, <3>5
  <2> QED
    BY <2>1, <2>2
<1>11. AlwaysSaved' /\ AskersQuiet'
  BY <1>1, <1>2 DEF Quiet, AlwaysSaved, AskersQuiet, At
<1> QED
  BY <1>6, <1>7, <1>8, <1>9, <1>10, <1>11 DEF Quiet

\* The dispatcher asks whatever was answered: it takes the answers back.
LEMMA QuietBeginGuard ==
    ASSUME SafeInv, Quiet, Serial, NEW p \in Procs, BeginGuard(p), ~clobbered'
    PROVE  Quiet'
<1>1. \A q \in Procs : q = p
  BY DEF Serial
<1>2. PICK i \in Ifaces :
        /\ op'[p] = "guard" /\ pc'[p] \in {"rec_read", "gd_apply"}
        /\ arg'[p].plan.iface = i
        /\ answered' = {plan \in answered : plan.iface # i}
        /\ UNCHANGED files
  BY DEF BeginGuard, Begin, Goto, Request, SafeInv, TypeOK
<1>3. ResolvedDecided' /\ AnsweredStaysQuiet'
  BY <1>2, StoreQuiet
<1>4. ScanSees' /\ CoveredSoFar' /\ PresentIfSeen' /\ AlwaysSaved'
  BY <1>1, <1>2 DEF ScanSees, CoveredSoFar, PresentIfSeen, AlwaysSaved, At
<1>5. AskersQuiet'
  BY <1>1, <1>2 DEF AskersQuiet
<1> QED
  BY <1>3, <1>4, <1>5 DEF Quiet

\* The commands that end here, and the decisions but for the two writes.
LEMMA QuietDone ==
    ASSUME SafeInv, Quiet, Serial, NEW p \in Procs, ~clobbered',
           ScanDone(p) \/ GuardApply(p) \/ SelectApply(p) \/ SavePolicyRead(p)
              \/ BeginSelect(p) \/ Crash(p)
    PROVE  Quiet'
<1>1. \A q \in Procs : q = p
  BY DEF Serial
<1>2. UNCHANGED <<files, answered>>
  BY DEF ScanDone, GuardApply, SelectApply, SavePolicyRead, BeginSelect, Crash, files, hist
<1>3. ResolvedDecided' /\ AnsweredStaysQuiet'
  BY <1>2, StoreQuiet
<1>4. CASE ScanDone(p) \/ GuardApply(p) \/ Crash(p)
  <2>1. op'[p] = "none" /\ pc'[p] = "idle"
    BY <1>4 DEF ScanDone, GuardApply, Crash, Finish, SafeInv, TypeOK
  <2>2. AlwaysSaved'
    BY <1>1, <2>1 DEF AlwaysSaved, At
  <2> QED
    BY <1>3, <2>1, <2>2, QuietWhenNotAsking
<1>5. CASE SelectApply(p) \/ SavePolicyRead(p) \/ BeginSelect(p)
  <2>1. /\ op'[p] \in {"none", "select"} /\ pc'[p] \notin {"rec_read", "rec_write"}
        /\ pc'[p] = "se_write" => arg'[p].decision \notin Always
    <3>1. CASE SelectApply(p)
      BY <3>1 DEF SelectApply, AfterApply, Finish, Goto, At, SafeInv, TypeOK, StepOfOp
    <3>2. CASE SavePolicyRead(p)
      BY <3>2 DEF SavePolicyRead, Goto, At, SafeInv, TypeOK, StepOfOp
    <3>3. CASE BeginSelect(p)
      BY <3>3 DEF BeginSelect, AfterApply, Begin, Goto, Request, Always, SafeInv, TypeOK
    <3> QED
      BY <1>5, <3>1, <3>2, <3>3
  <2>2. AlwaysSaved'
    BY <1>1, <2>1 DEF AlwaysSaved, At
  <2> QED
    BY <1>3, <2>1, <2>2, QuietWhenNotAsking
<1> QED
  BY <1>4, <1>5

\* A policy is saved: fewer plans prompt.
LEMMA QuietSavePolicyWrite ==
    ASSUME SafeInv, Quiet, Serial, NEW p \in Procs, SavePolicyWrite(p), ~clobbered'
    PROVE  Quiet'
<1>1. \A q \in Procs : q = p
  BY DEF Serial
<1>2. /\ pc[p] = "se_pol_write" /\ op[p] = "select" /\ op'[p] = "select" /\ pc'[p] = "se_write"
      /\ UNCHANGED <<events, answered, arg>> /\ arg[p].plan \in Keys /\ policy \in [Keys -> Saved]
  BY DEF SavePolicyWrite, Goto, At, hist, SafeInv, TypeOK, Requests, StepOfOp, Keys
<1>3. psnap[p] = policy
  BY <1>2 DEF SafeInv, Quiet, Current, HoldsPolicy
<1>4. /\ policy'[arg[p].plan] # "prompt"
      /\ \A key \in Keys : policy'[key] = "prompt" => policy[key] = "prompt"
  BY <1>2, <1>3 DEF SavePolicyWrite
<1>5. \A k \in DOMAIN events : [iface |-> events[k].iface, conn |-> events[k].conn] \in Keys
  <2>1. \A k \in DOMAIN events : events[k] \in Event
    BY DEF SafeInv, TypeOK
  <2> QED
    BY <2>1 DEF Event, Keys, Plans
<1>6. ResolvedDecided'
  BY <1>2, <1>4, <1>5 DEF Quiet, ResolvedDecided, Prompting
<1>7. AnsweredStaysQuiet'
  <2>1. answered \subseteq Keys
    BY DEF SafeInv, TypeOK, Keys
  <2> QED
    BY <1>2, <1>4, <2>1 DEF Quiet, AnsweredStaysQuiet, Prompting, Held
<1>8. AlwaysSaved'
  BY <1>1, <1>2, <1>4 DEF AlwaysSaved, Prompting
<1> QED
  BY <1>2, <1>6, <1>7, <1>8, QuietWhenNotAsking

\* A decision is stored: no other pending event is of its device.
LEMMA QuietSelectWrite ==
    ASSUME SafeInv, Quiet, Serial, NEW p \in Procs, SelectWrite(p), ~clobbered'
    PROVE  Quiet'
<1> DEFINE n == arg[p].k
           r == Resolved(events, n, arg[p].decision)
<1>1. \A q \in Procs : q = p
  BY DEF Serial
<1>2. /\ pc[p] = "se_write" /\ op[p] = "select" /\ op'[p] = "none" /\ pc'[p] = "idle"
      /\ policy' = policy /\ events' = Capped(Resolved(snap[p], n, arg[p].decision))
      /\ answered' = answered \/ (answered' = answered \cup {arg[p].plan} /\
                                  snap[p][n].status # "resolved")
  BY DEF SelectWrite, Finish, At, SafeInv, TypeOK, StepOfOp
<1>3. snap[p] = events
  BY <1>2 DEF SafeInv, Quiet, Current
<1>4. /\ events \in Seq(Event) /\ Len(events) <= Cap /\ n \in DOMAIN events
      /\ arg[p].decision \in Choices /\ arg[p].plan \in Plans /\ events[n] \in Event
      /\ events[n].iface = arg[p].plan.iface /\ events[n].conn = arg[p].plan.conn
  <2>1. /\ events \in Seq(Event) /\ Len(events) <= Cap /\ arg[p].plan \in Plans
    BY DEF SafeInv, TypeOK, Requests
  <2>2. /\ n \in DOMAIN events /\ arg[p].decision \in Choices
        /\ events[n].iface = arg[p].plan.iface /\ events[n].conn = arg[p].plan.conn
    BY <1>2, <1>3 DEF SafeInv, SelectHolds
  <2> QED
    BY <2>1, <2>2
<1>5. /\ r \in Seq(Event) /\ Len(r) = Len(events) /\ DOMAIN r = DOMAIN events
      /\ \A k \in DOMAIN events : k # n => r[k] = events[k]
      /\ r[n].iface = events[n].iface /\ r[n].conn = events[n].conn
      /\ r[n].status = "resolved" /\ r[n].decision = arg[p].decision
  BY <1>4, ResolvedKeeps
<1> HIDE DEF r
<1>6. events' = r
  BY <1>2, <1>3, <1>4, <1>5, NotCut DEF r
<1>7. ResolvedDecided'
  <2> SUFFICES ASSUME NEW k \in DOMAIN events, r[k].status = "resolved"
               PROVE  /\ r[k].decision \in Choices
                      /\ r[k].decision \in Always =>
                            policy[[iface |-> r[k].iface, conn |-> r[k].conn]] # "prompt"
    BY <1>2, <1>5, <1>6 DEF ResolvedDecided, Prompting
  <2>1. CASE k # n
    BY <1>5, <2>1 DEF Quiet, ResolvedDecided, Prompting
  <2>2. CASE k = n
    <3>1. [iface |-> r[k].iface, conn |-> r[k].conn] = arg[p].plan
      BY <1>4, <1>5, <2>2 DEF Plans
    <3> QED
      BY <1>2, <1>4, <1>5, <2>2, <3>1 DEF Quiet, AlwaysSaved, Prompting, At
  <2> QED
    BY <2>1, <2>2
<1>8. AnsweredStaysQuiet'
  <2> SUFFICES ASSUME NEW plan \in answered', policy'[plan] = "prompt",
                      NEW h \in DOMAIN events', events'[h].status = "resolved",
                      events'[h].iface = plan.iface, events'[h].conn = plan.conn,
                      NEW k \in DOMAIN events', Matches(events'[k], plan),
                      events'[k].status = "pending"
               PROVE  FALSE
    BY DEF AnsweredStaysQuiet, Prompting, Held
  <2>1. /\ k \in DOMAIN events /\ h \in DOMAIN events /\ k # n
        /\ events[k].status = "pending" /\ Matches(events[k], plan) /\ policy[plan] = "prompt"
    BY <1>2, <1>5, <1>6
  <2>2. CASE h = n /\ events[n].status # "resolved"
    <3>1. events[n].iface = plan.iface /\ events[n].conn = plan.conn /\ events[n].status = "pending"
      BY <1>4, <1>5, <1>6, <2>2 DEF Event
    <3>2. SameConn(events[k].conn, events[n].conn) /\ events[k].iface = events[n].iface
      BY <2>1, <3>1 DEF Matches
    <3> QED
      BY <1>4, <2>1, <3>1, <3>2 DEF SafeInv, NoDuplicatePending, Distinct
  <2>3. CASE h # n \/ events[n].status = "resolved"
    <3>1. Held(plan)
      BY <1>5, <1>6, <2>1, <2>3 DEF Held
    <3>2. CASE plan \in answered
      BY <2>1, <3>1, <3>2 DEF Quiet, AnsweredStaysQuiet, Prompting
    <3>3. CASE plan \notin answered
      <4>1. /\ plan = arg[p].plan /\ events[n].status # "resolved"
        BY <1>2, <1>3, <3>3
      <4>2. events[n].status = "pending"
        BY <1>4, <4>1 DEF Event
      <4>3. SameConn(events[k].conn, events[n].conn) /\ events[k].iface = events[n].iface
        BY <1>4, <2>1, <4>1 DEF Matches
      <4> QED
        BY <1>4, <2>1, <4>2, <4>3 DEF SafeInv, NoDuplicatePending, Distinct
    <3> QED
      BY <3>2, <3>3
  <2> QED
    BY <2>2, <2>3
<1>9. AlwaysSaved'
  BY <1>1, <1>2 DEF AlwaysSaved, At
<1> QED
  BY <1>2, <1>7, <1>8, <1>9, QuietWhenNotAsking

\* Every step of the only process, or of the environment, keeps it.
LEMMA QuietStep ==
    ASSUME SafeInv, Quiet, Serial, [Next]_vars
    PROVE  Quiet'
<1>1. CASE UNCHANGED vars
  <2>1. UNCHANGED <<files, locals>> /\ answered' \subseteq answered /\ ~clobbered'
    BY <1>1 DEF vars, hist, Quiet
  <2> QED
    BY <2>1, QuietEnvironment
<1>2. CASE Next
  <2>1. ~clobbered'
    BY <1>2 DEF Next, Step, Overlapping, Serial, Quiet
  <2>2. ASSUME NEW p \in Procs,
               BeginScan(p) \/ BeginGuard(p) \/ BeginSelect(p) \/ Continue(p) \/ Crash(p)
        PROVE  Quiet'
    BY <2>1, <2>2, QuietBeginScan, QuietBeginGuard, QuietScanMark, QuietScanMarkWrite,
       QuietScanNext, QuietRecordRead, QuietRecordWrite, QuietDone, QuietSavePolicyWrite,
       QuietSelectWrite DEF Continue
  <2>3. ASSUME NEW i \in Ifaces, PlugIn(i) \/ Activate(i) \/ Deactivate(i) \/ Unplug(i)
        PROVE  Quiet'
    <3>1. UNCHANGED <<files, locals>> /\ answered' \subseteq answered
      BY <2>3 DEF PlugIn, Activate, Deactivate, Unplug, files, locals, hist
    <3> QED
      BY <2>1, <3>1, QuietEnvironment
  <2> QED
    BY <1>2, <2>2, <2>3 DEF Next, Step
<1> QED
  BY <1>1, <1>2

\* The inductive invariant, with what one command at a time adds.
THEOREM Invariance == Spec => []IInv
<1>1. Init => IInv
  <2> SUFFICES ASSUME Init
               PROVE  IInv
    OBVIOUS
  <2>1. ScanSees /\ CoveredSoFar /\ PresentIfSeen
    BY DEF Init, ScanSees, CoveredSoFar, PresentIfSeen
  <2>2. ResolvedDecided
    BY DEF Init, ResolvedDecided
  <2>3. AlwaysSaved
    BY DEF Init, AlwaysSaved, At
  <2>4. AskersQuiet /\ AnsweredStaysQuiet /\ ~clobbered
    BY DEF Init, AskersQuiet, AnsweredStaysQuiet
  <2> QED
    BY SafeInit, <2>1, <2>2, <2>3, <2>4 DEF IInv, Quiet
<1>2. IInv /\ [Next]_vars => IInv'
  <2> SUFFICES ASSUME IInv, [Next]_vars
               PROVE  SafeInv' /\ (Serial => Quiet')
    BY DEF IInv, Serial
  <2> QED
    BY SafeStep, QuietStep DEF IInv
<1> QED
  BY <1>1, <1>2, PTL DEF Spec

\* A scan ends with every phone it saw and whose policy is "prompt" pending or
\* answered (network_events_json), for any size of the store.
THEOREM ScanLeavesNoneOut == Spec => []ScanCovers
<1>1. IInv => ScanCovers
  <2> SUFFICES ASSUME IInv, Serial, NEW p \in Procs, At(p, "sc_loop"), todo[p] = {},
                      NEW plan \in seen[p], Prompting(plan),
                      Len(events) < Cap \/ Ifaces = {plan.iface}
               PROVE  \E k \in DOMAIN events : Covers(events[k], plan)
    BY DEF ScanCovers
  <2>1. op[p] = "scan" /\ pc[p] = "sc_loop"
    BY DEF IInv, SafeInv, StepOfOp, At
  <2> QED
    BY <2>1 DEF IInv, Quiet, CoveredSoFar
<1> QED
  BY <1>1, Invariance, PTL

\* A phone the user has answered for is not asked about again by scans while its
\* answer is in the store (resolved_phone_event_suppresses_plan).
THEOREM AnsweredIsQuiet == Spec => []AnsweredStaysQuiet
<1>1. IInv => AnsweredStaysQuiet
  BY DEF IInv, Quiet, AnsweredStaysQuiet
<1> QED
  BY <1>1, Invariance, PTL
=============================================================================
