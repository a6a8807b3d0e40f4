-------------------------- MODULE SplitRouteProofs --------------------------
(***************************************************************************)
(* The routes of SplitRoute, for any threads, hosts, addresses, patterns   *)
(* and entry life, and however far the clock goes or is set back.          *)
(***************************************************************************)
EXTENDS SplitRoute, TLAPS

(* The time elapsed is a number. *)
LEMMA SumType == \A m, n \in Nat : m + n \in Nat
  OBVIOUS

USE SplitAssumption

(* What a thread in each of its states is made of. *)
LEMMA Shapes ==
    ASSUME NEW th \in ThreadStates
    PROVE  /\ th.pc \in {"idle", "look", "resolve", "store", "open", "tunnel"}
           /\ th.pc \in {"look", "resolve"} =>
                th.host \in Hosts /\ th.written \in Hosts /\ th.now \in Nat /\ th.started \in Nat
           /\ th.pc = "store" =>
                /\ th.host \in Hosts /\ th.written \in Hosts /\ th.now \in Nat /\ th.started \in Nat
                /\ th.decision \in Decisions
           /\ th.pc = "open" =>
                /\ th.host \in Hosts /\ th.written \in Hosts
                /\ th.started \in Nat /\ th.decision \in Decisions
  BY DEF ThreadStates, Idle

(* choose_route says one of two things. *)
LEMMA RouteType ==
    ASSUME NEW h, NEW found PROVE ChooseRoute(h, found) \in {"direct", "proxy"}
  BY DEF ChooseRoute

(* The initial states satisfy the invariant. *)
LEMMA InitInvariant == Init => IInv
<1> SUFFICES ASSUME Init PROVE IInv
  OBVIOUS
<1>1. TypeOK
  BY DEF Init, TypeOK, ThreadStates
<1>2. ThreadsHold
  BY DEF Init, ThreadsHold, ThreadHolds, Idle
<1> QED
  BY <1>1, <1>2 DEF Init, IInv, EntriesHold, OneEntry, MovesAreDated, Elapsed

(* A step of one thread that leaves the world and the cache alone keeps the
   invariant if what the thread becomes is right. *)
LEMMA ThreadStep ==
    ASSUME IInv, NEW t \in Threads, NEW th \in ThreadStates,
           thread' = [thread EXCEPT ![t] = th], ThreadHolds(th),
           UNCHANGED <<World, cache>>
    PROVE  IInv'
<1>1. TypeOK'
  BY DEF IInv, TypeOK, World
<1>2. EntriesHold' /\ OneEntry' /\ MovesAreDated' /\ LiteralsStay'
  BY DEF IInv, EntriesHold, OneEntry, MovesAreDated, LiteralsStay, World, Elapsed,
     Holds, ChooseRoute, IsDirectIp
<1>3. ThreadsHold'
  <2>1. ASSUME NEW u \in Threads PROVE ThreadHolds(thread[u])'
    <3>1. ThreadHolds(thread[u]) /\ thread'[u] \in {thread[u], th}
      BY DEF IInv, TypeOK, ThreadsHold
    <3> QED
      BY <3>1 DEF ThreadHolds, World, Elapsed, Holds, ChooseRoute, IsDirectIp
  <2> QED
    BY <2>1 DEF ThreadsHold
<1> QED
  BY <1>1, <1>2, <1>3 DEF IInv

(* Time that passes, and a clock set back. *)
LEMMA ClockStep ==
    ASSUME IInv, Tick \/ SetBack PROVE IInv'
<1>1. /\ clock' \in Nat /\ setBack' \in Nat /\ setBack <= setBack' /\ Elapsed <= Elapsed'
      /\ UNCHANGED <<cnNetworks, answer, moved, cache, thread>>
  BY DEF IInv, TypeOK, Tick, SetBack, Elapsed
<1>2. TypeOK'
  BY <1>1 DEF IInv, TypeOK
<1>3. Elapsed \in Nat /\ Elapsed' \in Nat /\ setBack \in Nat
  <2>1. clock \in Nat /\ setBack \in Nat
    BY DEF IInv, TypeOK
  <2>2. clock' \in Nat /\ setBack' \in Nat
    BY <1>1
  <2>3. Elapsed' \in Nat
    BY <2>2, SumType DEF Elapsed
  <2> QED
    BY <2>1, <2>3, SumType DEF Elapsed
<1>4. \A h, d : Holds(h, d) => Holds(h, d)'
  BY <1>1 DEF Holds, ChooseRoute, IsDirectIp
<1>5. EntriesHold' /\ OneEntry' /\ LiteralsStay'
  BY <1>1, <1>3, <1>4 DEF IInv, TypeOK, EntriesHold, OneEntry, LiteralsStay, Entries, Decisions
<1>6. MovesAreDated'
  BY <1>1, <1>3 DEF IInv, TypeOK, MovesAreDated
<1>7. ThreadsHold'
  <2>1. ASSUME NEW u \in Threads PROVE ThreadHolds(thread[u])'
    <3>1. ThreadHolds(thread[u]) /\ thread'[u] = thread[u] /\ thread[u] \in ThreadStates
      BY <1>1 DEF IInv, TypeOK, ThreadsHold
    <3> QED
      BY <1>1, <1>3, <1>4, <3>1, Shapes DEF ThreadHolds, Decisions
  <2> QED
    BY <2>1 DEF ThreadsHold
<1> QED
  BY <1>2, <1>5, <1>6, <1>7 DEF IInv

(* A host that moves: no decision made so far speaks of it any more. *)
LEMMA MoveStep ==
    ASSUME IInv, NEW h \in Hosts, Move(h) PROVE IInv'
<1>1. /\ answer' \in [Hosts -> SUBSET Addresses] /\ h \notin Literals
      /\ \A k \in Hosts \ {h} : answer'[k] = answer[k]
      /\ moved' = [moved EXCEPT ![h] = Elapsed]
      /\ UNCHANGED <<clock, setBack, cnNetworks, cache, thread>>
  BY DEF IInv, TypeOK, Move
<1>2. Elapsed \in Nat /\ Elapsed' = Elapsed
  BY <1>1 DEF IInv, TypeOK, Elapsed
<1>3. TypeOK'
  BY <1>1, <1>2 DEF IInv, TypeOK
<1>4. \A k \in Hosts, d \in Decisions : Holds(k, d) /\ d.since <= Elapsed => Holds(k, d)'
  <2> SUFFICES ASSUME NEW k \in Hosts, NEW d \in Decisions, Holds(k, d), d.since <= Elapsed
               PROVE  Holds(k, d)'
    OBVIOUS
  <2>1. CASE k = h
    BY <1>1, <1>2, <2>1 DEF IInv, TypeOK, Holds, Decisions
  <2>2. CASE k # h
    BY <1>1, <2>2 DEF IInv, TypeOK, Holds, ChooseRoute, IsDirectIp
  <2> QED
    BY <2>1, <2>2
<1>5. EntriesHold' /\ OneEntry'
  BY <1>1, <1>2, <1>4 DEF IInv, TypeOK, EntriesHold, OneEntry, Entries
<1>6. MovesAreDated' /\ LiteralsStay'
  <2>1. \A k \in Hosts : moved'[k] <= Elapsed
    BY <1>1, <1>2 DEF IInv, TypeOK, MovesAreDated
  <2>2. \A k \in Literals : answer'[k] = answer[k]
    BY <1>1 DEF Literals
  <2> QED
    BY <1>2, <2>1, <2>2 DEF IInv, MovesAreDated, LiteralsStay
<1>7. ThreadsHold'
  <2>1. ASSUME NEW u \in Threads PROVE ThreadHolds(thread[u])'
    <3>1. ThreadHolds(thread[u]) /\ thread'[u] = thread[u] /\ thread[u] \in ThreadStates
      BY <1>1 DEF IInv, TypeOK, ThreadsHold
    <3> QED
      BY <1>1, <1>2, <1>4, <3>1, Shapes DEF ThreadHolds
  <2> QED
    BY <2>1 DEF ThreadsHold
<1> QED
  BY <1>3, <1>5, <1>6, <1>7 DEF IInv

(* The entry a thread writes replaces those of its host. *)
LEMMA StoreStep ==
    ASSUME IInv, NEW t \in Threads, Store(t) PROVE IInv'
<1> DEFINE th == thread[t]
           mine == [host |-> th.host, at |-> th.now, decision |-> th.decision]
<1>1. th \in ThreadStates /\ th.pc = "store" /\ ThreadHolds(th)
  BY DEF IInv, TypeOK, ThreadsHold, Store
<1>2. /\ th.host \in Hosts /\ th.written \in Hosts /\ th.now \in Nat /\ th.started \in Nat /\ th.decision \in Decisions
      /\ th.decision.since \in Nat
  BY <1>1, Shapes DEF Decisions
<1>3. /\ clock \in Nat /\ setBack \in Nat /\ Elapsed \in Nat /\ Elapsed' = Elapsed
      /\ \A h, d : Holds(h, d)' <=> Holds(h, d)
  BY DEF IInv, TypeOK, Elapsed, Store, World, Holds, ChooseRoute, IsDirectIp
<1>4. /\ cache' = {e \in cache : e.host # th.host} \cup {mine}
      /\ thread' = [thread EXCEPT ![t] = Decided(th, th.decision)]
      /\ UNCHANGED World
  BY DEF Store
<1>5. mine \in Entries
  BY <1>2 DEF Entries
<1>6. Decided(th, th.decision) \in ThreadStates /\ ThreadHolds(Decided(th, th.decision))
  BY <1>1, <1>2, <1>3 DEF Decided, ThreadStates, ThreadHolds
<1>7. TypeOK'
  BY <1>4, <1>5, <1>6 DEF IInv, TypeOK, World
<1>8. EntriesHold'
  <2>1. mine.at <= mine.decision.since /\ mine.decision.since <= Elapsed /\ Holds(mine.host, mine.decision)
    BY <1>1, <1>2 DEF ThreadHolds
  <2> QED
    BY <1>3, <1>4, <2>1 DEF IInv, EntriesHold
<1>9. OneEntry' /\ MovesAreDated' /\ LiteralsStay'
  BY <1>3, <1>4 DEF IInv, OneEntry, MovesAreDated, LiteralsStay, World
<1>10. ThreadsHold'
  <2>1. ASSUME NEW u \in Threads PROVE ThreadHolds(thread[u])'
    <3>1. ThreadHolds(thread[u]) /\ thread'[u] \in {thread[u], Decided(th, th.decision)}
      BY <1>4 DEF IInv, TypeOK, ThreadsHold
    <3> QED
      BY <1>3, <1>4, <1>6, <3>1 DEF ThreadHolds, World
  <2> QED
    BY <2>1 DEF ThreadsHold
<1> QED
  BY <1>7, <1>8, <1>9, <1>10 DEF IInv

(* A request that looks its host up: an entry it may use is young enough. *)
LEMMA LookUpStep ==
    ASSUME IInv, NEW t \in Threads, LookUp(t) PROVE IInv'
<1> DEFINE th == thread[t]
<1>1. th \in ThreadStates /\ th.pc = "look" /\ ThreadHolds(th)
  BY DEF IInv, TypeOK, ThreadsHold, LookUp
<1>2. /\ th.host \in Hosts /\ th.written \in Hosts /\ th.now \in Nat /\ th.started \in Nat
      /\ clock \in Nat /\ setBack \in Nat /\ Elapsed \in Nat
  BY <1>1, Shapes DEF IInv, TypeOK, Elapsed
<1>3. CASE \E e \in cache : /\ e.host = th.host /\ Fresh(e, th.now)
                            /\ thread' = [thread EXCEPT ![t] = Decided(th, e.decision)]
  <2>1. PICK e \in cache : /\ e.host = th.host /\ Fresh(e, th.now)
                           /\ thread' = [thread EXCEPT ![t] = Decided(th, e.decision)]
    BY <1>3
  <2>2. /\ e.at \in Nat /\ e.decision \in Decisions /\ e.decision.since \in Nat
        /\ e.at <= e.decision.since /\ e.decision.since <= Elapsed /\ Holds(th.host, e.decision)
    BY <2>1 DEF IInv, TypeOK, EntriesHold, Entries, Decisions
  <2>3. Decided(th, e.decision) \in ThreadStates
    BY <1>2, <2>2 DEF Decided, ThreadStates
  <2>4. th.started < e.decision.since + TTL + setBack
    BY <1>1, <1>2, <2>1, <2>2 DEF ThreadHolds, Fresh
  <2>5. ThreadHolds(Decided(th, e.decision))
    BY <1>1, <1>2, <2>2, <2>4 DEF ThreadHolds, Decided
  <2> QED
    BY <2>1, <2>3, <2>5, ThreadStep DEF LookUp
<1>4. CASE thread' = [thread EXCEPT ![t].pc = "resolve"]
  <2> DEFINE nx == [pc |-> "resolve", host |-> th.host, written |-> th.written, now |-> th.now,
                    started |-> th.started]
  <2>1. [th EXCEPT !.pc = "resolve"] = nx
    BY <1>1 DEF ThreadStates, Idle
  <2>2. nx \in ThreadStates /\ ThreadHolds(nx)
    BY <1>1, <1>2 DEF ThreadStates, ThreadHolds
  <2>3. thread' = [thread EXCEPT ![t] = nx]
    BY <1>4, <2>1
  <2>4. UNCHANGED <<World, cache>>
    BY DEF LookUp
  <2> HIDE DEF nx
  <2> QED
    BY <2>2, <2>3, <2>4, ThreadStep
<1> QED
  BY <1>3, <1>4 DEF LookUp

(* The other steps of a thread. *)
LEMMA OtherStep ==
    ASSUME IInv, NEW t \in Threads,
           (\E h \in Hosts : Accept(t, h)) \/ Resolve(t) \/ Connect(t) \/ Finish(t)
    PROVE  IInv'
<1> DEFINE th == thread[t]
<1>1. th \in ThreadStates /\ ThreadHolds(th)
  BY DEF IInv, TypeOK, ThreadsHold
<1>2. clock \in Nat /\ setBack \in Nat /\ Elapsed \in Nat /\ clock <= Elapsed /\ Elapsed = clock + setBack
  BY DEF IInv, TypeOK, Elapsed
<1>3. ASSUME NEW h \in Hosts, Accept(t, h) PROVE IInv'
  <2> DEFINE nx == [pc |-> "look", host |-> KeyOf[h], written |-> h, now |-> clock, started |-> Elapsed]
  <2>1. nx \in ThreadStates /\ ThreadHolds(nx)
    BY <1>2 DEF ThreadStates, ThreadHolds
  <2>2. thread' = [thread EXCEPT ![t] = nx] /\ UNCHANGED <<World, cache>>
    BY <1>3 DEF Accept
  <2> HIDE DEF nx
  <2> QED
    BY <2>1, <2>2, ThreadStep
<1>4. CASE Resolve(t)
  <2> DEFINE d == [mode |-> ChooseRoute(th.host, answer[th.host]), since |-> Elapsed]
             nx == [pc |-> "store", host |-> th.host, written |-> th.written, now |-> th.now,
                    started |-> th.started, decision |-> d]
  <2>1. /\ th.pc = "resolve" /\ th.host \in Hosts /\ th.written \in Hosts /\ th.now \in Nat /\ th.started \in Nat
    BY <1>1, <1>4, Shapes DEF Resolve
  <2>2. d \in Decisions /\ Holds(th.host, d)
    BY <1>2, RouteType DEF Decisions, Holds
  <2>3. nx \in ThreadStates
    BY <2>1, <2>2 DEF ThreadStates
  <2>4. ThreadHolds(nx)
    BY <1>1, <1>2, <2>1, <2>2 DEF ThreadHolds
  <2>5. thread' = [thread EXCEPT ![t] = nx] /\ UNCHANGED <<World, cache>>
    BY <1>4 DEF Resolve
  <2> HIDE DEF nx
  <2> QED
    BY <2>3, <2>4, <2>5, ThreadStep
<1>5. CASE Connect(t)
  <2>1. PICK end \in Ends(th) : thread' = [thread EXCEPT ![t] = [pc |-> "tunnel", end |-> end]]
    BY <1>5 DEF Connect
  <2>2. th.written \in Hosts
    BY <1>1, <1>5, Shapes DEF Connect
  <2>3. end \in Addresses \cup {Upstream}
    BY <2>2 DEF Ends, IInv, TypeOK
  <2>4. [pc |-> "tunnel", end |-> end] \in ThreadStates /\ ThreadHolds([pc |-> "tunnel", end |-> end])
    BY <2>3 DEF ThreadStates, ThreadHolds
  <2> QED
    BY <1>5, <2>1, <2>4, ThreadStep DEF Connect
<1>6. CASE Finish(t)
  <2>1. Idle \in ThreadStates /\ ThreadHolds(Idle)
    BY DEF ThreadStates, ThreadHolds, Idle
  <2> QED
    BY <1>6, <2>1, ThreadStep DEF Finish
<1> QED
  BY <1>3, <1>4, <1>5, <1>6

(* Every step preserves the invariant. *)
LEMMA StepInvariant == IInv /\ [Next]_vars => IInv'
<1> SUFFICES ASSUME IInv, [Next]_vars PROVE IInv'
  OBVIOUS
<1>1. CASE Next
  BY <1>1, ClockStep, MoveStep, StoreStep, LookUpStep, OtherStep DEF Next
<1>2. CASE UNCHANGED vars
  BY <1>2 DEF vars, IInv, TypeOK, EntriesHold, ThreadsHold, ThreadHolds, OneEntry,
     MovesAreDated, LiteralsStay, Elapsed, Holds, ChooseRoute, IsDirectIp
<1> QED
  BY <1>1, <1>2

(* The invariant holds in every behaviour. *)
THEOREM Invariance == Spec => []IInv
<1> QED
  BY InitInvariant, StepInvariant, PTL DEF Spec

(* A request that arrives TTL after its host last moved, and what the clock
   was set back later, is routed as the host is now. *)
THEOREM Followed == Spec => []MovesAreFollowed
<1>1. IInv => MovesAreFollowed
  <2> SUFFICES ASSUME IInv, NEW t \in Threads, thread[t].pc = "open",
                      moved[thread[t].host] + TTL + setBack <= thread[t].started
               PROVE  thread[t].decision.mode = ChooseRoute(thread[t].host, answer[thread[t].host])
    BY DEF MovesAreFollowed, Obeyed
  <2> DEFINE th == thread[t]
  <2>1. th \in ThreadStates /\ ThreadHolds(th)
    BY DEF IInv, TypeOK, ThreadsHold
  <2>2. th.host \in Hosts /\ th.started \in Nat /\ th.decision.since \in Nat
    BY <2>1, Shapes DEF Decisions
  <2>3. moved[th.host] \in Nat /\ setBack \in Nat
    BY <2>2 DEF IInv, TypeOK
  <2>4. th.decision.since > moved[th.host]
    BY <2>1, <2>2, <2>3 DEF ThreadHolds
  <2> QED
    BY <2>1, <2>4 DEF ThreadHolds, Holds
<1> QED
  BY <1>1, Invariance, PTL

(* What an unforced host that has not moved since it was sent direct resolves
   to is at home, or IPv6. *)
LEMMA DirectIsHome ==
    ASSUME IInv, NEW h \in Hosts, ~Forced(h), ChooseRoute(h, answer[h]) = "direct",
           NEW end \in answer[h]
    PROVE  end \in Private \cup Cn \cup V6
<1>1. cnNetworks \subseteq Cn
  BY DEF IInv, TypeOK
<1>2. CASE h \in Literals
  <2>1. end = LiteralOf[h]
    BY <1>2 DEF IInv, LiteralsStay
  <2> QED
    BY <1>1, <1>2, <2>1 DEF ChooseRoute, Forced, IsDirectIp
<1>3. CASE h \notin Literals
  BY <1>1, <1>3 DEF ChooseRoute, Forced, IsDirectIp, ResolveIpv4
<1> QED
  BY <1>2, <1>3

(* A connection that goes abroad without being forced to, by IPv4, follows a
   decision older than the last move of its host. *)
THEOREM DirectStaysHome == Spec => HomeOnly
<1> DEFINE Bad(t) ==
        LET th == thread[t]  end == thread'[t].end IN
        ~ (\/ end = Upstream \/ end \in Private \cup Cn \cup V6
           \/ Forced(th.host) \/ th.written # th.host
           \/ moved[th.host] >= th.decision.since)
<1>1. ASSUME IInv, [Next]_vars, NEW t \in Threads, thread[t].pc = "open", thread'[t].pc = "tunnel"
      PROVE  ~Bad(t)
  <2> DEFINE th == thread[t]
  <2>1. th \in ThreadStates /\ ThreadHolds(th) /\ thread \in [Threads -> ThreadStates]
    BY <1>1 DEF IInv, TypeOK, ThreadsHold
  <2>2. th.host \in Hosts /\ th.decision \in Decisions /\ th.decision.since \in Nat
        /\ moved[th.host] \in Nat
    BY <1>1, <2>1, Shapes DEF Decisions, IInv, TypeOK
  <2>3. \E end \in Ends(th) : thread'[t].end = end
    <3>1. thread' # thread
      BY <1>1
    <3>2. ~ \E u \in Threads : u # t /\ thread'[u] # thread[u]
      BY <1>1, <2>1 DEF Next, vars, Tick, SetBack, Move, Accept, LookUp, Resolve, Store, Connect, Finish
    <3> QED
      BY <1>1, <2>1 DEF Next, vars, Tick, SetBack, Move, Accept, LookUp, Resolve, Store, Connect, Finish,
         Decided, Idle
  <2>4. PICK end \in Ends(th) : thread'[t].end = end
    BY <2>3
  <2>5. CASE th.decision.mode = "proxy"
    BY <2>4, <2>5 DEF Ends
  <2>6. CASE th.decision.mode = "direct" /\ th.decision.since > moved[th.host]
                /\ ~Forced(th.host) /\ th.written = th.host
    <3>1. ChooseRoute(th.host, answer[th.host]) = "direct" /\ end \in answer[th.host]
      BY <1>1, <2>1, <2>4, <2>6 DEF ThreadHolds, Holds, Ends
    <3> QED
      BY <1>1, <2>2, <2>4, <2>6, <3>1, DirectIsHome
  <2> QED
    BY <2>2, <2>5, <2>6 DEF Decisions
<1>2. IInv /\ [Next]_vars => [\A t \in Threads :
        thread[t].pc = "open" /\ thread'[t].pc = "tunnel" =>
            LET th == thread[t]  end == thread'[t].end IN
            \/ end = Upstream \/ end \in Private \cup Cn \cup V6
            \/ Forced(th.host) \/ th.written # th.host
            \/ moved[th.host] >= th.decision.since]_vars
  BY <1>1
<1> QED
  BY <1>2, Invariance, PTL DEF Spec, HomeOnly
=============================================================================
