------------------------------ MODULE SplitRoute ------------------------------
(***************************************************************************)
(* Where the proxy for the phones of the LAN sends a request:              *)
(* runtime/proxy-stack/iphone_lan_split_proxy.py.                          *)
(*                                                                         *)
(* A thread serves a request.  It asks for the route of the host: an entry *)
(* of the cache that all threads share, or, when there is none or it is    *)
(* too old, what choose_route says of the IPv4 addresses the host has at   *)
(* the moment.  The cache is locked while it is read and while it is       *)
(* written, and not in between.  A request that goes direct resolves its   *)
(* host once more, when it connects.                                       *)
(*                                                                         *)
(* A host is a sequence of labels in lower case; route() strips the dots   *)
(* around it, while create_connection takes it as it was written: "a." and *)
(* "a" have one entry and may resolve to different addresses.              *)
(* Names move: what a name resolves to changes at any time.  The clock is  *)
(* the one time.time() reads: it may be set back.  Time really elapsed is  *)
(* the clock and all it has been set back by.                              *)
(***************************************************************************)
EXTENDS Integers, Sequences, SequencesExt

CONSTANTS
    Threads, Hosts, Addresses,
    KeyOf,       \* a host without the dots around it
    Answers,     \* what a name may resolve to; the empty set if it does not
    V6,          \* the addresses that are IPv6
    Private,     \* the addresses in PRIVATE_NETS
    Cn,          \* the addresses in the networks of the file of CN routes
    LiteralOf,   \* the address of a host that is written as one
    Steady,      \* hosts that are no address and do not move
    ForceDirect, ForceProxy,    \* the patterns of --force-direct, --force-proxy
    Upstream,    \* where a request goes that does not go direct
    TTL,         \* CACHE_TTL
    MaxTime,     \* bound: how far the clock goes
    MaxSetBack   \* bound: how far it is set back in all

ASSUME SplitAssumption ==
    /\ Answers \subseteq SUBSET Addresses
    /\ V6 \subseteq Addresses /\ Private \subseteq Addresses \ V6 /\ Cn \subseteq Addresses \ V6
    /\ KeyOf \in [Hosts -> Hosts]
    /\ DOMAIN LiteralOf \subseteq Hosts
    /\ \A h \in DOMAIN LiteralOf : LiteralOf[h] \in Addresses
    /\ Steady \subseteq Hosts
    /\ Upstream \notin Addresses
    /\ TTL \in Nat \ {0} /\ MaxTime \in Nat /\ MaxSetBack \in Nat

VARIABLES
    clock,      \* what time.time() returns
    setBack,    \* how far the clock has been set back so far
    cnNetworks, \* the networks load_networks found at the start
    answer,     \* what resolving a host gives
    moved,      \* the time, really elapsed, when that changed last
    cache,      \* SplitHttpProxy.cache: a set of entries, at most one per host
    thread

vars == <<clock, setBack, cnNetworks, answer, moved, cache, thread>>

Elapsed == clock + setBack
Literals == DOMAIN LiteralOf

\* A decision.  "since" is the time, really elapsed, it was made at.
Decisions == [mode : {"direct", "proxy"}, since : Nat]
Entries == [host : Hosts, at : Nat, decision : Decisions]

Idle == [pc |-> "idle"]

----------------------------------------------------------------------------
(* choose_route *)

HostMatches(host, patterns) == \E p \in patterns : IsSuffix(p, host)

Forced(host) == HostMatches(host, ForceProxy) \/ HostMatches(host, ForceDirect)

IsDirectIp(ip) == ip \in Private \cup cnNetworks

ResolveIpv4(found) == found \ V6

\* One address at home is enough to go direct.
ChooseRoute_AnyHome(host, found) ==
    IF HostMatches(host, ForceProxy) THEN "proxy"
    ELSE IF HostMatches(host, ForceDirect) THEN "direct"
    ELSE IF host \in Literals THEN IF IsDirectIp(LiteralOf[host]) THEN "direct" ELSE "proxy"
    ELSE IF \E ip \in ResolveIpv4(found) : IsDirectIp(ip)
         THEN "direct" ELSE "proxy"

ChooseRoute(host, found) ==
    IF HostMatches(host, ForceProxy) THEN "proxy"
    ELSE IF HostMatches(host, ForceDirect) THEN "direct"
    ELSE IF host \in Literals THEN IF IsDirectIp(LiteralOf[host]) THEN "direct" ELSE "proxy"
    ELSE IF /\ ResolveIpv4(found) # {}
            /\ \A ip \in ResolveIpv4(found) : IsDirectIp(ip)
         THEN "direct" ELSE "proxy"

----------------------------------------------------------------------------
LiteralsStay == \A h \in Literals : answer[h] = {LiteralOf[h]}

Init ==
    /\ clock = 0 /\ setBack = 0
    /\ cnNetworks \in {Cn, {}}      \* the file may be missing
    /\ answer \in [Hosts -> SUBSET Addresses]
    /\ \A h \in Hosts \ (Literals \cup Steady) : answer[h] \in Answers
    /\ \A h \in Steady : answer[h] = Addresses
    /\ LiteralsStay
    /\ moved = [h \in Hosts |-> 0]
    /\ cache = {}
    /\ thread = [t \in Threads |-> Idle]

(* The world *)

Tick == /\ clock < MaxTime
        /\ clock' = clock + 1
        /\ UNCHANGED <<setBack, cnNetworks, answer, moved, cache, thread>>

SetBack == /\ clock > 0 /\ setBack < MaxSetBack
           /\ clock' = clock - 1
           /\ setBack' = setBack + 1
           /\ UNCHANGED <<cnNetworks, answer, moved, cache, thread>>

Move(h) == /\ h \notin Literals \cup Steady
           /\ \E a \in Answers : answer' = [answer EXCEPT ![h] = a]
           /\ moved' = [moved EXCEPT ![h] = Elapsed]
           /\ UNCHANGED <<clock, setBack, cnNetworks, cache, thread>>

(* The threads *)

World == <<clock, setBack, cnNetworks, answer, moved>>

\* route() reads the clock before it asks for the lock.  "host" is the key of
\* the host, "written" the host as the request has it.
Accept(t, h) ==
    /\ thread[t].pc = "idle"
    /\ thread' = [thread EXCEPT ![t] =
            [pc |-> "look", host |-> KeyOf[h], written |-> h, now |-> clock, started |-> Elapsed]]
    /\ UNCHANGED <<World, cache>>

\* An entry lives one tick too long.
Fresh_Inclusive(e, now) == now - e.at <= TTL

Fresh(e, now) == now - e.at < TTL

\* The thread has its decision and connects.
Decided(th, d) ==
    [pc |-> "open", host |-> th.host, written |-> th.written, started |-> th.started,
     decision |-> d]

\* An entry that is used is renewed.
LookUp_Renews(t) ==
    LET th == thread[t] IN
    /\ th.pc = "look"
    /\ \/ \E e \in cache :
            /\ e.host = th.host /\ Fresh(e, th.now)
            /\ thread' = [thread EXCEPT ![t] = Decided(th, e.decision)]
            /\ cache' = (cache \ {e}) \cup {[e EXCEPT !.at = th.now]}
       \/ /\ ~ \E e \in cache : e.host = th.host /\ Fresh(e, th.now)
          /\ thread' = [thread EXCEPT ![t].pc = "resolve"]
          /\ UNCHANGED cache
    /\ UNCHANGED World

LookUp(t) ==
    LET th == thread[t] IN
    /\ th.pc = "look"
    /\ \/ \E e \in cache :
            /\ e.host = th.host /\ Fresh(e, th.now)
            /\ thread' = [thread EXCEPT ![t] = Decided(th, e.decision)]
       \/ /\ ~ \E e \in cache : e.host = th.host /\ Fresh(e, th.now)
          /\ thread' = [thread EXCEPT ![t].pc = "resolve"]
    /\ UNCHANGED <<World, cache>>

Resolve(t) ==
    LET th == thread[t] IN
    /\ th.pc = "resolve"
    /\ thread' = [thread EXCEPT ![t] =
            [pc |-> "store", host |-> th.host, written |-> th.written, now |-> th.now,
             started |-> th.started,
             decision |-> [mode |-> ChooseRoute(th.host, answer[th.host]), since |-> Elapsed]]]
    /\ UNCHANGED <<World, cache>>

\* Whatever the cache holds by now, be it newer, is replaced.
Store(t) ==
    LET th == thread[t] IN
    /\ th.pc = "store"
    /\ cache' = {e \in cache : e.host # th.host}
                    \cup {[host |-> th.host, at |-> th.now, decision |-> th.decision]}
    /\ thread' = [thread EXCEPT ![t] = Decided(th, th.decision)]
    /\ UNCHANGED World

\* create_connection resolves the host again, as it is written and IPv6 addresses
\* included, and takes one that accepts.
Ends(th) ==
    IF th.decision.mode = "proxy" THEN {Upstream} ELSE answer[th.written]

Connect(t) ==
    /\ thread[t].pc = "open"
    /\ \E end \in Ends(thread[t]) :
        thread' = [thread EXCEPT ![t] = [pc |-> "tunnel", end |-> end]]
    /\ UNCHANGED <<World, cache>>

\* The name does not resolve, nobody accepts, or a tunnel ends.  A name that
\* getaddrinfo refuses with a UnicodeError, which choose_route does not catch,
\* ends the thread before there is a decision.
Finish(t) ==
    /\ thread[t].pc \in {"resolve", "open", "tunnel"}
    /\ thread' = [thread EXCEPT ![t] = Idle]
    /\ UNCHANGED <<World, cache>>

Next ==
    \/ Tick \/ SetBack
    \/ \E h \in Hosts : Move(h)
    \/ \E t \in Threads, h \in Hosts : Accept(t, h)
    \/ \E t \in Threads : LookUp(t) \/ Resolve(t) \/ Store(t) \/ Connect(t) \/ Finish(t)

Spec == Init /\ [][Next]_vars

----------------------------------------------------------------------------
(* Properties *)

ThreadStates ==
    {Idle}
    \cup [pc : {"look", "resolve"}, host : Hosts, written : Hosts, now : Nat, started : Nat]
    \cup [pc : {"store"}, host : Hosts, written : Hosts, now : Nat, started : Nat,
            decision : Decisions]
    \cup [pc : {"open"}, host : Hosts, written : Hosts, started : Nat, decision : Decisions]
    \cup [pc : {"tunnel"}, end : Addresses \cup {Upstream}]

TypeOK ==
    /\ clock \in Nat /\ setBack \in Nat
    /\ cnNetworks \in SUBSET Cn
    /\ answer \in [Hosts -> SUBSET Addresses]
    /\ moved \in [Hosts -> Nat]
    /\ cache \in SUBSET Entries
    /\ thread \in [Threads -> ThreadStates]

\* A decision is what choose_route says of the host now, unless the host has
\* moved since it was made.
Holds(h, d) ==
    d.since > moved[h] => d.mode = ChooseRoute(h, answer[h])

\* A request that arrives when its host last moved TTL ago or longer, and
\* longer by what the clock was set back, is sent where the host of today
\* belongs: neither the shared cache nor threads that overwrite newer entries
\* with older ones keep a route alive longer, and a lookup that failed is
\* forgotten as well.
Obeyed(th) ==
    moved[th.host] + TTL + setBack <= th.started
        => th.decision.mode = ChooseRoute(th.host, answer[th.host])

MovesAreFollowed == \A t \in Threads : thread[t].pc = "open" => Obeyed(thread[t])

\* The inductive invariant: an entry is dated no later than its decision was
\* made, and a request no later than it arrived.
EntriesHold ==
    \A e \in cache : e.at <= e.decision.since /\ e.decision.since <= Elapsed /\ Holds(e.host, e.decision)

ThreadHolds(th) ==
    /\ th.pc \in {"look", "resolve", "store"} =>
            th.now <= th.started /\ th.started <= th.now + setBack
    /\ th.pc \in {"look", "resolve", "store", "open"} => th.started <= Elapsed
    /\ th.pc \in {"store", "open"} => th.decision.since <= Elapsed /\ Holds(th.host, th.decision)
    /\ th.pc = "store" => th.started <= th.decision.since
    /\ th.pc = "open" => th.started < th.decision.since + TTL + setBack

ThreadsHold == \A t \in Threads : ThreadHolds(thread[t])

OneEntry == \A e, f \in cache : e.host = f.host => e = f

MovesAreDated == \A h \in Hosts : moved[h] <= Elapsed

IInv == TypeOK /\ EntriesHold /\ ThreadsHold /\ OneEntry /\ MovesAreDated /\ LiteralsStay

\* The "CN/private direct split" of the module's docstring: a request nobody
\* forced connects directly to an address abroad only if its host has moved
\* since the decision it follows was made, or over IPv6, which no decision
\* looks at, or if its host is written with dots that the decision ignores.
HomeOnly ==
    [][\A t \in Threads :
        thread[t].pc = "open" /\ thread'[t].pc = "tunnel" =>
            LET th == thread[t]  end == thread'[t].end IN
            \/ end = Upstream \/ end \in Private \cup Cn \cup V6
            \/ Forced(th.host) \/ th.written # th.host
            \/ moved[th.host] >= th.decision.since]_vars

=============================================================================
