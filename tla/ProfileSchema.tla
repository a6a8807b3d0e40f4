---------------------------- MODULE ProfileSchema ----------------------------
(***************************************************************************)
(* What a profile of the agent says, and which ones it accepts:            *)
(* agent/profile_schema.py, agent/upstream_profile.py and                  *)
(* agent/route_policy.py.                                                  *)
(*                                                                         *)
(* A profile is a record:                                                  *)
(*   version                                                               *)
(*   routes   a function from route ids to routes; a route has a type, the *)
(*            order of a failover, the policy of a lanProxy, and is        *)
(*            wellFormed when its endpoint, or its kind and authRef, are   *)
(*   split    splitRules: a function on the keys it has; "" stands for a   *)
(*            target that is null or empty                                 *)
(*   ui       a function on the keys it has; its regions are a set of ids  *)
(*   secret   has it a field with a secret in it?                          *)
(* An upstream file is the sequence of its outbounds' tags, and the final  *)
(* one.  RouteIdOf is normalize_route_id, "" for a tag with nothing left.  *)
(***************************************************************************)
EXTENDS Integers, Sequences, FiniteSets, SequencesExt

CONSTANT RouteIdOf  \* from tags to route ids; tags may share one

SUPPORTED_VERSION == 2
ROUTE_TYPES == {"http", "socks", "failover", "lanProxy", "direct", "adapter"}
SPLIT_POLICIES == {"cn-private-direct-foreign-proxy", "all-proxy", "all-direct"}

Get(f, key, default) == IF key \in DOMAIN f THEN f[key] ELSE default

----------------------------------------------------------------------------
(* validate_profile *)

ValidRoute(route, routes) ==
    /\ route.type \in ROUTE_TYPES
    /\ route.type \in {"http", "socks", "adapter"} => route.wellFormed
    /\ route.type = "failover" => Len(route.order) >= 2 /\ ToSet(route.order) \subseteq DOMAIN routes
    /\ route.type = "lanProxy" => route.policy \in SPLIT_POLICIES

\* The targets of the split rules are looked up nowhere.
ValidSplit_AnyTarget(split, routes) ==
    Get(split, "policy", "cn-private-direct-foreign-proxy") \in SPLIT_POLICIES

\* Nothing is asked of a target that is missing, null or empty.
ValidSplit(split, routes) ==
    /\ Get(split, "policy", "cn-private-direct-foreign-proxy") \in SPLIT_POLICIES
    /\ \A key \in {"domestic", "private", "foreign"} :
          Get(split, key, "") \in {"", "direct"} \cup DOMAIN routes

ValidUi(ui, routes) ==
    /\ "defaultRegion" \in DOMAIN ui => ui["defaultRegion"] \in DOMAIN routes
    /\ Get(ui, "regions", {}) \subseteq DOMAIN routes

ValidateProfile(p) ==
    /\ p.version = SUPPORTED_VERSION
    /\ p.routes # << >>
    /\ \A id \in DOMAIN p.routes : id # "" /\ ValidRoute(p.routes[id], p.routes)
    /\ ValidSplit(p.split, p.routes)
    /\ ValidUi(p.ui, p.routes)
    /\ ~p.secret

----------------------------------------------------------------------------
(* Profiles the program makes *)

Route(type) ==
    [type |-> type, wellFormed |-> TRUE, order |-> <<>>, policy |-> "cn-private-direct-foreign-proxy"]
Failover(order) == [Route("failover") EXCEPT !.order = order]

SplitTo(foreign) ==
    [key \in {"policy", "domestic", "private", "foreign"} |->
        CASE key = "policy" -> "cn-private-direct-foreign-proxy"
          [] key = "foreign" -> foreign
          [] OTHER -> "direct"]

RedactedTemplate ==
    [version |-> SUPPORTED_VERSION,
     routes  |-> [id \in {"old", "new", "failover", "lanProxy"} |->
                    CASE id = "failover" -> Failover(<<"old", "new">>)
                      [] id = "lanProxy" -> Route("lanProxy")
                      [] OTHER -> Route("http")],
     split   |-> SplitTo("new"), ui |-> << >>, secret |-> FALSE]

\* The ids of the tagged outbounds; of tags with one id the first counts.
TaggedRoutes(outbounds) == {RouteIdOf[tag] : tag \in ToSet(outbounds)} \ {""}

\* An outbound with the one id stands before all of those with the other.
Before(outbounds, id, other) ==
    \E i \in DOMAIN outbounds :
        RouteIdOf[outbounds[i]] = id /\ \A j \in 1 .. i : RouteIdOf[outbounds[j]] # other

\* The route of a set of them that comes first.
FirstRoute(outbounds, ids) ==
    CHOOSE id \in ids : \A other \in ids \ {id} : Before(outbounds, id, other)

Convertible(upstream) == TaggedRoutes(upstream.outbounds) # {}

\* The fixed routes replace an outbound of the same id.
UpstreamToProfile(upstream) ==
    LET ids == TaggedRoutes(upstream.outbounds)
        first == FirstRoute(upstream.outbounds, ids)
        final == RouteIdOf[upstream.final]
        region == IF final \in ids THEN final ELSE first
        order == IF ids = {first} THEN <<region, region>>
                 ELSE <<first, FirstRoute(upstream.outbounds, ids \ {first})>>
    IN  [version |-> SUPPORTED_VERSION,
         routes  |-> [id \in ids \cup {"failover", "lanProxy"} |->
                        CASE id = "failover" -> Failover(order)
                          [] id = "lanProxy" -> Route("lanProxy")
                          [] OTHER -> Route("adapter")],
         split   |-> SplitTo(region),
         ui      |-> [key \in {"defaultRegion", "regions"} |->
                        IF key = "regions" THEN ids ELSE region],
         secret  |-> FALSE]

----------------------------------------------------------------------------
(* route_policy.py *)

FailoverOrder(p, id) == IF id \in DOMAIN p.routes THEN p.routes[id].order ELSE <<>>

\* The route of a target at home, of a private one, and of any other: what the
\* rules have for it, be it null or empty.
DecideRoute(kind, p) ==
    LET policy == Get(p.split, "policy", "cn-private-direct-foreign-proxy")
        foreign == Get(p.split, "foreign", "new")
    IN  CASE policy = "all-direct" -> "direct"
          [] policy = "all-proxy"  -> foreign
          [] kind = "foreign"      -> foreign
          [] OTHER                 -> Get(p.split, kind, "direct")

----------------------------------------------------------------------------
(* What a route leads to *)

\* The ids that p has or follows from one it has.
Ids(p) == DOMAIN p.routes \cup UNION {ToSet(FailoverOrder(p, id)) : id \in DOMAIN p.routes}

\* Following failover orders from id comes to a route of the profile that is
\* no failover: there is one in every set that holds id and what follows from
\* its members.
Leads(p, id) ==
    \/ id = "direct"
    \/ \A S \in SUBSET ({id} \cup Ids(p)) :
          id \in S /\ (\A r \in S : ToSet(FailoverOrder(p, r)) \subseteq S)
              => \E r \in S \cap DOMAIN p.routes : p.routes[r].type # "failover"

\* Failovers of p try each other in a circle, or one itself.
Circular(p) ==
    \E S \in SUBSET DOMAIN p.routes :
        /\ S # {}
        /\ \A id \in S : p.routes[id].type = "failover" /\ ToSet(p.routes[id].order) \cap S # {}

\* Where p sends a kind of target leads somewhere; or its rules name no route
\* for it: the target is null or empty, or there is none, and it is sent to a
\* route "new" that p need not have.
Sends(p, kind) ==
    \/ Leads(p, DecideRoute(kind, p))
    \/ DecideRoute(kind, p) = ""
    \/ "foreign" \notin DOMAIN p.split
=============================================================================
