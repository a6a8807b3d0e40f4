---------------------------- MODULE MCProfileStore ----------------------------
(* An instance of ProfileStore for TLC: one process writes profiles and       *)
(* unlocks them for the API, one copies, unlocks, starts, polls and locks.    *)
EXTENDS ProfileStore

CONSTANTS shell, api, secret, none

Both == {shell, api}
TheCommands ==
    [p \in Both |-> IF p = shell THEN {"write", "api_unlock"}
                    ELSE {"copy", "unlock", "start", "poll", "lock"}]
OnePassphrase == {secret}

\* Hand-made profiles: the template without a route for private targets, and
\* one that sends foreign targets to a route it does not have.
Edited == [RedactedTemplate EXCEPT !.split["private"] = ""]
Dangling == [RedactedTemplate EXCEPT !.split = SplitTo("gone")]
SomeInputs == [n \in {"edited", "dangling"} |-> IF n = "edited" THEN Edited ELSE Dangling]

\* The template itself is accepted and sends everything somewhere.
ASSUME TemplateIsGood ==
    /\ ValidateProfile(RedactedTemplate) /\ ~Circular(RedactedTemplate)
    /\ \A kind \in {"private", "domestic", "foreign"} :
          Leads(RedactedTemplate, DecideRoute(kind, RedactedTemplate))

\* Upstream files: two tags of one id, and none.
Tags == {"US", "us", "", "jp"}
RouteIds == [t \in Tags |-> IF t = "US" THEN "us" ELSE t]
SomeUpstreams ==
    [n \in {"regions", "untagged"} |->
        CASE n = "regions" -> [outbounds |-> <<"US", "", "us", "jp">>, final |-> "jp"]
          [] OTHER         -> [outbounds |-> <<"">>, final |-> "us"]]
=============================================================================
