---------------------------- MODULE MCServices ----------------------------
(* Small services that share no state: the rate limit, the login plugin,   *)
(* the profiler over RCON, the database's migrations.  One of them takes   *)
(* steps in a behaviour; the others stay as they start.                    *)
EXTENDS RateLimiter, DemiAuth, Profiler, Schema

CONSTANTS ip1, ip2, steve, none

VARIABLE part

mcVars == <<rateVars, authVars, profVars, schemaVars, part>>

-----------------------------------------------------------------------------

(* The plugin's defaults, and a server that always asks. *)
MCAuthConfigs ==
    {[enabled |-> TRUE, oneTimeLogin |-> TRUE, grants |-> TRUE, exit |-> "auto"],
     [enabled |-> TRUE, oneTimeLogin |-> FALSE, grants |-> TRUE, exit |-> "none"]}

NoRequests == [most |-> 0, overlap |-> FALSE, restarts |-> 0, others |-> 0]

MCProfUsers ==
    {NoRequests,
     [most |-> 3, overlap |-> FALSE, restarts |-> 1, others |-> 0],
     [most |-> 2, overlap |-> TRUE, restarts |-> 1, others |-> 1]}

MCServerNames == {"A b", "a-b", "c"}

MCSanitize == [n \in MCServerNames |-> IF n = "A b" THEN "a-b" ELSE n]

-----------------------------------------------------------------------------

MCInit ==
    /\ part \in {"limit", "auth", "profiler", "schema"}
    /\ RateInit /\ AuthInit /\ ProfInit /\ SchemaInit
    /\ part # "auth" => node = {} /\ configVar.oneTimeLogin
    /\ (part = "profiler") <=> profUsers # NoRequests
    /\ part # "schema" => columns = {}

MCNext ==
    \/ part = "limit" /\ RateNext /\ UNCHANGED <<authVars, profVars, schemaVars, part>>
    \/ part = "auth" /\ AuthNext /\ UNCHANGED <<rateVars, profVars, schemaVars, part>>
    \/ part = "profiler" /\ ProfNext /\ UNCHANGED <<rateVars, authVars, schemaVars, part>>
    \/ part = "schema" /\ SchemaNext /\ UNCHANGED <<rateVars, authVars, profVars, part>>

MCSpec == MCInit /\ [][MCNext]_mcVars /\ ProfFairness

=============================================================================
