------------------------------- MODULE MCLive -------------------------------
(* Live sessions: the registry that awf processes share, the client of one *)
(* process, and the cache of one adapter, one of them at a time.           *)
EXTENDS LiveSession, CodexClient, GeminiCache

VARIABLE part

Mixed == [l \in Launchers |-> IF l = "a" THEN "restart" ELSE "continue"]
Found == [path |-> "bin", version |-> "v1"]
Documents == [l \in Launches |-> IF l = "r" THEN "other" ELSE "doc"]

vars == <<liveVars, clientVars, cacheVars, part>>
Init == LiveInit /\ ClientInit /\ CacheInit /\ part \in {"registry", "client", "cache"}
Registry == part = "registry" /\ LiveNext /\ UNCHANGED <<clientVars, cacheVars, part>>
Client == part = "client" /\ ClientNext /\ UNCHANGED <<liveVars, cacheVars, part>>
Cache == part = "cache" /\ CacheNext /\ UNCHANGED <<liveVars, clientVars, part>>
Next == Registry \/ Client \/ Cache
Spec == Init /\ [][Next]_vars
=============================================================================
