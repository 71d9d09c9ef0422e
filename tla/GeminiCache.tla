---------------------------- MODULE GeminiCache ----------------------------
(***************************************************************************)
(* Explicit caching of documents by awf/llm: the names of the provider's   *)
(* cached contents, in a map that the launches of a fan-out share.  A name *)
(* is probed before it is used again; the map is locked during a create.   *)
(***************************************************************************)
EXTENDS Naturals, FiniteSets, Functions

CONSTANTS
    Launches,    \* concurrent launches of awf/llm steps
    Document,    \* [Launches -> the content key of model, system prompt and files]
    MaxUses,     \* bound on calls of a launch
    MaxExpiries, \* bound on contents that expire
    MaxErrors    \* bound on requests that fail

\* "none" is the write lock in nobody's hands
ASSUME CacheAssumption == "none" \notin Launches

VARIABLES
    names,     \* geminiCacheMap: [content keys -> name]
    locked,    \* the launch that holds the write lock, or "none"
    kept,      \* contents the provider still has: name -> content key
    created,   \* number of contents created
    gpc,       \* [Launches -> where ensureGeminiCache is]
    name,      \* [Launches -> the name it read, or was given]
    uses,      \* [Launches -> calls so far]
    lost,      \* history: contents whose name was lost with the response
    expiries, errors

cacheVars == <<names, locked, kept, created, gpc, name, uses, lost, expiries, errors>>

\* geminiCacheKey: what a content is addressed by
geminiCacheKey(l) == Document[l]
Go(l, label) == gpc' = [gpc EXCEPT ![l] = label]
Error == errors > 0 /\ errors' = errors - 1

\* the read lock, taken and given back
Lookup(l) ==
    /\ gpc[l] = "idle" /\ uses[l] < MaxUses /\ locked = "none"
    /\ uses' = [uses EXCEPT ![l] = uses[l] + 1]
    /\ \/ /\ geminiCacheKey(l) \in DOMAIN names
          /\ name' = [name EXCEPT ![l] = names[geminiCacheKey(l)]]
          /\ Go(l, "probe")
       \/ /\ geminiCacheKey(l) \notin DOMAIN names
          /\ name' = [name EXCEPT ![l] = 0]
          /\ Go(l, "lock")
    /\ UNCHANGED <<lost, names, locked, kept, created, expiries, errors>>

\* geminiCacheGet: the name is good, gone (404), or the request fails
Probe(l) ==
    /\ gpc[l] = "probe"
    /\ \/ name[l] \in DOMAIN kept /\ Go(l, "idle") /\ UNCHANGED errors
       \/ name[l] \notin DOMAIN kept /\ Go(l, "evict") /\ UNCHANGED errors
       \/ Go(l, "idle") /\ Error
    /\ UNCHANGED <<lost, names, locked, kept, created, name, uses, expiries>>

\* mutant of Evict: whatever name is in the map by now is dropped
EvictAny(l) ==
    /\ gpc[l] = "evict" /\ locked = "none"
    /\ names' = Restrict(names, DOMAIN names \ {geminiCacheKey(l)})
    /\ Go(l, "lock")
    /\ UNCHANGED <<lost, locked, kept, created, name, uses, expiries, errors>>

\* the entry is dropped if it still is the name that was probed
Evict(l) ==
    /\ gpc[l] = "evict" /\ locked = "none"
    /\ names' = IF geminiCacheKey(l) \in DOMAIN names /\ names[geminiCacheKey(l)] = name[l]
                THEN Restrict(names, DOMAIN names \ {geminiCacheKey(l)})
                ELSE names
    /\ Go(l, "lock")
    /\ UNCHANGED <<lost, locked, kept, created, name, uses, expiries, errors>>

\* the write lock and the second look at the map
Lock(l) ==
    /\ gpc[l] = "lock" /\ locked = "none"
    /\ \/ /\ geminiCacheKey(l) \in DOMAIN names
          /\ name' = [name EXCEPT ![l] = names[geminiCacheKey(l)]]
          /\ Go(l, "idle")
          /\ UNCHANGED locked
       \/ /\ geminiCacheKey(l) \notin DOMAIN names
          /\ locked' = l
          /\ Go(l, "create")
          /\ UNCHANGED name
    /\ UNCHANGED <<lost, names, kept, created, uses, expiries, errors>>

\* the contents at the provider with a new one
Made(d) == [n \in DOMAIN kept \cup {created + 1} |-> IF n = created + 1 THEN d ELSE kept[n]]

\* geminiCacheCreate under the lock, and the new entry; a request that fails
\* may have made a content whose name nobody learns
Create(l) ==
    /\ gpc[l] = "create"
    /\ \/ /\ created' = created + 1
          /\ kept' = Made(Document[l])
          /\ names' = [k \in DOMAIN names \cup {geminiCacheKey(l)} |-> IF k = geminiCacheKey(l) THEN created + 1 ELSE names[k]]
          /\ name' = [name EXCEPT ![l] = created + 1]
          /\ UNCHANGED errors
          /\ UNCHANGED lost
       \/ /\ Error
          /\ \/ UNCHANGED <<created, kept, lost>>
             \/ created' = created + 1 /\ kept' = Made(Document[l]) /\ lost' = lost \cup {created + 1}
          /\ UNCHANGED <<names, name>>
    /\ locked' = "none"
    /\ Go(l, "idle")
    /\ UNCHANGED <<uses, expiries>>

\* the TTL of a content passes at the provider
Expire ==
    /\ expiries > 0 /\ expiries' = expiries - 1
    /\ \E n \in DOMAIN kept : kept' = Restrict(kept, DOMAIN kept \ {n})
    /\ UNCHANGED <<lost, names, locked, created, gpc, name, uses, errors>>

CacheInit ==
    /\ names = <<>> /\ locked = "none" /\ kept = <<>> /\ created = 0
    /\ gpc = [l \in Launches |-> "idle"] /\ name = [l \in Launches |-> 0] /\ uses = [l \in Launches |-> 0]
    /\ lost = {} /\ expiries = MaxExpiries /\ errors = MaxErrors
CacheStep(l) == Probe(l) \/ Evict(l) \/ Lock(l) \/ Create(l)
CacheNext == (\E l \in Launches : Lookup(l) \/ CacheStep(l)) \/ Expire
CacheSpec == CacheInit /\ [][CacheNext]_cacheVars

-----------------------------------------------------------------------------
(* Properties.                                                             *)

\* A document is uploaded once ("concurrent first-use of the SAME document
\* creates exactly once"), and once more for a content that expired: the
\* provider never keeps two contents for one key, but for one whose name was
\* lost with the response.
UploadedOnce == \A m, n \in DOMAIN kept \ lost : kept[m] = kept[n] => m = n

\* The map never gives a launch the content of another document, and names
\* only what the provider made.
NamesMatch == \A l \in Launches : name[l] \in DOMAIN kept => kept[name[l]] = Document[l]

\* A document is uploaded once while its content lives, and no launch is given
\* the content of another document.
CacheSafe ==
    /\ UploadedOnce
    /\ NamesMatch
=============================================================================
