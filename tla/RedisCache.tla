------------------------------ MODULE RedisCache -------------------------------
(***************************************************************************)
(* RedisService (redis.service.ts) as its callers use it: values under     *)
(* string keys, each with or without a time to live.                       *)
(***************************************************************************)
EXTENDS Naturals

CONSTANT None  \* a cache miss

VARIABLES cache,    \* key -> value, None when absent
          expiring  \* the keys stored with a time to live

cacheVars == <<cache, expiring>>

\* A plausible slip in set; only mutation runs use it.
setWithoutTtl(key, value, ttl) ==
    /\ cache' = [cache EXCEPT ![key] = value]
    /\ expiring' = expiring \ {key}

\* A time to live in seconds; 0 for none.
set(key, value, ttl) ==
    /\ cache' = [cache EXCEPT ![key] = value]
    /\ expiring' = IF ttl > 0 THEN expiring \cup {key} ELSE expiring \ {key}

delAll(keys) ==
    /\ cache' = [key \in DOMAIN cache |-> IF key \in keys THEN None ELSE cache[key]]
    /\ expiring' = expiring \ keys

del(key) == delAll({key})

\* Redis drops a key when its time to live has passed.
expire(key) == key \in expiring /\ del(key)
=============================================================================
