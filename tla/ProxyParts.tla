----------------------------- MODULE ProxyParts -----------------------------
(***************************************************************************)
(* ProxyWorker, StreamProxy, UpstreamPool and DiskCache side by side: the  *)
(* connections of a worker, a TCP stream, the pool and the cache.  They    *)
(* have no state in common: a behaviour is one of one of the four, chosen  *)
(* in the initial state, and the others' variables stay as they were.      *)
(***************************************************************************)
EXTENDS ProxyWorker, StreamProxy, UpstreamPool, DiskCache

VARIABLE part   \* "worker", "stream", "pool" or "cache"

PartsInit ==
    /\ part \in {"worker", "stream", "pool", "cache"}
    /\ Init /\ StreamInit /\ PoolInit /\ CacheInit
    /\ part # "worker" => algorithm = "round_robin"   \* one copy of the others

WorkerPart == part = "worker" /\ Next /\ UNCHANGED <<part, streamVars, poolVars, cacheVars>>

StreamPart == part = "stream" /\ StreamNext /\ UNCHANGED <<part, vars, poolVars, cacheVars>>

PoolPart == part = "pool" /\ PoolNext /\ UNCHANGED <<part, vars, streamVars, cacheVars>>

CachePart == part = "cache" /\ CacheNext /\ UNCHANGED <<part, vars, streamVars, poolVars>>

PartsSpec ==
    /\ PartsInit
    /\ [][WorkerPart \/ StreamPart \/ PoolPart \/ CachePart]_
           <<part, vars, streamVars, poolVars, cacheVars>>
    /\ Fairness

=============================================================================
