----------------------------- MODULE MCMemoryCache -----------------------------
(* Three threads that read, write and purge three keys, in a cache that holds  *)
(* two entries and starts full.                                                *)
EXTENDS MemoryCache, TLC

CONSTANTS k1, k2, k3, t1, t2, t3

MCFilters == {{k1}, {k1, k2}}
MCWarm == {{k1, k2}}
MCPolicies == {"lru", "lfu"}
MCRoles == t1 :> {"get", "read"} @@ t2 :> {"get", "set"}
           @@ t3 :> {"set", "delete", "clear", "cleanup"}
=============================================================================
