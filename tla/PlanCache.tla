------------------------------ MODULE PlanCache ------------------------------
(***************************************************************************)
(* eureka::lex::jit::PlanCache: compiled plans by subset hash, kept in a   *)
(* list ordered by use, with a map from hash to list node.  Both methods   *)
(* hold the mutex throughout, so each call is one action.  hit_count is    *)
(* left out: nothing reads it.                                             *)
(***************************************************************************)
EXTENDS Naturals, FiniteSets, SequencesExt

CONSTANTS Hashes, Funcs, capacity

\* With capacity 0 the first insertion would evict from an empty list.
ASSUME CapacityAssumption == capacity \in Nat \ {0}

VARIABLES
    lru_list,      \* entries, most recently used first
    cache_map,     \* the hashes that have an iterator into the list
    latest,        \* history: the plan last inserted for each hash
    recency,       \* history: hashes ever inserted, most recently used first
    found          \* what the last lookup returned: a sequence of 0 or 1 plan

cacheVars == <<lru_list, cache_map, latest, recency, found>>

CacheInit ==
    /\ lru_list = <<>> /\ cache_map = {}
    /\ latest = [h \in {} |-> {}]
    /\ recency = <<>>
    /\ found = <<>>

\* The node that cache_map's iterator points to.
Node(h) == CHOOSE i \in DOMAIN lru_list : lru_list[i].subset_hash = h

\* splice: the node goes to the front, the others keep their order.
MoveToFront(h) == <<lru_list[Node(h)]>> \o RemoveAt(lru_list, Node(h))

Use(h) ==
    LET age == CHOOSE i \in DOMAIN recency : recency[i] = h
    IN  recency' = <<h>> \o IF h \in ToSet(recency) THEN RemoveAt(recency, age) ELSE recency

\* Mutant: a hit leaves the order alone.
LookupKeepsOrder(h) ==
    /\ h \in cache_map
    /\ found' = <<lru_list[Node(h)].func>>
    /\ Use(h)
    /\ UNCHANGED <<lru_list, cache_map, latest>>

LookupHit(h) ==
    /\ h \in cache_map
    /\ lru_list' = MoveToFront(h)
    /\ found' = <<lru_list[Node(h)].func>>
    /\ Use(h)
    /\ UNCHANGED <<cache_map, latest>>

LookupMiss(h) ==
    /\ h \notin cache_map
    /\ found' = <<>>
    /\ UNCHANGED <<lru_list, cache_map, latest, recency>>

\* Mutant: the plan of a known hash is not replaced.
InsertKeepsPlan(h, func) ==
    /\ h \in cache_map
    /\ lru_list' = MoveToFront(h)
    /\ latest' = [latest EXCEPT ![h] = func]
    /\ Use(h)
    /\ UNCHANGED <<cache_map, found>>

\* insert_plan of a hash already there: its plan is replaced.
InsertKnown(h, func) ==
    /\ h \in cache_map
    /\ lru_list' = <<[subset_hash |-> h, func |-> func]>> \o RemoveAt(lru_list, Node(h))
    /\ latest' = [latest EXCEPT ![h] = func]
    /\ Use(h)
    /\ UNCHANGED <<cache_map, found>>

\* What the list and the map keep when a new entry needs a place.
Full == Cardinality(cache_map) >= capacity
KeptList == IF Full THEN Front(lru_list) ELSE lru_list

\* Mutant: the evicted hash stays in the map.
KeptAll == cache_map

KeptMap == IF Full THEN cache_map \ {Last(lru_list).subset_hash} ELSE cache_map

InsertNew(h, func) ==
    /\ h \notin cache_map
    /\ lru_list' = <<[subset_hash |-> h, func |-> func]>> \o KeptList
    /\ cache_map' = KeptMap \cup {h}
    /\ latest' = [g \in DOMAIN latest \cup {h} |-> IF g = h THEN func ELSE latest[g]]
    /\ Use(h)
    /\ UNCHANGED found

CacheNext ==
    \E h \in Hashes :
        \/ LookupHit(h) \/ LookupMiss(h)
        \/ \E func \in Funcs : InsertKnown(h, func) \/ InsertNew(h, func)

CacheSpec == CacheInit /\ [][CacheNext]_cacheVars

-----------------------------------------------------------------------------
Listed == [i \in DOMAIN lru_list |-> lru_list[i].subset_hash]

\* List and map describe the same plans, through any sequence of lookups,
\* replacements and evictions: no dangling iterator, no unreachable node, and
\* never more than capacity.
MapListAgree ==
    /\ cache_map = ToSet(Listed)
    /\ IsInjective(Listed)
    /\ Len(lru_list) <= capacity

\* The cache holds exactly the most recently used hashes, in order of use:
\* eviction always takes the least recently used plan.
KeepsMostRecent ==
    Listed = SubSeq(recency, 1, Len(lru_list))
    /\ Len(lru_list) = IF Len(recency) < capacity THEN Len(recency) ELSE capacity

\* A lookup never returns a plan that was replaced, or another hash's plan.
PlansCurrent ==
    \A i \in DOMAIN lru_list : lru_list[i].func = latest[lru_list[i].subset_hash]
=============================================================================
