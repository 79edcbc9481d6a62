------------------------------- MODULE HashMap --------------------------------
(***************************************************************************)
(* The hash map of loaded classes (hashmap.c).  A bucket is its list of    *)
(* keys, the newest first; the value of a key is known from elsewhere.     *)
(*                                                                         *)
(* ht_createHashmap allocates the size of a pointer for the whole struct.  *)
(* The memory after it is, in one of the layouts malloc can produce, that  *)
(* of the buckets, and the first two hold loadFactor and equality_fn.      *)
(***************************************************************************)
EXTENDS Integers, Sequences, FiniteSets, SequencesExt, FiniteSetsExt

CONSTANTS Keys,
          Hash,         \* of each key
          Length,       \* number of buckets: 16
          MaxFailures   \* bound: allocations that fail

ASSUME HashMapAssumption ==
    /\ IsFiniteSet(Keys)
    /\ Hash \in [Keys -> Nat]
    /\ Length \in Nat \ {0}
    /\ MaxFailures \in Nat

VARIABLES
    buckets,
    numEntries,
    stale,      \* buckets that point to a node that was freed
    overlaid,   \* two buckets hold fields of the struct
    crashed,    \* the process got a SIGSEGV
    failures    \* allocations that have failed

mapVars == <<buckets, numEntries, stale, overlaid, crashed, failures>>

BucketOf(k) == Hash[k] % Length

InitMap ==
    /\ buckets = [b \in 0 .. Length - 1 |-> <<>>]
    /\ numEntries = 0
    /\ stale = {}
    /\ overlaid \in BOOLEAN
    /\ crashed = FALSE
    /\ failures = 0

\* So many calls of malloc or calloc fail.
AllocationsFail(n) == failures + n <= MaxFailures /\ failures' = failures + n
AllocationFails == AllocationsFail(1)

\* The walk along the bucket of k meets no node of the map.
Strays(k) == \/ overlaid /\ BucketOf(k) \in {0, 1}
             \/ BucketOf(k) \in stale
Listed(k) == \E i \in DOMAIN buckets[BucketOf(k)] : buckets[BucketOf(k)][i] = k

\* 0.75f is the loadFactor of the class loader's map.
Full == 4 * numEntries >= 3 * Length

Crash == crashed' = TRUE /\ UNCHANGED <<buckets, numEntries, stale, overlaid>>

\* ht_get and ht_contains, finding the node of k or none.
GetFinds(k) == ~Strays(k) /\ Listed(k)
GetMisses(k) == ~Strays(k) /\ ~Listed(k)

AddNode(k) ==
    /\ buckets' = [buckets EXCEPT ![BucketOf(k)] = <<k>> \o @]
    /\ numEntries' = numEntries + 1

\* ht_put.  expandHashmap reads the key of the node after the one it moves; it
\* fails on the last node of a bucket, and a full map has one.  A calloc that
\* fails leaves the map as it is, a malloc that fails leaves the key out.
Put(k) ==
    LET unexpanded == IF Full THEN 1 ELSE 0     \* the calloc that has to fail
    IN  \/ (Full \/ Strays(k)) /\ Crash /\ UNCHANGED failures
        \/ /\ ~Strays(k) /\ AllocationsFail(unexpanded)
           /\ IF Listed(k) THEN UNCHANGED <<buckets, numEntries>> ELSE AddNode(k)
           /\ UNCHANGED <<stale, overlaid, crashed>>
        \/ /\ ~Strays(k) /\ ~Listed(k) /\ AllocationsFail(unexpanded + 1)
           /\ UNCHANGED <<buckets, numEntries, stale, overlaid, crashed>>

\* ht_delete.  Nothing points the bucket past its first node when that is freed.
Delete(k) ==
    IF Listed(k)
    THEN /\ \E i \in DOMAIN buckets[BucketOf(k)] :
               /\ buckets[BucketOf(k)][i] = k
               /\ buckets' = [buckets EXCEPT ![BucketOf(k)] = RemoveAt(@, i)]
         /\ numEntries' = numEntries - 1
         /\ stale' = IF Head(buckets[BucketOf(k)]) = k THEN stale \cup {BucketOf(k)} ELSE stale
    ELSE UNCHANGED <<buckets, numEntries, stale>>

(***************************************************************************)
(* Each key is listed once, in the bucket of its hash, numEntries counts   *)
(* them, and no bucket is left pointing to a freed node while the process  *)
(* goes on (ht_put, ht_delete).                                            *)
(***************************************************************************)
MapSound ==
    /\ \A b \in DOMAIN buckets : \A i, j \in DOMAIN buckets[b] :
           /\ BucketOf(buckets[b][i]) = b
           /\ buckets[b][i] = buckets[b][j] => i = j
    /\ numEntries = Cardinality({k \in Keys : Listed(k)})
    /\ stale # {} => crashed
=============================================================================
