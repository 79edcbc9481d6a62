--------------------------- MODULE ClassLoaderProofs ---------------------------
(***************************************************************************)
(* Theorems about ClassLoader, for every finite set of names, any class    *)
(* files that name only those, any number of threads and of buckets of the *)
(* map, and any number of failing allocations.  First the calls, the map   *)
(* and the classes in the making; then what follows of them: ClassSpace,   *)
(* why loads fail, how deep they nest; and last what the parsers make of a *)
(* file, from the sizes of one class to the objects of a whole hierarchy.  *)
(***************************************************************************)
EXTENDS ClassLoader, FiniteSetTheorems, WellFoundedInduction, TLAPS

-----------------------------------------------------------------------------
(* The stack of calls as a sequence.                                       *)

LEMMA FrontAndLast ==
    ASSUME NEW S, NEW s \in Seq(S), s # <<>>
    PROVE  /\ Len(s) \in Nat \ {0} /\ DOMAIN s = 1 .. Len(s)
           /\ Last(s) = s[Len(s)] /\ Last(s) \in S
           /\ Front(s) \in Seq(S) /\ Len(Front(s)) = Len(s) - 1
           /\ DOMAIN Front(s) = 1 .. Len(s) - 1
           /\ \A i \in 1 .. Len(s) - 1 : Front(s)[i] = s[i]
<1>1. Len(s) \in Nat \ {0} /\ DOMAIN s = 1 .. Len(s) /\ s[Len(s)] \in S
  OBVIOUS
<1>2. \A n \in 0 .. Len(s) : /\ SubSeq(s, 1, n) \in Seq(S) /\ Len(SubSeq(s, 1, n)) = n
                             /\ \A i \in 1 .. n : SubSeq(s, 1, n)[i] = s[i]
  BY <1>1
<1>3. Len(s) - 1 \in 0 .. Len(s)
  BY <1>1
<1>4. /\ SubSeq(s, 1, Len(s) - 1) \in Seq(S) /\ Len(SubSeq(s, 1, Len(s) - 1)) = Len(s) - 1
      /\ \A i \in 1 .. Len(s) - 1 : SubSeq(s, 1, Len(s) - 1)[i] = s[i]
  BY <1>2, <1>3
<1>5. Front(s) \in Seq(S) /\ Len(Front(s)) = Len(s) - 1 /\ \A i \in 1 .. Len(s) - 1 : Front(s)[i] = s[i]
  BY <1>4 DEF Front
<1>6. DOMAIN Front(s) = 1 .. Len(s) - 1
  BY <1>5
<1> QED
  BY <1>1, <1>5, <1>6 DEF Last

LEMMA NewLast ==
    ASSUME NEW S, NEW s \in Seq(S), s # <<>>, NEW x \in S
    PROVE  LET q == Front(s) \o <<x>>
           IN  /\ q \in Seq(S) /\ Len(q) = Len(s) /\ DOMAIN q = 1 .. Len(s)
               /\ q[Len(s)] = x
               /\ \A i \in 1 .. Len(s) - 1 : q[i] = s[i]
<1> DEFINE f == Front(s)
<1>1. /\ f \in Seq(S) /\ Len(f) = Len(s) - 1 /\ Len(s) \in Nat \ {0}
      /\ \A i \in 1 .. Len(s) - 1 : f[i] = s[i]
  BY FrontAndLast
<1> HIDE DEF f
<1> QED
  <2>1. f \o <<x>> \in Seq(S) /\ Len(f \o <<x>>) = Len(f) + 1
    BY <1>1
  <2>2. (f \o <<x>>)[Len(f) + 1] = x /\ \A i \in 1 .. Len(f) : (f \o <<x>>)[i] = f[i]
    BY <1>1
  <2> QED
    BY <1>1, <2>1, <2>2 DEF f

LEMMA Pushed ==
    ASSUME NEW S, NEW s \in Seq(S), NEW x \in S
    PROVE  LET q == Append(s, x)
           IN  /\ q \in Seq(S) /\ Len(q) = Len(s) + 1 /\ Len(s) \in Nat
               /\ DOMAIN q = 1 .. Len(s) + 1
               /\ q[Len(s) + 1] = x
               /\ \A i \in 1 .. Len(s) : q[i] = s[i]
OBVIOUS

LEMMA AppendIsConcat ==
    ASSUME NEW S, NEW s \in Seq(S), NEW x \in S
    PROVE  s \o <<x>> = Append(s, x)
OBVIOUS

-----------------------------------------------------------------------------
(* The hash map.                                                           *)

BucketsTyped == buckets \in [0 .. Length - 1 -> Seq(Keys)]

LEMMA BucketExists ==
    ASSUME NEW k \in Keys
    PROVE  BucketOf(k) \in 0 .. Length - 1
BY HashMapAssumption DEF BucketOf

LEMMA NodeAdded ==
    ASSUME BucketsTyped, NEW k \in Keys, AddNode(k)
    PROVE  /\ BucketsTyped'
           /\ Listed(k)'
           /\ \A n \in Keys \ {k} : Listed(n)' <=> Listed(n)
<1> DEFINE b == BucketOf(k)
           q == <<k>> \o buckets[b]
<1>1. b \in 0 .. Length - 1 /\ buckets[b] \in Seq(Keys)
  BY BucketExists DEF BucketsTyped
<1>2. buckets' = [buckets EXCEPT ![b] = q]
  BY DEF AddNode
<1>3. /\ q \in Seq(Keys) /\ q[1] = k /\ DOMAIN q = 1 .. Len(buckets[b]) + 1
      /\ \A i \in 1 .. Len(buckets[b]) : q[i + 1] = buckets[b][i]
      /\ Len(buckets[b]) \in Nat /\ DOMAIN buckets[b] = 1 .. Len(buckets[b])
  BY <1>1
<1>4. BucketsTyped'
  BY <1>1, <1>2, <1>3 DEF BucketsTyped
<1>5. Listed(k)'
  BY <1>1, <1>2, <1>3 DEF BucketsTyped, Listed, BucketOf
<1>6. ASSUME NEW n \in Keys \ {k} PROVE Listed(n)' <=> Listed(n)
  <2>1. BucketOf(n) \in 0 .. Length - 1
    BY BucketExists
  <2>2. CASE BucketOf(n) # b
    BY <1>2, <2>1, <2>2 DEF BucketsTyped, Listed, BucketOf
  <2>3. CASE BucketOf(n) = b
    <3>1. buckets'[b] = q
      BY <1>1, <1>2 DEF BucketsTyped
    <3>2. ASSUME NEW i \in DOMAIN q, q[i] = n PROVE \E j \in DOMAIN buckets[b] : buckets[b][j] = n
      <4>1. i # 1
        BY <1>3, <3>2
      <4>2. i - 1 \in 1 .. Len(buckets[b]) /\ q[(i - 1) + 1] = buckets[b][i - 1]
        BY <1>3, <3>2, <4>1
      <4> QED
        BY <1>3, <3>2, <4>2
    <3>3. ASSUME NEW j \in DOMAIN buckets[b], buckets[b][j] = n PROVE \E i \in DOMAIN q : q[i] = n
      <4>1. j + 1 \in DOMAIN q /\ q[j + 1] = n
        BY <1>3, <3>3
      <4> QED
        BY <4>1
    <3> QED
      BY <2>3, <3>1, <3>2, <3>3 DEF Listed, BucketOf
  <2> QED
    BY <2>2, <2>3
<1> QED
  BY <1>4, <1>5, <1>6

LEMMA Removed ==
    ASSUME NEW S, NEW s \in Seq(S), NEW i \in DOMAIN s
    PROVE  /\ RemoveAt(s, i) \in Seq(S)
           /\ Len(RemoveAt(s, i)) = Len(s) - 1
           /\ \A j \in 1 .. i - 1 : RemoveAt(s, i)[j] = s[j]
           /\ \A j \in i .. Len(s) - 1 : RemoveAt(s, i)[j] = s[j + 1]
<1> DEFINE a == SubSeq(s, 1, i - 1)
           z == SubSeq(s, i + 1, Len(s))
<1>1. i \in 1 .. Len(s) /\ Len(s) \in Nat
  OBVIOUS
<1>2. a \in Seq(S) /\ Len(a) = i - 1 /\ \A j \in 1 .. i - 1 : a[j] = s[j]
  BY <1>1
<1>3. z \in Seq(S) /\ Len(z) = Len(s) - i /\ \A j \in 1 .. Len(s) - i : z[j] = s[j + i]
  BY <1>1
<1> HIDE DEF a, z
<1>4. /\ a \o z \in Seq(S) /\ Len(a \o z) = Len(s) - 1
      /\ \A j \in 1 .. i - 1 : (a \o z)[j] = a[j]
      /\ \A j \in i .. Len(s) - 1 : (a \o z)[j] = z[j - i + 1]
  BY <1>1, <1>2, <1>3
<1>5. \A j \in i .. Len(s) - 1 : j - i + 1 \in 1 .. Len(s) - i /\ (j - i + 1) + i = j + 1
  BY <1>1
<1> QED
  BY <1>2, <1>3, <1>4, <1>5 DEF RemoveAt, a, z

Has(s, x) == \E j \in DOMAIN s : s[j] = x

\* A sequence without one of its elements has the same others.
LEMMA OthersStay ==
    ASSUME NEW S, NEW s \in Seq(S), NEW i \in DOMAIN s, NEW x, x # s[i]
    PROVE  Has(RemoveAt(s, i), x) <=> Has(s, x)
<1> DEFINE q == RemoveAt(s, i)
<1>1. /\ q \in Seq(S) /\ Len(q) = Len(s) - 1
      /\ \A j \in 1 .. i - 1 : q[j] = s[j]
      /\ \A j \in i .. Len(s) - 1 : q[j] = s[j + 1]
  BY Removed
<1> HIDE DEF q
<1>2. DOMAIN q = 1 .. Len(s) - 1 /\ DOMAIN s = 1 .. Len(s) /\ Len(s) \in Nat /\ i \in 1 .. Len(s)
  BY <1>1
<1>3. ASSUME NEW j \in DOMAIN q, q[j] = x PROVE \E k \in DOMAIN s : s[k] = x
  <2>1. CASE j < i
    BY <1>1, <1>2, <1>3, <2>1
  <2>2. CASE j >= i
    <3>1. j \in i .. Len(s) - 1 /\ j + 1 \in DOMAIN s
      BY <1>2, <2>2
    <3>2. s[j + 1] = x
      BY <1>1, <1>3, <3>1
    <3> QED
      BY <3>1, <3>2
  <2> QED
    BY <1>2, <2>1, <2>2
<1>4. ASSUME NEW k \in DOMAIN s, s[k] = x PROVE \E j \in DOMAIN q : q[j] = x
  <2>1. k # i
    BY <1>4
  <2>2. CASE k < i
    <3>1. k \in 1 .. i - 1 /\ k \in DOMAIN q
      BY <1>2, <2>2
    <3> QED
      BY <1>1, <1>4, <3>1
  <2>3. CASE k > i
    <3>1. k - 1 \in i .. Len(s) - 1 /\ (k - 1) + 1 = k /\ k - 1 \in DOMAIN q
      BY <1>2, <2>3
    <3>2. q[k - 1] = s[(k - 1) + 1]
      BY <1>1, <3>1
    <3> QED
      BY <1>4, <3>1, <3>2
  <2> QED
    BY <1>2, <2>1, <2>2, <2>3
<1> QED
  BY <1>3, <1>4 DEF q, Has

LEMMA NodeDeleted ==
    ASSUME BucketsTyped, NEW k \in Keys, Delete(k)
    PROVE  /\ BucketsTyped'
           /\ \A n \in Keys \ {k} : Listed(n)' <=> Listed(n)
           /\ Listed(k)' => Listed(k)
<1> DEFINE b == BucketOf(k)
<1>1. CASE ~Listed(k)
  <2>1. buckets' = buckets
    BY <1>1 DEF Delete
  <2> QED
    BY <2>1 DEF BucketsTyped, Listed, BucketOf
<1>2. CASE Listed(k)
  <2>1. PICK i \in DOMAIN buckets[b] : /\ buckets[b][i] = k
                                      /\ buckets' = [buckets EXCEPT ![b] = RemoveAt(buckets[b], i)]
    BY <1>2 DEF Delete
  <2>2. b \in 0 .. Length - 1 /\ buckets[b] \in Seq(Keys)
    BY BucketExists DEF BucketsTyped
  <2>3. RemoveAt(buckets[b], i) \in Seq(Keys)
    BY <2>1, <2>2, Removed
  <2>4. BucketsTyped'
    BY <2>1, <2>2, <2>3 DEF BucketsTyped
  <2>5. ASSUME NEW n \in Keys \ {k} PROVE Listed(n)' <=> Listed(n)
    <3>1. BucketOf(n) \in 0 .. Length - 1
      BY BucketExists
    <3>2. CASE BucketOf(n) # b
      BY <2>1, <3>1, <3>2 DEF BucketsTyped, Listed, BucketOf
    <3>3. CASE BucketOf(n) = b
      <4>1. buckets'[b] = RemoveAt(buckets[b], i)
        BY <2>1, <2>2 DEF BucketsTyped
      <4>2. n # buckets[b][i]
        BY <2>1, <2>5
      <4>3. Has(RemoveAt(buckets[b], i), n) <=> Has(buckets[b], n)
        BY <2>1, <2>2, <4>2, OthersStay
      <4> QED
        BY <3>3, <4>1, <4>3 DEF Listed, BucketOf, Has
    <3> QED
      BY <3>2, <3>3
  <2> QED
    BY <1>2, <2>4, <2>5
<1> QED
  BY <1>1, <1>2

\* The first part of MapSound.
OncePerBucket ==
    \A b \in DOMAIN buckets : \A i, j \in DOMAIN buckets[b] :
        /\ BucketOf(buckets[b][i]) = b
        /\ buckets[b][i] = buckets[b][j] => i = j

ListedKeys == {k \in Keys : Listed(k)}

MapInv ==
    /\ BucketsTyped
    /\ stale \subseteq 0 .. Length - 1
    /\ overlaid \in BOOLEAN /\ crashed \in BOOLEAN
    /\ failures \in 0 .. MaxFailures
    /\ MapSound

LEMMA ListedIsFinite == IsFiniteSet(ListedKeys)
BY HashMapAssumption, FS_Subset DEF ListedKeys

LEMMA AddKeepsOnce ==
    ASSUME BucketsTyped, OncePerBucket, NEW k \in Keys, ~Listed(k), AddNode(k)
    PROVE  OncePerBucket'
<1> DEFINE b == BucketOf(k)
           s == buckets[b]
           q == <<k>> \o s
<1>1. b \in 0 .. Length - 1 /\ s \in Seq(Keys) /\ DOMAIN buckets = 0 .. Length - 1
  BY BucketExists DEF BucketsTyped
<1>2. buckets' = [buckets EXCEPT ![b] = q]
  BY DEF AddNode
<1>3. /\ q[1] = k /\ DOMAIN q = 1 .. Len(s) + 1
      /\ \A i \in 1 .. Len(s) : q[i + 1] = s[i]
      /\ Len(s) \in Nat /\ DOMAIN s = 1 .. Len(s)
  BY <1>1
<1>4. /\ \A i \in DOMAIN s : s[i] # k
      /\ \A i, j \in DOMAIN s : BucketOf(s[i]) = b /\ (s[i] = s[j] => i = j)
  BY <1>1 DEF Listed, OncePerBucket
<1>5. \A i \in DOMAIN q : i # 1 => i - 1 \in DOMAIN s /\ q[i] = s[i - 1]
  <2>1. ASSUME NEW i \in DOMAIN q, i # 1 PROVE i - 1 \in 1 .. Len(s) /\ (i - 1) + 1 = i
    BY <1>3, <2>1
  <2> QED
    BY <1>3, <2>1
<1> HIDE DEF q, s
<1>6. ASSUME NEW i \in DOMAIN q, NEW j \in DOMAIN q PROVE BucketOf(q[i]) = b /\ (q[i] = q[j] => i = j)
  <2>1. CASE i = 1
    <3>1. BucketOf(q[i]) = b
      BY <1>3, <2>1
    <3>2. j # 1 => q[j] # k
      BY <1>4, <1>5
    <3> QED
      BY <1>3, <2>1, <3>1, <3>2
  <2>2. CASE i # 1 /\ j = 1
    BY <1>3, <1>4, <1>5, <2>2
  <2>3. CASE i # 1 /\ j # 1
    <3>1. i - 1 \in DOMAIN s /\ j - 1 \in DOMAIN s /\ q[i] = s[i - 1] /\ q[j] = s[j - 1]
      BY <1>5, <2>3
    <3>2. BucketOf(q[i]) = b /\ (q[i] = q[j] => i - 1 = j - 1)
      BY <1>4, <3>1
    <3>3. i \in Nat /\ j \in Nat
      BY <1>3
    <3> QED
      BY <3>2, <3>3
  <2> QED
    BY <2>1, <2>2, <2>3
<1>7. ASSUME NEW c \in DOMAIN buckets', NEW i \in DOMAIN buckets'[c], NEW j \in DOMAIN buckets'[c]
      PROVE  BucketOf(buckets'[c][i]) = c /\ (buckets'[c][i] = buckets'[c][j] => i = j)
  <2>1. CASE c = b
    BY <1>1, <1>2, <1>6, <1>7, <2>1
  <2>2. CASE c # b
    <3>1. c \in DOMAIN buckets /\ buckets'[c] = buckets[c]
      BY <1>1, <1>2, <2>2
    <3> QED
      BY <1>7, <3>1 DEF OncePerBucket
  <2> QED
    BY <2>1, <2>2
<1> QED
  BY <1>7 DEF OncePerBucket, BucketOf

LEMMA PutKeepsMap ==
    ASSUME MapInv, NEW k \in Keys, Put(k)
    PROVE  /\ MapInv'
           /\ overlaid' = overlaid /\ stale' = stale
           /\ crashed => crashed'
           /\ failures <= failures'
           /\ \A n \in Keys \ {k} : Listed(n)' <=> Listed(n)
           /\ Listed(k) => Listed(k)'
           /\ crashed' \/ failures < failures' \/ Listed(k)'
           /\ (crashed' /\ ~crashed) => Full \/ Strays(k)
           /\ (crashed' /\ ~crashed) => numEntries' = numEntries
<1> DEFINE unexpanded == IF Full THEN 1 ELSE 0
<1>0. /\ BucketsTyped /\ OncePerBucket
      /\ numEntries = Cardinality(ListedKeys)
      /\ failures \in Nat /\ MaxFailures \in Nat
  BY HashMapAssumption DEF MapInv, MapSound, OncePerBucket, ListedKeys
<1>1. CASE (Full \/ Strays(k)) /\ Crash /\ UNCHANGED failures
  <2>1. UNCHANGED <<buckets, numEntries, stale, overlaid, failures>> /\ crashed'
    BY <1>1 DEF Crash
  <2>2. \A n \in Keys : Listed(n)' <=> Listed(n)
    BY <2>1 DEF Listed, BucketOf
  <2>3. MapSound'
    BY <2>1 DEF MapInv, MapSound, Listed, BucketOf
  <2> QED
    BY <1>0, <1>1, <2>1, <2>2, <2>3 DEF MapInv, BucketsTyped
<1>2. CASE /\ ~Strays(k) /\ AllocationsFail(unexpanded)
           /\ IF Listed(k) THEN UNCHANGED <<buckets, numEntries>> ELSE AddNode(k)
           /\ UNCHANGED <<stale, overlaid, crashed>>
  <2>1. failures' \in 0 .. MaxFailures /\ failures <= failures'
    BY <1>0, <1>2 DEF AllocationsFail
  <2>2. CASE Listed(k) /\ UNCHANGED <<buckets, numEntries>>
    <3>1. \A n \in Keys : Listed(n)' <=> Listed(n)
      BY <2>2 DEF Listed, BucketOf
    <3>2. MapSound'
      BY <1>2, <2>2 DEF MapInv, MapSound, Listed, BucketOf
    <3> QED
      BY <1>2, <2>1, <2>2, <3>1, <3>2 DEF MapInv, BucketsTyped
  <2>3. CASE ~Listed(k) /\ AddNode(k)
    <3>1. BucketsTyped' /\ Listed(k)' /\ \A n \in Keys \ {k} : Listed(n)' <=> Listed(n)
      BY <1>0, <2>3, NodeAdded
    <3>2. OncePerBucket'
      BY <1>0, <2>3, AddKeepsOnce
    <3>3. ListedKeys' = ListedKeys \cup {k} /\ k \notin ListedKeys
      BY <2>3, <3>1 DEF ListedKeys
    <3>4. Cardinality(ListedKeys') = Cardinality(ListedKeys) + 1
      BY <3>3, ListedIsFinite, FS_AddElement
    <3>5. numEntries' = Cardinality(ListedKeys')
      BY <1>0, <2>3, <3>4 DEF AddNode
    <3>6. MapSound'
      BY <1>2, <3>2, <3>5 DEF MapSound, OncePerBucket, ListedKeys, MapInv
    <3> QED
      BY <1>2, <2>1, <3>1, <3>6 DEF MapInv
  <2> QED
    BY <1>2, <2>2, <2>3
<1>3. CASE /\ ~Strays(k) /\ ~Listed(k) /\ AllocationsFail(unexpanded + 1)
           /\ UNCHANGED <<buckets, numEntries, stale, overlaid, crashed>>
  <2>1. failures' \in 0 .. MaxFailures /\ failures < failures'
    BY <1>0, <1>3 DEF AllocationsFail
  <2>2. \A n \in Keys : Listed(n)' <=> Listed(n)
    BY <1>3 DEF Listed, BucketOf
  <2>3. MapSound'
    BY <1>3 DEF MapInv, MapSound, Listed, BucketOf
  <2> QED
    BY <1>0, <1>3, <2>1, <2>2, <2>3 DEF MapInv, BucketsTyped
<1> QED
  BY <1>1, <1>2, <1>3 DEF Put

LEMMA DeleteKeepsMap ==
    ASSUME MapInv, NEW k \in Keys, Delete(k), crashed' = TRUE, overlaid' = overlaid,
           failures' \in 0 .. MaxFailures
    PROVE  MapInv'
<1> DEFINE b == BucketOf(k)
           s == buckets[b]
<1>0. /\ BucketsTyped /\ OncePerBucket /\ BucketsTyped'
      /\ numEntries = Cardinality(ListedKeys)
      /\ \A n \in Keys \ {k} : Listed(n)' <=> Listed(n)
  BY NodeDeleted DEF MapInv, MapSound, OncePerBucket, ListedKeys
<1>1. CASE ~Listed(k)
  <2>1. UNCHANGED <<buckets, numEntries, stale>>
    BY <1>1 DEF Delete
  <2>2. MapSound'
    BY <2>1 DEF MapInv, MapSound, Listed, BucketOf
  <2> QED
    BY <1>0, <2>1, <2>2 DEF MapInv
<1>2. CASE Listed(k)
  <2>1. b \in 0 .. Length - 1 /\ s \in Seq(Keys) /\ DOMAIN buckets = 0 .. Length - 1
    BY <1>0, BucketExists DEF BucketsTyped
  <2>2. PICK i \in DOMAIN s : s[i] = k /\ buckets' = [buckets EXCEPT ![b] = RemoveAt(s, i)]
    BY <1>2 DEF Delete
  <2> DEFINE q == RemoveAt(s, i)
             old(j) == IF j < i THEN j ELSE j + 1
  <2>3. /\ q \in Seq(Keys) /\ Len(q) = Len(s) - 1
        /\ \A j \in 1 .. i - 1 : q[j] = s[j]
        /\ \A j \in i .. Len(s) - 1 : q[j] = s[j + 1]
    BY <2>1, Removed
  <2>4. DOMAIN q = 1 .. Len(s) - 1 /\ DOMAIN s = 1 .. Len(s) /\ Len(s) \in Nat /\ i \in 1 .. Len(s)
    BY <2>1, <2>3
  <2>5. /\ \A j \in DOMAIN s : BucketOf(s[j]) = b
        /\ \A j, m \in DOMAIN s : s[j] = s[m] => j = m
    BY <1>0, <2>1 DEF OncePerBucket
  <2> HIDE DEF q, s, b
  <2>6. ASSUME NEW j \in DOMAIN q PROVE old(j) \in DOMAIN s \ {i} /\ q[j] = s[old(j)]
    BY <2>3, <2>4
  <2>7. ASSUME NEW j \in DOMAIN q, NEW m \in DOMAIN q PROVE BucketOf(q[j]) = b /\ (q[j] = q[m] => j = m)
    <3>1. BucketOf(q[j]) = b /\ (q[j] = q[m] => old(j) = old(m))
      BY <2>5, <2>6
    <3>2. old(j) = old(m) => j = m
      BY <2>4
    <3> QED
      BY <3>1, <3>2
  <2>8. OncePerBucket'
    <3>1. ASSUME NEW c \in DOMAIN buckets', NEW j \in DOMAIN buckets'[c], NEW m \in DOMAIN buckets'[c]
          PROVE  BucketOf(buckets'[c][j]) = c /\ (buckets'[c][j] = buckets'[c][m] => j = m)
      <4>1. CASE c = b
        BY <2>1, <2>2, <2>7, <3>1, <4>1 DEF q
      <4>2. CASE c # b
        <5>1. c \in DOMAIN buckets /\ buckets'[c] = buckets[c]
          BY <2>1, <2>2, <3>1, <4>2
        <5> QED
          BY <1>0, <3>1, <5>1 DEF OncePerBucket
      <4> QED
        BY <4>1, <4>2
    <3> QED
      BY <3>1 DEF OncePerBucket, BucketOf
  <2>9. ~Listed(k)'
    <3>1. buckets'[b] = q
      BY <2>1, <2>2 DEF q
    <3>2. \A j \in DOMAIN q : q[j] # k
      BY <2>2, <2>5, <2>6
    <3> QED
      BY <3>1, <3>2 DEF Listed, BucketOf, b
  <2>10. ListedKeys' = ListedKeys \ {k} /\ k \in ListedKeys
    BY <1>0, <1>2, <2>9 DEF ListedKeys
  <2>11. Cardinality(ListedKeys') = Cardinality(ListedKeys) - 1
    BY <2>10, ListedIsFinite, FS_RemoveElement
  <2>12. numEntries' = Cardinality(ListedKeys') /\ stale' \subseteq 0 .. Length - 1
    BY <1>0, <1>2, <2>1, <2>11 DEF Delete, MapInv, b
  <2>13. MapSound'
    BY <2>8, <2>12 DEF MapSound, OncePerBucket, ListedKeys
  <2> QED
    BY <1>0, <2>12, <2>13 DEF MapInv
<1> QED
  BY <1>1, <1>2

-----------------------------------------------------------------------------
(* Superclasses and interfaces.                                            *)

LEMMA ClosureIsLeast ==
    ASSUME NEW D, NEW above \in [D -> SUBSET D], NEW start \in SUBSET D
    PROVE  /\ start \subseteq Closure(start, above)
           /\ Closure(start, above) \subseteq D
           /\ \A k \in Closure(start, above) : above[k] \subseteq Closure(start, above)
           /\ \A S \in SUBSET D : (start \subseteq S /\ \A k \in S : above[k] \subseteq S)
                                      => Closure(start, above) \subseteq S
BY DEF Closure

LEMMA ParentsAreNames ==
    ASSUME files \in FileSets
    PROVE  ParentsOf \in [Names -> SUBSET Names] /\ \A n \in Names : ParentsOf[n] = Parents(n)
<1>1. ASSUME NEW n \in Names PROVE Parents(n) \subseteq Names
  <2>1. CASE n \in HaveFiles /\ files[n].kind = "class" /\ ReadPool(files[n]) = "read"
    <3>1. \A i \in ParentIndexes(files[n]) : NameAt(files[n], i) \in Names
      BY <2>1, FilesAssumption
    <3> QED
      BY <2>1, <3>1 DEF Parents
  <2>2. CASE ~(n \in HaveFiles /\ files[n].kind = "class" /\ ReadPool(files[n]) = "read")
    BY <2>2, ClassLoaderAssumption DEF Parents, HaveFiles
  <2> QED
    BY <2>1, <2>2
<1> QED
  BY <1>1 DEF ParentsOf

\* What can be reached from a name: its parents, and theirs.
LEMMA ReachesUp ==
    ASSUME files \in FileSets, NEW n \in Names
    PROVE  /\ Parents(n) \subseteq Reaches(n)
           /\ Reaches(n) \subseteq Names
           /\ \A m \in Reaches(n) : Parents(m) \subseteq Reaches(n)
           /\ \A S \in SUBSET Names : (Parents(n) \subseteq S /\ \A k \in S : Parents(k) \subseteq S)
                                          => Reaches(n) \subseteq S
<1>1. /\ ParentsOf \in [Names -> SUBSET Names]
      /\ \A m \in Names : ParentsOf[m] = Parents(m)
      /\ Parents(n) \in SUBSET Names
  BY ParentsAreNames
<1>2. /\ Parents(n) \subseteq Reaches(n)
      /\ Reaches(n) \subseteq Names
      /\ \A k \in Reaches(n) : ParentsOf[k] \subseteq Reaches(n)
      /\ \A S \in SUBSET Names : (Parents(n) \subseteq S /\ \A k \in S : ParentsOf[k] \subseteq S)
                                     => Reaches(n) \subseteq S
  BY <1>1, ClosureIsLeast DEF Reaches
<1> QED
  BY <1>1, <1>2

-----------------------------------------------------------------------------
(* The calls of loadClass0.                                                *)

Frame == [name : Names, at : Points, next : Nat]
Working == {"super", "interfaces", "members"}

Readable(n) == n \in HaveFiles /\ files[n].kind = "class" /\ ReadPool(files[n]) = "read"

\* The class a call asks another call for, and the one the last of the calls cs
\* was for, the first being for root.
Wants(c) ==
    IF c.at = "array" THEN Object
    ELSE IF c.at = "super" THEN NameAt(files[c.name], files[c.name].super)
    ELSE NameAt(files[c.name], files[c.name].interfaces[c.next])
Wanted(cs, root) == IF cs = <<>> THEN root ELSE Wants(cs[Len(cs)])

\* A call that waits for another, or has just got its result.
Waiting(c) ==
    /\ c.at \in {"array", "super", "interfaces"}
    /\ c.at = "super" => files[c.name].super # 0
    /\ c.at = "interfaces" => c.next <= Len(files[c.name].interfaces)
    /\ Wants(c) \in Parents(c.name)

\* What a call has behind it when the classes done are finished.
FrameOK(c, done) ==
    /\ c.at = "array" => c.name \in Arrays
    /\ c.at \in Working => Readable(c.name)
    /\ c.at = "interfaces" =>
           /\ files[c.name].super # 0 => NameAt(files[c.name], files[c.name].super) \in done
           /\ c.next \in 1 .. Len(files[c.name].interfaces) + 1
           /\ \A j \in 1 .. c.next - 1 : NameAt(files[c.name], files[c.name].interfaces[j]) \in done
    /\ c.at = "members" => Parents(c.name) \subseteq done

Typed ==
    /\ MapInv
    /\ files \in FileSets
    /\ class = [n \in Names |-> class[n]]
    /\ \A n \in Names : /\ DOMAIN class[n] = DOMAIN NoClass
                        /\ class[n].status \in Status
                        /\ class[n].super \in Names \cup {Null}
    /\ complete \subseteq Names
    /\ lock \in Threads \cup {NoThread}
    /\ calls \in Seq(Frame)
    /\ result \in Names \cup {Null, NoAnswer}
    /\ asked \in [Threads -> Names \cup {NoAnswer}]
    /\ \A t \in Threads : answer[t] = NoAnswer => asked[t] \in Names
    /\ answer \in [Threads -> Names \cup {Null, NoAnswer}]
    /\ lock = NoThread => calls = <<>> /\ result = NoAnswer
    /\ lock # NoThread => answer[lock] = NoAnswer

\* Calls cs for the class root, the last of which has got the result r.
StackOK(cs, r, done, root) ==
    /\ \A i \in 1 .. Len(cs) : FrameOK(cs[i], done)
    /\ \A i \in 1 .. Len(cs) - 1 : Waiting(cs[i]) /\ cs[i + 1].name = Wants(cs[i])
    /\ cs # <<>> => cs[1].name = root
    /\ cs # <<>> /\ r # NoAnswer => Waiting(cs[Len(cs)])
    /\ r \notin {Null, NoAnswer} => r = Wanted(cs, root) /\ r \in done
    /\ \A i, j \in 1 .. Len(cs) : i < j => cs[j].name \in Reaches(cs[i].name)
Stack == StackOK(calls, result, complete, asked[lock])

\* The classes the calls cs are working on are those being loaded.
InProgress(cs) == {cs[i].name : i \in {i \in 1 .. Len(cs) : cs[i].at \in Working}}
Loading == InProgress(calls) = {n \in Names : class[n].status = "LOADING"}

Finished ==
    /\ \A n \in complete : /\ Parents(n) \subseteq complete
                           /\ n \notin Reaches(n)
                           /\ class[n].status # "none"
    /\ \A n \in Names : Listed(n) => n \in complete \/ class[n].status = "LOADING"

LoaderInv == Typed /\ Stack /\ Loading /\ Finished

\* Nothing these speak of but complete changes with a step.
LEMMA FilesStay ==
    ASSUME files' = files
    PROVE  /\ ParentsOf' = ParentsOf
           /\ \A n : Readable(n)' = Readable(n)
           /\ \A n : Parents(n)' = Parents(n)
           /\ \A n : Reaches(n)' = Reaches(n)
           /\ \A c : Wants(c)' = Wants(c)
           /\ \A c : Waiting(c)' = Waiting(c)
           /\ Stack' <=> StackOK(calls', result', complete', asked'[lock'])
<1>1. /\ ParentsOf' = ParentsOf
      /\ \A n : Readable(n)' = Readable(n)
      /\ \A n : Parents(n)' = Parents(n)
  BY DEF ParentsOf, Readable, Parents
<1>2. \A n : Reaches(n)' = Reaches(n)
  BY <1>1 DEF Reaches, Closure
<1>3. \A c : Wants(c)' = Wants(c)
  BY DEF Wants
<1>4. \A c : Waiting(c)' = Waiting(c)
  BY <1>1, <1>3 DEF Waiting
<1>5. \A c : FrameOK(c, complete)' <=> FrameOK(c, complete')
  BY <1>1 DEF FrameOK
<1>6. Stack' <=> StackOK(calls', result', complete', asked'[lock'])
  BY <1>2, <1>3, <1>4, <1>5 DEF Stack, StackOK, Wanted
<1> QED
  BY <1>1, <1>2, <1>3, <1>4, <1>6

-----------------------------------------------------------------------------
(* What the steps do to the calls.                                         *)

\* A call returns.
LEMMA CallReturns ==
    ASSUME NEW cs \in Seq(Frame), cs # <<>>, NEW r, NEW done, NEW root, StackOK(cs, r, done, root),
           NEW more, done \subseteq more,
           NEW s \in Names \cup {Null}, s # Null => s = Last(cs).name /\ s \in more
    PROVE  /\ StackOK(Front(cs), s, more, root)
           /\ Wanted(Front(cs), root) = Last(cs).name
<1> DEFINE d == Len(cs)
           q == Front(cs)
<1>1. /\ d \in Nat \ {0} /\ Last(cs) = cs[d]
      /\ q \in Seq(Frame) /\ Len(q) = d - 1
      /\ \A i \in 1 .. d - 1 : q[i] = cs[i]
      /\ s # NoAnswer
  BY FrontAndLast, ClassLoaderAssumption
<1> HIDE DEF q
<1>2. CASE d = 1
  <2>1. q = <<>> /\ cs[1].name = root
    BY <1>1, <1>2 DEF StackOK
  <2>2. Wanted(q, root) = root
    BY <2>1 DEF Wanted
  <2>3. Len(q) = 0
    BY <1>1, <1>2
  <2> QED
    BY <1>1, <1>2, <2>1, <2>2, <2>3 DEF StackOK, q
<1>3. CASE d # 1
  <2>1. /\ d - 1 \in 1 .. d - 1 /\ 1 \in 1 .. d - 1 /\ q # <<>>
        /\ q[d - 1] = cs[d - 1] /\ q[1] = cs[1]
        /\ (d - 1) + 1 = d
    BY <1>1, <1>3
  <2>2. Waiting(cs[d - 1]) /\ cs[d].name = Wants(cs[d - 1])
    BY <2>1 DEF StackOK
  <2>3. Wanted(q, root) = cs[d].name
    BY <1>1, <2>1, <2>2 DEF Wanted
  <2>4. ASSUME NEW i \in 1 .. d - 1 PROVE FrameOK(q[i], more)
    <3>1. FrameOK(cs[i], done)
      BY <1>1 DEF StackOK
    <3> QED
      BY <1>1, <3>1 DEF FrameOK
  <2>5. ASSUME NEW i \in 1 .. (d - 1) - 1 PROVE Waiting(q[i]) /\ q[i + 1].name = Wants(q[i])
    <3>1. i \in 1 .. d - 1 /\ i + 1 \in 1 .. d - 1
      BY <1>1
    <3> QED
      BY <1>1, <3>1 DEF StackOK
  <2>6. \A i, j \in 1 .. d - 1 : i < j => q[j].name \in Reaches(q[i].name)
    BY <1>1 DEF StackOK
  <2>7. q[1].name = root
    BY <1>1, <2>1 DEF StackOK
  <2>8. StackOK(q, s, more, root)
    BY <1>1, <2>1, <2>2, <2>3, <2>4, <2>5, <2>6, <2>7 DEF StackOK
  <2> QED
    BY <1>1, <2>3, <2>8 DEF q
<1> QED
  BY <1>2, <1>3

\* The last call asks for another.
LEMMA CallNests ==
    ASSUME NEW cs \in Seq(Frame), cs # <<>>, NEW done, NEW root, StackOK(cs, NoAnswer, done, root),
           files \in FileSets, NEW n \in Names, Waiting(Last(cs)), n = Wants(Last(cs))
    PROVE  /\ StackOK(Append(cs, NewCall(n)), NoAnswer, done, root)
           /\ Append(cs, NewCall(n)) \in Seq(Frame)
<1> DEFINE d == Len(cs)
           q == Append(cs, NewCall(n))
<1>1. NewCall(n) \in Frame /\ NewCall(n).name = n /\ NewCall(n).at = "lookup"
  BY DEF NewCall, Frame, Points
<1>2. /\ q \in Seq(Frame) /\ Len(q) = d + 1 /\ d \in Nat
      /\ q[d + 1] = NewCall(n) /\ \A i \in 1 .. d : q[i] = cs[i]
  BY <1>1, Pushed
<1>3. d # 0 /\ Last(cs) = cs[d]
  BY FrontAndLast
<1> HIDE DEF q
<1>4. \A i \in 1 .. d + 1 : FrameOK(q[i], done)
  <2>1. FrameOK(NewCall(n), done)
    BY <1>1 DEF FrameOK, Working
  <2>2. \A i \in 1 .. d : FrameOK(q[i], done)
    BY <1>2 DEF StackOK
  <2> QED
    BY <1>2, <2>1, <2>2
<1>5. ASSUME NEW i \in 1 .. d PROVE Waiting(q[i]) /\ q[i + 1].name = Wants(q[i])
  <2>1. CASE i = d
    BY <1>1, <1>2, <1>3, <2>1
  <2>2. CASE i # d
    <3>1. i \in 1 .. d - 1 /\ i + 1 \in 1 .. d
      BY <1>2, <2>2
    <3> QED
      BY <1>2, <3>1 DEF StackOK
  <2> QED
    BY <2>1, <2>2
<1>6. ASSUME NEW i \in 1 .. d + 1, NEW j \in 1 .. d + 1, i < j PROVE q[j].name \in Reaches(q[i].name)
  <2>1. i \in 1 .. d /\ q[i] = cs[i] /\ cs[i].name \in Names /\ cs[d].name \in Names
    <3>1. i \in 1 .. d /\ d \in 1 .. d
      BY <1>2, <1>3, <1>6
    <3>2. cs[i] \in Frame /\ cs[d] \in Frame
      BY <3>1
    <3> QED
      BY <1>2, <3>1, <3>2 DEF Frame
  <2>2. CASE j # d + 1
    <3>1. j \in 1 .. d
      BY <1>2, <2>2
    <3> QED
      BY <1>2, <1>6, <2>1, <3>1 DEF StackOK
  <2>3. CASE j = d + 1
    <3>1. q[j].name = n /\ n \in Parents(cs[d].name)
      BY <1>1, <1>2, <1>3, <2>3 DEF Waiting
    <3>2. CASE i = d
      BY <2>1, <3>1, <3>2, ReachesUp
    <3>3. CASE i # d
      <4>1. cs[d].name \in Reaches(cs[i].name)
        BY <1>2, <1>3, <2>1, <3>3 DEF StackOK
      <4> QED
        BY <2>1, <3>1, <4>1, ReachesUp
    <3> QED
      BY <3>2, <3>3
  <2> QED
    BY <2>2, <2>3
<1>7. q # <<>> /\ q[1].name = root
  BY <1>2, <1>3 DEF StackOK
<1>8. (d + 1) - 1 = d
  BY <1>2
<1> QED
  BY <1>2, <1>4, <1>5, <1>6, <1>7, <1>8 DEF StackOK, q

\* The last call goes on.
LEMMA CallGoes ==
    ASSUME NEW cs \in Seq(Frame), cs # <<>>, NEW r, NEW done, NEW root, StackOK(cs, r, done, root),
           NEW c \in Frame, c.name = Last(cs).name, FrameOK(c, done)
    PROVE  /\ StackOK(Front(cs) \o <<c>>, NoAnswer, done, root)
           /\ Front(cs) \o <<c>> \in Seq(Frame)
           /\ Front(cs) \o <<c>> # <<>>
           /\ Last(Front(cs) \o <<c>>) = c
<1> DEFINE d == Len(cs)
           q == Front(cs) \o <<c>>
<1>1. /\ q \in Seq(Frame) /\ Len(q) = d /\ q[d] = c
      /\ \A i \in 1 .. d - 1 : q[i] = cs[i]
      /\ d \in Nat \ {0} /\ Last(cs) = cs[d]
  <2>1. d \in Nat \ {0} /\ Last(cs) = cs[d]
    BY FrontAndLast
  <2> QED
    BY <2>1, NewLast
<1> HIDE DEF q
<1>2. \A i \in 1 .. d : q[i].name = cs[i].name
  BY <1>1
<1>3. \A i \in 1 .. d : FrameOK(q[i], done)
  BY <1>1 DEF StackOK
<1>4. ASSUME NEW i \in 1 .. d - 1 PROVE Waiting(q[i]) /\ q[i + 1].name = Wants(q[i])
  BY <1>1, <1>2 DEF StackOK
<1>5. q # <<>> /\ q[1].name = root
  BY <1>1, <1>2 DEF StackOK
<1>6. \A i, j \in 1 .. d : i < j => q[j].name \in Reaches(q[i].name)
  BY <1>2 DEF StackOK
<1> QED
  BY <1>1, <1>3, <1>4, <1>5, <1>6 DEF StackOK, q, Last

-----------------------------------------------------------------------------
(* What the steps do to the map and the classes.                           *)

LEMMA MapStays ==
    ASSUME MapInv, UNCHANGED <<buckets, numEntries, stale, overlaid>>,
           crashed' \in BOOLEAN, crashed => crashed', failures' \in 0 .. MaxFailures
    PROVE  MapInv' /\ \A n \in Keys : Listed(n)' <=> Listed(n)
<1>1. \A n : Listed(n)' <=> Listed(n)
  BY DEF Listed, BucketOf
<1>2. MapSound'
  BY DEF MapInv, MapSound, Listed, BucketOf
<1> QED
  BY <1>1, <1>2 DEF MapInv, BucketsTyped

LEMMA FailureCounted ==
    ASSUME MapInv, AllocationFails
    PROVE  failures' \in 0 .. MaxFailures /\ failures < failures'
BY HashMapAssumption DEF MapInv, AllocationFails, AllocationsFail

ClassesTyped ==
    /\ class = [n \in Names |-> class[n]]
    /\ \A n \in Names : /\ DOMAIN class[n] = DOMAIN NoClass
                        /\ class[n].status \in Status
                        /\ class[n].super \in Names \cup {Null}

\* A class is made anew.
LEMMA ClassMade ==
    ASSUME ClassesTyped, NEW n \in Names, NEW r, class' = [class EXCEPT ![n] = r],
           DOMAIN r = DOMAIN NoClass, r.status \in Status, r.super \in Names \cup {Null}
    PROVE  ClassesTyped' /\ class'[n] = r /\ \A m \in Names \ {n} : class'[m] = class[m]
BY DEF ClassesTyped

LEMMA RecordsMade ==
    ASSUME NEW s \in Names \cup {Null}, NEW size, NEW p
    PROVE  LET w == WithoutFile(s, size)
               b == [NoClass EXCEPT !.status = "LOADING", !.pool = p]
           IN  /\ DOMAIN w = DOMAIN NoClass /\ w.status = "INITIALIZED" /\ w.super = s
               /\ DOMAIN b = DOMAIN NoClass /\ b.status = "LOADING" /\ b.super = Null
BY DEF WithoutFile, NoClass

\* One gets its superclass, or another interface.
LEMMA ClassExtended ==
    ASSUME ClassesTyped, NEW n \in Names, NEW r \in Names,
           \/ class' = [class EXCEPT ![n].super = r]
           \/ class' = [class EXCEPT ![n].interfaces = Append(@, r)]
    PROVE  ClassesTyped' /\ \A m \in Names : class'[m].status = class[m].status
<1>1. DOMAIN class[n] = DOMAIN NoClass /\ "super" \in DOMAIN NoClass /\ "status" \in DOMAIN NoClass
  BY DEF ClassesTyped, NoClass
<1>2. PICK x : class' = [class EXCEPT ![n] = x] /\ DOMAIN x = DOMAIN class[n]
                 /\ x.status = class[n].status /\ x.super \in Names \cup {Null}
  <2>1. CASE class' = [class EXCEPT ![n].super = r]
    <3> DEFINE x == [class[n] EXCEPT !.super = r]
    <3>1. class' = [class EXCEPT ![n] = x]
      BY <2>1
    <3>2. DOMAIN x = DOMAIN class[n] /\ x.status = class[n].status /\ x.super = r
      BY <1>1
    <3> QED
      BY <3>1, <3>2
  <2>2. CASE class' = [class EXCEPT ![n].interfaces = Append(@, r)]
    <3> DEFINE x == [class[n] EXCEPT !.interfaces = Append(class[n].interfaces, r)]
    <3>1. class' = [class EXCEPT ![n] = x]
      BY <2>2
    <3>2. DOMAIN x = DOMAIN class[n] /\ x.status = class[n].status /\ x.super = class[n].super
      BY <1>1
    <3> QED
      BY <3>1, <3>2 DEF ClassesTyped
  <2> QED
    BY <2>1, <2>2
<1> QED
  BY <1>2 DEF ClassesTyped

-----------------------------------------------------------------------------
(* The classes being loaded.                                               *)

LEMMA InProgressIs ==
    ASSUME NEW cs, NEW m
    PROVE  m \in InProgress(cs) <=> \E i \in 1 .. Len(cs) : cs[i].at \in Working /\ cs[i].name = m
BY DEF InProgress

LEMMA InProgressReturns ==
    ASSUME NEW cs \in Seq(Frame), cs # <<>>
    PROVE  InProgress(cs) = InProgress(Front(cs)) \cup
                            {n \in {Last(cs).name} : Last(cs).at \in Working}
<1> DEFINE d == Len(cs)
           q == Front(cs)
<1>1. /\ d \in Nat \ {0} /\ Last(cs) = cs[d] /\ Len(q) = d - 1
      /\ \A i \in 1 .. d - 1 : q[i] = cs[i]
  BY FrontAndLast
<1> HIDE DEF q
<1>2. \A i : i \in 1 .. d <=> i \in 1 .. d - 1 \/ i = d
  BY <1>1
<1>3. ASSUME NEW m
      PROVE  m \in InProgress(cs) <=> m \in InProgress(q) \/ (cs[d].at \in Working /\ cs[d].name = m)
  <2>1. m \in InProgress(q) <=> \E i \in 1 .. d - 1 : cs[i].at \in Working /\ cs[i].name = m
    BY <1>1, InProgressIs
  <2> QED
    BY <1>2, <2>1, InProgressIs
<1> QED
  BY <1>1, <1>3 DEF q

LEMMA InProgressGoes ==
    ASSUME NEW cs \in Seq(Frame), cs # <<>>, NEW c \in Frame
    PROVE  InProgress(Front(cs) \o <<c>>) = InProgress(Front(cs)) \cup
                                           {n \in {c.name} : c.at \in Working}
<1> DEFINE d == Len(cs)
           q == Front(cs)
           p == Front(cs) \o <<c>>
<1>1. /\ d \in Nat \ {0} /\ Len(q) = d - 1
      /\ \A i \in 1 .. d - 1 : q[i] = cs[i]
  BY FrontAndLast
<1>2. Len(p) = d /\ p[d] = c /\ \A i \in 1 .. d - 1 : p[i] = cs[i]
  BY NewLast
<1> HIDE DEF q, p
<1>3. \A i : i \in 1 .. d <=> i \in 1 .. d - 1 \/ i = d
  BY <1>1
<1>4. ASSUME NEW m
      PROVE  m \in InProgress(p) <=> m \in InProgress(q) \/ (c.at \in Working /\ c.name = m)
  <2>1. m \in InProgress(q) <=> \E i \in 1 .. d - 1 : cs[i].at \in Working /\ cs[i].name = m
    BY <1>1, InProgressIs
  <2>2. m \in InProgress(p) <=> \E i \in 1 .. d : p[i].at \in Working /\ p[i].name = m
    BY <1>2, InProgressIs
  <2> QED
    BY <1>2, <1>3, <2>1, <2>2
<1> QED
  BY <1>4 DEF q, p

LEMMA InProgressNests ==
    ASSUME NEW cs \in Seq(Frame), NEW n \in Names
    PROVE  InProgress(Append(cs, NewCall(n))) = InProgress(cs)
<1> DEFINE d == Len(cs)
           q == Append(cs, NewCall(n))
<1>1. NewCall(n) \in Frame /\ NewCall(n).at \notin Working
  BY DEF NewCall, Frame, Points, Working
<1>2. Len(q) = d + 1 /\ d \in Nat /\ q[d + 1] = NewCall(n) /\ \A i \in 1 .. d : q[i] = cs[i]
  BY <1>1, Pushed
<1> HIDE DEF q
<1>3. \A i : i \in 1 .. d + 1 <=> i \in 1 .. d \/ i = d + 1
  BY <1>2
<1>4. ASSUME NEW m PROVE m \in InProgress(q) <=> m \in InProgress(cs)
  <2>1. m \in InProgress(q) <=> \E i \in 1 .. d + 1 : q[i].at \in Working /\ q[i].name = m
    BY <1>2, InProgressIs
  <2> QED
    BY <1>1, <1>2, <1>3, <2>1, InProgressIs
<1> QED
  BY <1>4 DEF q

-----------------------------------------------------------------------------
(* The invariant, before a step of loadClass0.                             *)

LEMMA InCall ==
    ASSUME LoaderInv, calls # <<>>
    PROVE  /\ Here \in Frame /\ Here.name \in Names /\ Here.at \in Points /\ Here.next \in Nat
           /\ FrameOK(Here, complete)
           /\ lock \in Threads /\ answer[lock] = NoAnswer /\ asked[lock] \in Names
           /\ result # NoAnswer => Waiting(Here)
           /\ result \notin {Null, NoAnswer} => result = Wants(Here) /\ result \in complete
           /\ StackOK(calls, result, complete, asked[lock])
           /\ \A i \in 1 .. Len(calls) - 1 : Here.name \in Reaches(calls[i].name)
<1> DEFINE d == Len(calls)
<1>1. /\ Typed /\ Stack /\ StackOK(calls, result, complete, asked[lock])
      /\ calls \in Seq(Frame)
  BY DEF LoaderInv, Typed, Stack
<1>2. /\ d \in Nat \ {0} /\ d \in 1 .. d /\ Here = calls[d] /\ Here \in Frame
      /\ \A i \in 1 .. d - 1 : i \in 1 .. d /\ i < d
  BY <1>1, FrontAndLast DEF Here
<1>3. Here.name \in Names /\ Here.at \in Points /\ Here.next \in Nat
  BY <1>2 DEF Frame
<1>4. FrameOK(Here, complete)
  BY <1>1, <1>2 DEF StackOK
<1>5. lock \in Threads /\ answer[lock] = NoAnswer /\ asked[lock] \in Names
  BY <1>1 DEF Typed
<1>6. result # NoAnswer => Waiting(Here)
  BY <1>1, <1>2 DEF StackOK
<1>7. result \notin {Null, NoAnswer} => result = Wants(Here) /\ result \in complete
  BY <1>1, <1>2 DEF StackOK, Wanted
<1>8. \A i \in 1 .. d - 1 : Here.name \in Reaches(calls[i].name)
  BY <1>1, <1>2 DEF StackOK
<1> QED
  BY <1>1, <1>2, <1>3, <1>4, <1>5, <1>6, <1>7, <1>8

\* At the look-up nothing has been returned yet.
LEMMA NothingReturned ==
    ASSUME LoaderInv, calls # <<>>, Here.at \in {"lookup", "members"}
    PROVE  result = NoAnswer
BY InCall DEF Waiting

LEMMA TypedStays ==
    ASSUME Typed, calls # <<>>, UNCHANGED callVars, MapInv', ClassesTyped',
           complete' \subseteq Names, calls' \in Seq(Frame), result' \in Names \cup {Null, NoAnswer}
    PROVE  Typed'
BY DEF Typed, callVars, ClassesTyped

LEMMA StackStays ==
    ASSUME UNCHANGED callVars, StackOK(calls', result', complete', asked[lock])
    PROVE  Stack'
BY FilesStay DEF callVars

\* Nothing is finished by the step.
LEMMA FinishedStays ==
    ASSUME Finished, UNCHANGED <<files, complete>>,
           \A n \in complete : class[n].status # "none" => class'[n].status # "none",
           \A n \in Names : Listed(n)' => n \in complete \/ class'[n].status = "LOADING"
    PROVE  Finished'
<1>1. \A n : Parents(n)' = Parents(n) /\ Reaches(n)' = Reaches(n)
  BY FilesStay
<1> QED
  BY <1>1 DEF Finished

\* A class whose parents are finished is none of its ancestors.
LEMMA NotItsAncestor ==
    ASSUME LoaderInv, NEW n \in Names, Parents(n) \subseteq complete
    PROVE  n \notin Reaches(n)
<1>1. files \in FileSets /\ complete \subseteq Names
  BY DEF LoaderInv, Typed
<1>2. \A k \in complete : Parents(k) \subseteq complete /\ k \notin Reaches(k)
  BY DEF LoaderInv, Finished
<1>3. Reaches(n) \subseteq complete
  BY <1>1, <1>2, ReachesUp
<1> QED
  BY <1>2, <1>3

\* The class of the last call is finished by the step.
LEMMA FinishedGrows ==
    ASSUME LoaderInv, NEW n \in Names, Parents(n) \subseteq complete, UNCHANGED files,
           complete' = complete \cup {n}, class'[n].status # "none",
           \A m \in Names \ {n} : class'[m] = class[m] /\ (Listed(m)' => Listed(m))
    PROVE  Finished'
<1>1. \A m : Parents(m)' = Parents(m) /\ Reaches(m)' = Reaches(m)
  BY FilesStay
<1>2. n \notin Reaches(n) /\ complete \subseteq Names
  BY NotItsAncestor DEF LoaderInv, Typed
<1> QED
  BY <1>1, <1>2 DEF LoaderInv, Finished

LEMMA LoadingShrinks ==
    ASSUME LoaderInv, calls # <<>>, Parents(Here.name) \subseteq complete,
           calls' = Front(calls), class'[Here.name].status # "LOADING",
           \A m \in Names \ {Here.name} : class'[m] = class[m]
    PROVE  Loading'
<1> DEFINE n == Here.name
           p == InProgress(Front(calls))
<1>1. calls \in Seq(Frame) /\ n \in Names /\ n \notin Reaches(n)
  BY InCall, NotItsAncestor DEF LoaderInv, Typed
<1>2. n \notin p
  <2>1. SUFFICES ASSUME NEW i \in 1 .. Len(Front(calls)), Front(calls)[i].name = n PROVE FALSE
    BY InProgressIs
  <2>2. i \in 1 .. Len(calls) - 1 /\ calls[i].name = n
    BY <1>1, <2>1, FrontAndLast
  <2> QED
    BY <1>1, <2>2, InCall
<1>3. InProgress(calls) = p \cup {x \in {n} : Here.at \in Working}
  BY <1>1, InProgressReturns DEF Here
<1>4. InProgress(calls) = {m \in Names : class[m].status = "LOADING"}
  BY DEF LoaderInv, Loading
<1> HIDE DEF p
<1>5. p = {m \in Names : class'[m].status = "LOADING"}
  BY <1>1, <1>2, <1>3, <1>4
<1> QED
  BY <1>5 DEF Loading, p

-----------------------------------------------------------------------------
(* What a step of loadClass0 keeps of the invariant.                       *)

LEMMA CrashKeeps ==
    ASSUME LoaderInv, calls # <<>>, MapInv', UNCHANGED <<loadVars, callVars>>,
           \A n \in Names : Listed(n)' => Listed(n)
    PROVE  LoaderInv'
<1>1. UNCHANGED <<class, complete, calls, result>> /\ UNCHANGED callVars /\ files' = files
  BY DEF loadVars, callVars
<1>2. Typed'
  BY <1>1 DEF LoaderInv, Typed, callVars
<1>3. Stack'
  BY <1>1, StackStays DEF LoaderInv, Stack
<1>4. Loading'
  BY <1>1 DEF LoaderInv, Loading, InProgress
<1>5. Finished'
  BY <1>1, FinishedStays DEF LoaderInv, Finished
<1> QED
  BY <1>2, <1>3, <1>4, <1>5 DEF LoaderInv

\* A call returns without finishing a class.
LEMMA ReturnKeeps ==
    ASSUME LoaderInv, calls # <<>>, Here.at \notin Working, MapInv',
           UNCHANGED <<class, complete, callVars>>, \A n \in Names : Listed(n)' => Listed(n),
           NEW s \in Names \cup {Null}, s # Null => s = Here.name /\ s \in complete, Return(s)
    PROVE  LoaderInv'
<1>1. UNCHANGED <<class, complete>> /\ UNCHANGED callVars /\ files' = files /\ calls \in Seq(Frame)
  BY DEF LoaderInv, Typed, callVars
<1>2. calls' = Front(calls) /\ result' = s /\ Front(calls) \in Seq(Frame)
  BY <1>1, FrontAndLast DEF Return
<1>3. Typed'
  BY <1>1, <1>2, TypedStays DEF LoaderInv, Typed, ClassesTyped
<1>4. Stack'
  <2>1. StackOK(Front(calls), s, complete, asked[lock])
    BY <1>1, InCall, CallReturns DEF Here
  <2> QED
    BY <1>1, <1>2, <2>1, StackStays
<1>5. Loading'
  <2>1. InProgress(calls) = InProgress(calls')
    BY <1>1, <1>2, InProgressReturns DEF Here
  <2> QED
    BY <1>1, <2>1 DEF LoaderInv, Loading
<1>6. Finished'
  BY <1>1, FinishedStays DEF LoaderInv, Finished
<1> QED
  BY <1>3, <1>4, <1>5, <1>6 DEF LoaderInv

\* A call returns and its class is finished.
LEMMA FinishKeeps ==
    ASSUME LoaderInv, calls # <<>>, Parents(Here.name) \subseteq complete, MapInv', ClassesTyped',
           \A n \in Names \ {Here.name} : class'[n] = class[n] /\ (Listed(n)' => Listed(n)),
           class'[Here.name].status \notin {"none", "LOADING"},
           complete' = complete \cup {Here.name}, Return(Here.name), UNCHANGED callVars
    PROVE  LoaderInv'
<1>1. files' = files /\ calls \in Seq(Frame) /\ Here.name \in Names /\ complete' \subseteq Names
  BY InCall DEF LoaderInv, Typed, callVars
<1>2. calls' = Front(calls) /\ result' = Here.name /\ Front(calls) \in Seq(Frame)
  BY <1>1, FrontAndLast DEF Return
<1>3. Typed'
  BY <1>1, <1>2, TypedStays DEF LoaderInv
<1>4. Stack'
  <2>1. Here.name \in complete' /\ complete \subseteq complete'
    OBVIOUS
  <2>2. StackOK(Front(calls), Here.name, complete', asked[lock])
    BY <1>1, <2>1, InCall, CallReturns DEF Here
  <2> QED
    BY <1>2, <2>2, StackStays
<1>5. Loading'
  BY <1>2, LoadingShrinks
<1>6. Finished'
  BY <1>1, FinishedGrows
<1> QED
  BY <1>3, <1>4, <1>5, <1>6 DEF LoaderInv

\* A call goes on within parseClassFile, and its class stays in the making.
LEMMA GoKeeps ==
    ASSUME LoaderInv, calls # <<>>, Here.at \in Working, NEW point \in Working, NEW next \in Nat,
           FrameOK([Here EXCEPT !.at = point, !.next = next], complete), Goto(point, next),
           result' = NoAnswer, UNCHANGED <<mapVars, complete, callVars>>, ClassesTyped',
           \A n \in Names : class'[n].status = class[n].status
    PROVE  LoaderInv'
<1> DEFINE c == [Here EXCEPT !.at = point, !.next = next]
<1>1. UNCHANGED complete /\ UNCHANGED callVars /\ files' = files /\ calls \in Seq(Frame)
  BY DEF LoaderInv, Typed, callVars
<1>2. /\ calls' = Front(calls) \o <<c>>
      /\ c \in Frame /\ c.name = Here.name /\ c.at = point
  BY InCall DEF Goto, Frame, Working, Points
<1>3. FrameOK(c, complete)
  OBVIOUS
<1> HIDE DEF c
<1>4. MapInv' /\ \A n \in Names : Listed(n)' <=> Listed(n)
  BY MapStays DEF LoaderInv, Typed, mapVars, MapInv, Names
<1>5. StackOK(calls', NoAnswer, complete, asked[lock]) /\ calls' \in Seq(Frame)
  BY <1>1, <1>2, <1>3, InCall, CallGoes DEF Here
<1>6. Typed'
  BY <1>1, <1>4, <1>5, TypedStays DEF LoaderInv, Typed
<1>7. Stack'
  BY <1>1, <1>5, StackStays
<1>8. Loading'
  <2>1. InProgress(calls) = InProgress(Front(calls)) \cup {Here.name}
    BY <1>1, InProgressReturns DEF Here
  <2>2. InProgress(calls') = InProgress(Front(calls)) \cup {Here.name}
    BY <1>1, <1>2, InProgressGoes
  <2> QED
    BY <2>1, <2>2 DEF LoaderInv, Loading
<1>9. Finished'
  BY <1>1, <1>4, InCall, FinishedStays DEF LoaderInv, Finished, Typed
<1> QED
  BY <1>6, <1>7, <1>8, <1>9 DEF LoaderInv

\* A call asks for another class.
LEMMA CallKeeps ==
    ASSUME LoaderInv, calls # <<>>, result = NoAnswer, NEW n \in Names, Call(n),
           Waiting(Here), n = Wants(Here), UNCHANGED <<mapVars, class, complete, callVars>>
    PROVE  LoaderInv'
<1>1. /\ UNCHANGED <<class, complete>> /\ UNCHANGED callVars /\ files' = files
      /\ calls \in Seq(Frame) /\ files \in FileSets
  BY DEF LoaderInv, Typed, callVars
<1>2. result' = NoAnswer /\ calls' = Append(calls, NewCall(n))
  <2>1. NewCall(n) \in Frame
    BY DEF NewCall, Frame, Points
  <2> QED
    BY <1>1, <2>1, AppendIsConcat DEF Call
<1>3. MapInv' /\ \A m \in Names : Listed(m)' <=> Listed(m)
  BY MapStays DEF LoaderInv, Typed, mapVars, MapInv, Names
<1>4. StackOK(calls', NoAnswer, complete, asked[lock]) /\ calls' \in Seq(Frame)
  BY <1>1, <1>2, InCall, CallNests DEF Here
<1>5. Typed'
  BY <1>1, <1>2, <1>3, <1>4, TypedStays DEF LoaderInv, Typed, ClassesTyped
<1>6. Stack'
  BY <1>1, <1>2, <1>4, StackStays
<1>7. Loading'
  <2>1. InProgress(calls') = InProgress(calls)
    BY <1>1, <1>2, InProgressNests
  <2> QED
    BY <1>1, <2>1 DEF LoaderInv, Loading
<1>8. Finished'
  BY <1>1, <1>3, FinishedStays DEF LoaderInv, Finished
<1> QED
  BY <1>5, <1>6, <1>7, <1>8 DEF LoaderInv

LEMMA CrashesKeep ==
    ASSUME LoaderInv, LookupCrashes \/ NoFile
    PROVE  LoaderInv'
<1>1. /\ calls # <<>> /\ Crash /\ UNCHANGED <<loadVars, callVars>>
      /\ failures' = failures \/ AllocationFails
  BY DEF LookupCrashes, NoFile, At, AtFile
<1>2. MapInv /\ failures' \in 0 .. MaxFailures
  BY <1>1, FailureCounted DEF LoaderInv, Typed, MapInv
<1>3. MapInv' /\ \A n \in Names : Listed(n)' <=> Listed(n)
  BY <1>1, <1>2, MapStays DEF Crash, MapInv, Names
<1> QED
  BY <1>1, <1>3, CrashKeeps

LEMMA FailKeeps ==
    ASSUME LoaderInv, Fail
    PROVE  LoaderInv'
<1>1. /\ calls # <<>> /\ crashed' = TRUE /\ overlaid' = overlaid
      /\ Delete(Here.name) \/ UNCHANGED <<buckets, numEntries, stale>>
      /\ UNCHANGED <<loadVars, callVars>>
      /\ failures' = failures \/ AllocationFails
  BY DEF Fail, At
<1>2. MapInv /\ failures' \in 0 .. MaxFailures /\ Here.name \in Keys /\ BucketsTyped
  BY <1>1, FailureCounted, InCall DEF LoaderInv, Typed, MapInv, Names
<1>3. CASE Delete(Here.name)
  <2>1. MapInv'
    BY <1>1, <1>2, <1>3, DeleteKeepsMap
  <2>2. \A n \in Names : Listed(n)' => Listed(n)
    BY <1>1, <1>2, <1>3, NodeDeleted DEF Names
  <2> QED
    BY <1>1, <2>1, <2>2, CrashKeeps
<1>4. CASE UNCHANGED <<buckets, numEntries, stale>>
  <2>1. MapInv' /\ \A n \in Names : Listed(n)' <=> Listed(n)
    BY <1>1, <1>2, <1>4, MapStays DEF MapInv, Names
  <2> QED
    BY <1>1, <2>1, CrashKeeps
<1> QED
  BY <1>1, <1>3, <1>4

LEMMA LookupKeeps ==
    ASSUME LoaderInv, Lookup
    PROVE  LoaderInv'
<1> DEFINE s == IF class[Here.name].status = "LOADING" THEN Null ELSE Here.name
<1>1. /\ calls # <<>> /\ Here.at = "lookup" /\ Listed(Here.name) /\ Return(s)
      /\ UNCHANGED mapVars /\ UNCHANGED <<class, complete, callVars>>
  BY DEF Lookup, At, GetFinds, OnlyCalls
<1>2. Here.name \in Names /\ MapInv
  BY <1>1, InCall DEF LoaderInv, Typed
<1>3. MapInv' /\ \A n \in Names : Listed(n)' <=> Listed(n)
  BY <1>1, <1>2, MapStays DEF mapVars, MapInv, Names
<1>4. s \in Names \cup {Null} /\ (s # Null => s = Here.name /\ s \in complete)
  BY <1>1, <1>2 DEF LoaderInv, Finished
<1>5. Here.at \notin Working
  BY <1>1 DEF Working
<1> HIDE DEF s
<1> QED
  BY <1>1, <1>3, <1>4, <1>5, ReturnKeeps

\* A call that returns Null for want of memory or because the file is refused.
LEMMA RefusalKeeps ==
    ASSUME LoaderInv, calls # <<>>, Here.at \notin Working, Return(Null),
           UNCHANGED <<buckets, numEntries, stale, overlaid, crashed>>,
           failures' = failures \/ AllocationFails, UNCHANGED <<class, complete, callVars>>
    PROVE  LoaderInv'
<1>1. MapInv /\ failures' \in 0 .. MaxFailures
  BY FailureCounted DEF LoaderInv, Typed, MapInv
<1>2. MapInv' /\ \A n \in Names : Listed(n)' <=> Listed(n)
  BY <1>1, MapStays DEF MapInv, Names
<1> QED
  BY <1>2, ReturnKeeps

LEMMA RefuseFileKeeps ==
    ASSUME LoaderInv, RefuseFile
    PROVE  LoaderInv'
<1>1. /\ calls # <<>> /\ Here.at \notin Working /\ Return(Null)
      /\ UNCHANGED <<buckets, numEntries, stale, overlaid, crashed>>
      /\ failures' = failures \/ AllocationFails
      /\ UNCHANGED <<class, complete, callVars>>
  BY DEF RefuseFile, AtFile, At, OnlyCalls, Working
<1> QED
  BY <1>1, RefusalKeeps

\* A class without a file is made.
LEMMA MakingKeeps ==
    ASSUME LoaderInv, calls # <<>>, Parents(Here.name) \subseteq complete,
           NEW super \in Names \cup {Null}, NEW size,
           class' = [class EXCEPT ![Here.name] = WithoutFile(super, size)],
           Put(Here.name), Return(Here.name), complete' = complete \cup {Here.name},
           UNCHANGED callVars
    PROVE  LoaderInv'
<1>1. Here.name \in Names /\ Here.name \in Keys /\ MapInv /\ ClassesTyped
  BY InCall DEF LoaderInv, Typed, ClassesTyped, Names
<1>2. MapInv' /\ \A n \in Names \ {Here.name} : Listed(n)' <=> Listed(n)
  BY <1>1, PutKeepsMap DEF Names
<1>3. /\ ClassesTyped' /\ class'[Here.name].status = "INITIALIZED"
      /\ \A n \in Names \ {Here.name} : class'[n] = class[n]
  <2> DEFINE w == WithoutFile(super, size)
  <2>1. DOMAIN w = DOMAIN NoClass /\ w.status = "INITIALIZED" /\ w.super = super
    BY RecordsMade
  <2>2. class' = [class EXCEPT ![Here.name] = w]
    OBVIOUS
  <2> HIDE DEF w
  <2> QED
    BY <1>1, <2>1, <2>2, ClassMade DEF Status
<1> QED
  BY <1>2, <1>3, FinishKeeps

LEMMA LoadPrimitiveKeeps ==
    ASSUME LoaderInv, LoadPrimitive
    PROVE  LoaderInv'
<1>1. calls # <<>> /\ Here.at = "lookup" /\ Here.name \in Primitives /\ UNCHANGED callVars
  BY DEF LoadPrimitive, At
<1>2. CASE /\ Put(Here.name) /\ Return(Here.name)
           /\ class' = [class EXCEPT ![Here.name] = WithoutFile(Null, 0)]
           /\ complete' = complete \cup {Here.name}
  <2>1. Parents(Here.name) \subseteq complete
    BY <1>1, ClassLoaderAssumption DEF Parents, HaveFiles
  <2> QED
    BY <1>1, <1>2, <2>1, MakingKeeps
<1>3. CASE /\ AllocationFails /\ Return(Null)
           /\ UNCHANGED <<buckets, numEntries, stale, overlaid, crashed, class, complete>>
  BY <1>1, <1>3, RefusalKeeps DEF Working
<1> QED
  BY <1>2, <1>3 DEF LoadPrimitive

\* At an array class the call for java/lang/Object has returned.
LEMMA ObjectReturned ==
    ASSUME LoaderInv, At("array")
    PROVE  /\ calls # <<>> /\ Here.name \in Arrays /\ Here.name \notin HaveFiles
           /\ Parents(Here.name) = {Object}
           /\ result \notin {Null, NoAnswer} => result = Object /\ Object \in complete
<1>1. calls # <<>> /\ Here.at = "array" /\ Here.name \in Arrays
  BY InCall DEF At, FrameOK
<1>2. Here.name \notin HaveFiles /\ Parents(Here.name) = {Object}
  BY <1>1 DEF Parents, HaveFiles
<1> QED
  BY <1>1, <1>2, InCall DEF Wants

LEMMA ArrayClassKeeps ==
    ASSUME LoaderInv, ArrayClass
    PROVE  LoaderInv'
<1>1. At("array") /\ result # NoAnswer /\ UNCHANGED callVars
  BY DEF ArrayClass
<1>2. /\ calls # <<>> /\ Parents(Here.name) = {Object} /\ Here.at \notin Working
      /\ result # Null => Object \in complete
  BY <1>1, ObjectReturned DEF At, Working
<1>3. CASE /\ result # Null /\ Put(Here.name) /\ Return(Here.name)
           /\ class' = [class EXCEPT ![Here.name] = WithoutFile(Object, HeaderSize)]
           /\ complete' = complete \cup {Here.name}
  BY <1>1, <1>2, <1>3, MakingKeeps, ClassLoaderAssumption DEF HaveFiles
<1>4. CASE result = Null /\ Return(Null) /\ UNCHANGED <<mapVars, class, complete>>
  BY <1>1, <1>2, <1>4, RefusalKeeps DEF mapVars
<1>5. CASE /\ result # Null /\ AllocationFails /\ Return(Null)
           /\ UNCHANGED <<buckets, numEntries, stale, overlaid, crashed, class, complete>>
  BY <1>1, <1>2, <1>5, RefusalKeeps
<1> QED
  BY <1>3, <1>4, <1>5 DEF ArrayClass

\* An array class asks for java/lang/Object: the call goes on, and then nests.
LEMMA LoadArrayKeeps ==
    ASSUME LoaderInv, LoadArray
    PROVE  LoaderInv'
<1> DEFINE c == [Here EXCEPT !.at = "array"]
           cs == Front(calls) \o <<c>>
<1>1. /\ calls # <<>> /\ Here.at = "lookup" /\ Here.name \in Arrays
      /\ calls' = Append(cs, NewCall(Object)) /\ result' = result
      /\ UNCHANGED mapVars /\ UNCHANGED <<class, complete>> /\ UNCHANGED callVars
  BY DEF LoadArray, At, OnlyCalls
<1>2. /\ files' = files /\ calls \in Seq(Frame) /\ files \in FileSets
      /\ Here \in Frame /\ result = NoAnswer /\ Object \in Names
  BY <1>1, NothingReturned, InCall, ClassLoaderAssumption DEF LoaderInv, Typed, HaveFiles, callVars
<1>3. c \in Frame /\ c.name = Here.name /\ c.at = "array" /\ Wants(c) = Object
  BY <1>2 DEF Frame, Points, Wants
<1>4. FrameOK(c, complete) /\ Waiting(c)
  <2>1. Object \in Parents(c.name)
    BY <1>1, <1>3 DEF Parents, HaveFiles
  <2> QED
    BY <1>1, <1>3, <2>1 DEF FrameOK, Waiting, Working
<1> HIDE DEF c
<1>5. StackOK(cs, NoAnswer, complete, asked[lock]) /\ cs \in Seq(Frame) /\ cs # <<>> /\ Last(cs) = c
  BY <1>1, <1>2, <1>3, <1>4, InCall, CallGoes DEF Here
<1>6. InProgress(cs) = InProgress(calls)
  <2>1. InProgress(calls) = InProgress(Front(calls))
    BY <1>1, <1>2, InProgressReturns DEF Here, Working
  <2>2. InProgress(cs) = InProgress(Front(calls))
    <3>1. InProgress(cs) = InProgress(Front(calls)) \cup {n \in {c.name} : c.at \in Working}
      BY <1>1, <1>2, <1>3, InProgressGoes
    <3> QED
      BY <1>3, <3>1 DEF Working
  <2> QED
    BY <2>1, <2>2
<1> HIDE DEF cs
<1>7. StackOK(calls', NoAnswer, complete, asked[lock]) /\ calls' \in Seq(Frame)
  BY <1>1, <1>2, <1>3, <1>4, <1>5, CallNests
<1>8. InProgress(calls') = InProgress(calls)
  BY <1>1, <1>2, <1>5, <1>6, InProgressNests
<1>9. MapInv' /\ \A m \in Names : Listed(m)' <=> Listed(m)
  BY <1>1, MapStays DEF LoaderInv, Typed, mapVars, MapInv, Names
<1>10. Typed'
  BY <1>1, <1>7, <1>9, TypedStays DEF LoaderInv, Typed, ClassesTyped
<1>11. Stack'
  BY <1>1, <1>2, <1>7, StackStays
<1>12. Loading'
  BY <1>1, <1>8 DEF LoaderInv, Loading
<1>13. Finished'
  BY <1>1, <1>2, <1>9, FinishedStays DEF LoaderInv, Finished
<1> QED
  BY <1>10, <1>11, <1>12, <1>13 DEF LoaderInv

LEMMA BeginClassKeeps ==
    ASSUME LoaderInv, BeginClass
    PROVE  LoaderInv'
<1> DEFINE n == Here.name
           r == [NoClass EXCEPT !.status = "LOADING", !.pool = files[n].constants]
           c == [Here EXCEPT !.at = "super", !.next = 1]
<1>1. /\ calls # <<>> /\ Here.at = "lookup" /\ Readable(n)
      /\ class' = [class EXCEPT ![n] = r] /\ Put(n)
      /\ calls' = Front(calls) \o <<c>> /\ complete' = complete /\ result' = result
      /\ UNCHANGED callVars
  BY DEF BeginClass, AtFile, At, Goto, Readable
<1>2. /\ files' = files /\ calls \in Seq(Frame) /\ Here \in Frame /\ result = NoAnswer
      /\ n \in Names /\ n \in Keys /\ MapInv /\ ClassesTyped
  BY <1>1, NothingReturned, InCall DEF LoaderInv, Typed, ClassesTyped, callVars, Names
<1>3. MapInv' /\ \A m \in Names \ {n} : Listed(m)' <=> Listed(m)
  BY <1>1, <1>2, PutKeepsMap DEF Names
<1>4. /\ ClassesTyped' /\ class'[n].status = "LOADING"
      /\ \A m \in Names \ {n} : class'[m] = class[m]
  <2>1. DOMAIN r = DOMAIN NoClass /\ r.status = "LOADING" /\ r.super = Null
    BY DEF NoClass
  <2> HIDE DEF r
  <2> QED
    BY <1>1, <1>2, <2>1, ClassMade DEF Status
<1>5. c \in Frame /\ c.name = n /\ c.at = "super"
  BY <1>2 DEF Frame, Points
<1>6. FrameOK(c, complete)
  BY <1>1, <1>5 DEF FrameOK
<1> HIDE DEF c, r
<1>7. StackOK(calls', NoAnswer, complete, asked[lock]) /\ calls' \in Seq(Frame)
  BY <1>1, <1>2, <1>5, <1>6, InCall, CallGoes DEF Here
<1>8. Typed'
  BY <1>1, <1>2, <1>3, <1>4, <1>7, TypedStays DEF LoaderInv, Typed
<1>9. Stack'
  BY <1>1, <1>2, <1>7, StackStays
<1>10. Loading'
  <2>1. InProgress(calls) = InProgress(Front(calls))
    BY <1>1, <1>2, InProgressReturns DEF Here, Working
  <2>2. InProgress(calls') = InProgress(Front(calls)) \cup {x \in {c.name} : c.at \in Working}
    BY <1>1, <1>2, <1>5, InProgressGoes
  <2>3. InProgress(calls') = InProgress(calls) \cup {n}
    BY <1>5, <2>1, <2>2 DEF Working
  <2> QED
    BY <1>2, <1>4, <2>3 DEF LoaderInv, Loading
<1>11. Finished'
  <2>1. \A m \in Names : Listed(m)' => m \in complete \/ class'[m].status = "LOADING"
    BY <1>3, <1>4 DEF LoaderInv, Finished
  <2>2. \A m \in complete : class[m].status # "none" => class'[m].status # "none"
    BY <1>4 DEF LoaderInv, Typed
  <2> QED
    BY <1>1, <1>2, <2>1, <2>2, FinishedStays DEF LoaderInv
<1> QED
  BY <1>8, <1>9, <1>10, <1>11 DEF LoaderInv

\* The indexes of a file that is read lead to parents of its class.
LEMMA IndexesAreParents ==
    ASSUME files \in FileSets, NEW n \in Names, Readable(n)
    PROVE  /\ files[n].interfaces \in Seq(Nat)
           /\ files[n].super # 0 => NameAt(files[n], files[n].super) \in Parents(n)
           /\ \A j \in 1 .. Len(files[n].interfaces) :
                  NameAt(files[n], files[n].interfaces[j]) \in Parents(n)
           /\ \A m \in Parents(n) :
                  \/ files[n].super # 0 /\ m = NameAt(files[n], files[n].super)
                  \/ \E j \in 1 .. Len(files[n].interfaces) :
                         m = NameAt(files[n], files[n].interfaces[j])
<1> DEFINE f == files[n]
<1>1. f.interfaces \in Seq(Nat)
  BY FilesAssumption DEF Readable
<1>2. Parents(n) = {NameAt(f, i) : i \in ParentIndexes(f)}
  BY DEF Parents, Readable
<1>3. /\ \A j \in 1 .. Len(f.interfaces) : f.interfaces[j] \in ParentIndexes(f)
      /\ f.super # 0 => f.super \in ParentIndexes(f)
      /\ \A i \in ParentIndexes(f) : \/ i = f.super /\ f.super # 0
                                     \/ \E j \in 1 .. Len(f.interfaces) : i = f.interfaces[j]
  BY <1>1 DEF ParentIndexes, Range
<1> HIDE DEF f
<1> QED
  BY <1>1, <1>2, <1>3 DEF f

\* A class in the making, before its step.
LEMMA InTheMaking ==
    ASSUME LoaderInv, calls # <<>>, Here.at \in Working
    PROVE  /\ Readable(Here.name) /\ Here \in Frame /\ Here.name \in Names /\ Here.next \in Nat
           /\ files \in FileSets /\ ClassesTyped
BY InCall DEF LoaderInv, Typed, ClassesTyped, FrameOK

LEMMA CallSuperKeeps ==
    ASSUME LoaderInv, CallSuper
    PROVE  LoaderInv'
<1> DEFINE f == files[Here.name]
           c == [Here EXCEPT !.at = "interfaces", !.next = 1]
<1>1. /\ calls # <<>> /\ Here.at = "super" /\ result = NoAnswer
      /\ UNCHANGED <<mapVars, class, complete, callVars>>
      /\ IF f.super = 0 THEN Goto("interfaces", 1) /\ result' = result
                        ELSE Call(NameAt(f, f.super))
  BY DEF CallSuper, At, OnlyCalls
<1>2. /\ Here.at \in Working /\ Readable(Here.name) /\ Here \in Frame /\ Here.name \in Names
      /\ files \in FileSets /\ ClassesTyped
  BY <1>1, InTheMaking DEF Working
<1>3. CASE f.super = 0
  <2>1. c \in Frame /\ c.name = Here.name /\ c.at = "interfaces" /\ c.next = 1
    BY <1>2 DEF Frame, Points
  <2>2. FrameOK(c, complete)
    BY <1>2, <1>3, <2>1, IndexesAreParents DEF FrameOK
  <2>3. ClassesTyped' /\ \A n \in Names : class'[n].status = class[n].status
    BY <1>1, <1>2 DEF ClassesTyped
  <2> QED
    BY <1>1, <1>2, <1>3, <2>2, <2>3, GoKeeps DEF Working
<1>4. CASE f.super # 0
  <2>1. NameAt(f, f.super) \in Parents(Here.name) /\ Wants(Here) = NameAt(f, f.super)
    BY <1>1, <1>2, <1>4, IndexesAreParents DEF Wants
  <2>2. Waiting(Here) /\ NameAt(f, f.super) \in Names
    BY <1>1, <1>2, <1>4, <2>1, ParentsAreNames DEF Waiting
  <2> QED
    BY <1>1, <1>4, <2>1, <2>2, CallKeeps
<1> QED
  BY <1>3, <1>4

LEMMA SuperLoadedKeeps ==
    ASSUME LoaderInv, SuperLoaded
    PROVE  LoaderInv'
<1> DEFINE f == files[Here.name]
           c == [Here EXCEPT !.at = "interfaces", !.next = 1]
<1>1. /\ calls # <<>> /\ Here.at = "super" /\ result \notin {NoAnswer, Null}
      /\ class' = [class EXCEPT ![Here.name].super = result]
      /\ Goto("interfaces", 1) /\ result' = NoAnswer
      /\ UNCHANGED <<mapVars, complete, callVars>>
  BY DEF SuperLoaded, At
<1>2. /\ Here.at \in Working /\ Readable(Here.name) /\ Here \in Frame /\ Here.name \in Names
      /\ files \in FileSets /\ ClassesTyped /\ complete \subseteq Names
  BY <1>1, InTheMaking DEF Working, LoaderInv, Typed
<1>3. result = NameAt(f, f.super) /\ result \in complete
  BY <1>1, InCall DEF Wants
<1>4. c \in Frame /\ c.name = Here.name /\ c.at = "interfaces" /\ c.next = 1
  BY <1>2 DEF Frame, Points
<1>5. FrameOK(c, complete)
  BY <1>2, <1>3, <1>4, IndexesAreParents DEF FrameOK
<1>6. ClassesTyped' /\ \A n \in Names : class'[n].status = class[n].status
  BY <1>1, <1>2, <1>3, ClassExtended
<1> QED
  BY <1>1, <1>2, <1>5, <1>6, GoKeeps DEF Working

LEMMA CallInterfaceKeeps ==
    ASSUME LoaderInv, CallInterface
    PROVE  LoaderInv'
<1> DEFINE f == files[Here.name]
           n == Here.next
           c == [Here EXCEPT !.at = "members", !.next = 1]
<1>1. /\ calls # <<>> /\ Here.at = "interfaces" /\ result = NoAnswer
      /\ UNCHANGED <<mapVars, class, complete, callVars>>
      /\ IF n > Len(f.interfaces) THEN Goto("members", 1) /\ result' = result
                                  ELSE Call(NameAt(f, f.interfaces[n]))
  BY DEF CallInterface, At, OnlyCalls
<1>2. /\ Here.at \in Working /\ Readable(Here.name) /\ Here \in Frame /\ Here.name \in Names
      /\ files \in FileSets /\ ClassesTyped
  BY <1>1, InTheMaking DEF Working
<1>3. /\ f.interfaces \in Seq(Nat) /\ n \in 1 .. Len(f.interfaces) + 1
      /\ f.super # 0 => NameAt(f, f.super) \in complete
      /\ \A j \in 1 .. n - 1 : NameAt(f, f.interfaces[j]) \in complete
  BY <1>1, <1>2, InCall, IndexesAreParents DEF FrameOK
<1>4. CASE n > Len(f.interfaces)
  <2>1. c \in Frame /\ c.name = Here.name /\ c.at = "members"
    BY <1>2 DEF Frame, Points
  <2>2. n - 1 = Len(f.interfaces)
    <3>1. Len(f.interfaces) \in Nat
      BY <1>3
    <3> HIDE DEF f, n
    <3> QED
      BY <1>3, <1>4, <3>1
  <2>3. Parents(Here.name) \subseteq complete
    BY <1>2, <1>3, <2>2, IndexesAreParents
  <2>4. FrameOK(c, complete)
    BY <1>2, <2>1, <2>3 DEF FrameOK
  <2>5. ClassesTyped' /\ \A m \in Names : class'[m].status = class[m].status
    BY <1>1, <1>2 DEF ClassesTyped
  <2> QED
    BY <1>1, <1>2, <1>4, <2>4, <2>5, GoKeeps DEF Working
<1>5. CASE ~(n > Len(f.interfaces))
  <2>1. n \in 1 .. Len(f.interfaces) /\ n <= Len(f.interfaces)
    BY <1>3, <1>5
  <2>2. NameAt(f, f.interfaces[n]) \in Parents(Here.name) /\ Wants(Here) = NameAt(f, f.interfaces[n])
    BY <1>1, <1>2, <2>1, IndexesAreParents DEF Wants
  <2>3. Waiting(Here) /\ NameAt(f, f.interfaces[n]) \in Names
    BY <1>1, <1>2, <2>1, <2>2, ParentsAreNames DEF Waiting
  <2> QED
    BY <1>1, <1>5, <2>2, <2>3, CallKeeps
<1> QED
  BY <1>4, <1>5

LEMMA InterfaceLoadedKeeps ==
    ASSUME LoaderInv, InterfaceLoaded
    PROVE  LoaderInv'
<1> DEFINE f == files[Here.name]
           n == Here.next
           c == [Here EXCEPT !.at = "interfaces", !.next = n + 1]
<1>1. /\ calls # <<>> /\ Here.at = "interfaces" /\ result \notin {NoAnswer, Null}
      /\ class' = [class EXCEPT ![Here.name].interfaces = Append(@, result)]
      /\ Goto("interfaces", n + 1) /\ result' = NoAnswer
      /\ UNCHANGED <<mapVars, complete, callVars>>
  BY DEF InterfaceLoaded, At
<1>2. /\ Here.at \in Working /\ Readable(Here.name) /\ Here \in Frame /\ Here.name \in Names
      /\ files \in FileSets /\ ClassesTyped /\ complete \subseteq Names
  BY <1>1, InTheMaking DEF Working, LoaderInv, Typed
<1>3. /\ f.interfaces \in Seq(Nat) /\ n \in 1 .. Len(f.interfaces) + 1 /\ n <= Len(f.interfaces)
      /\ f.super # 0 => NameAt(f, f.super) \in complete
      /\ \A j \in 1 .. n - 1 : NameAt(f, f.interfaces[j]) \in complete
      /\ result = NameAt(f, f.interfaces[n]) /\ result \in complete
  BY <1>1, <1>2, InCall, IndexesAreParents DEF FrameOK, Waiting, Wants
<1>4. c \in Frame /\ c.name = Here.name /\ c.at = "interfaces" /\ c.next = n + 1
  <2>1. n + 1 \in Nat
    BY <1>3
  <2> QED
    BY <1>2, <2>1 DEF Frame, Points
<1>5. /\ n + 1 \in 1 .. Len(f.interfaces) + 1 /\ n + 1 \in Nat
      /\ \A j \in 1 .. (n + 1) - 1 : NameAt(f, f.interfaces[j]) \in complete
  <2>1. \A j \in 1 .. (n + 1) - 1 : j \in 1 .. n - 1 \/ j = n
    BY <1>3
  <2>2. n + 1 \in 1 .. Len(f.interfaces) + 1 /\ n + 1 \in Nat
    BY <1>3
  <2> QED
    BY <1>3, <2>1, <2>2
<1>6. FrameOK(c, complete)
  BY <1>2, <1>3, <1>4, <1>5 DEF FrameOK
<1>7. ClassesTyped' /\ \A m \in Names : class'[m].status = class[m].status
  BY <1>1, <1>2, <1>3, ClassExtended
<1> QED
  BY <1>1, <1>2, <1>5, <1>6, <1>7, GoKeeps DEF Working

LEMMA ParseMembersKeeps ==
    ASSUME LoaderInv, ParseMembers
    PROVE  LoaderInv'
<1> DEFINE n == Here.name
           f == files[n]
           inherited == InheritedSize(n)
<1>1. /\ calls # <<>> /\ Here.at = "members" /\ complete' = complete \cup {n} /\ Return(n)
      /\ UNCHANGED <<buckets, numEntries, stale, overlaid, crashed>> /\ UNCHANGED callVars
      /\ failures' = failures \/ AllocationFails
  BY DEF ParseMembers, At
<1>2. /\ n \in Names /\ ClassesTyped /\ Parents(n) \subseteq complete /\ MapInv
  BY <1>1, InTheMaking, InCall DEF Working, FrameOK, LoaderInv, Typed
<1>3. /\ ClassesTyped' /\ class'[n].status = "LOADED"
      /\ \A m \in Names \ {n} : class'[m] = class[m]
  <2>1. PICK p \in Sortings(f) :
            class' = [class EXCEPT ![n].status = "LOADED",
                                   ![n].fields = LayOut(f, p, inherited),
                                   ![n].objectSize = ObjectSize(f, p, inherited),
                                   ![n].staticDataSize = StaticDataSize(f, p),
                                   ![n].methods = Methods(f)]
    BY DEF ParseMembers
  <2> DEFINE r == [class[n] EXCEPT !.status = "LOADED",
                                   !.fields = LayOut(f, p, inherited),
                                   !.objectSize = ObjectSize(f, p, inherited),
                                   !.staticDataSize = StaticDataSize(f, p),
                                   !.methods = Methods(f)]
  <2>2. class' = [class EXCEPT ![n] = r]
    BY <1>2, <2>1 DEF ClassesTyped
  <2>3. DOMAIN class[n] = DOMAIN NoClass /\ class[n].super \in Names \cup {Null}
    BY <1>2 DEF ClassesTyped
  <2>4. DOMAIN r = DOMAIN NoClass /\ r.status = "LOADED" /\ r.super = class[n].super
    BY <2>3 DEF NoClass
  <2> HIDE DEF r
  <2> QED
    BY <1>2, <2>2, <2>3, <2>4, ClassMade DEF Status
<1>4. failures' \in 0 .. MaxFailures
  BY <1>1, <1>2, FailureCounted DEF MapInv
<1>5. MapInv' /\ \A m \in Names : Listed(m)' <=> Listed(m)
  BY <1>1, <1>2, <1>4, MapStays DEF MapInv, Names
<1> QED
  BY <1>1, <1>2, <1>3, <1>5, FinishKeeps

-----------------------------------------------------------------------------
(* The steps of loadClass, and the theorem.                                *)

LEMMA IdleStack ==
    ASSUME NEW done, NEW root
    PROVE  StackOK(<<>>, NoAnswer, done, root)
BY DEF StackOK

\* The map and the classes stay with these steps, and what is behind a call.
LEMMA OutsideKeeps ==
    ASSUME LoaderInv, UNCHANGED <<mapVars, class, complete, files>>
    PROVE  /\ MapInv' /\ Finished' /\ ClassesTyped'
           /\ InProgress(calls') = InProgress(calls) => Loading'
<1>1. MapInv' /\ \A m \in Names : Listed(m)' <=> Listed(m)
  BY MapStays DEF LoaderInv, Typed, mapVars, MapInv, Names
<1>2. Finished'
  BY <1>1, FinishedStays DEF LoaderInv, Finished
<1> QED
  BY <1>1, <1>2 DEF LoaderInv, Typed, ClassesTyped, Loading

LEMMA AskKeeps ==
    ASSUME LoaderInv, NEW t \in Threads, NEW n \in Needs[t], Ask(t, n)
    PROVE  LoaderInv'
<1>1. /\ answer[t] # NoAnswer
      /\ asked' = [asked EXCEPT ![t] = n] /\ answer' = [answer EXCEPT ![t] = NoAnswer]
      /\ UNCHANGED <<mapVars, class, complete, files>> /\ UNCHANGED <<calls, result, lock>>
      /\ n \in Names
  BY ClassLoaderAssumption DEF Ask, loadVars
<1>2. MapInv' /\ Finished' /\ ClassesTyped' /\ Loading' /\ files' = files
  BY <1>1, OutsideKeeps
<1>3. Typed'
  BY <1>1, <1>2 DEF LoaderInv, Typed, ClassesTyped
<1>4. Stack'
  <2>1. SUFFICES StackOK(calls, result, complete, asked'[lock])
    BY <1>1, <1>2, FilesStay
  <2>2. CASE lock = NoThread
    BY <2>2, IdleStack DEF LoaderInv, Typed
  <2>3. CASE lock # NoThread
    BY <1>1, <2>3 DEF LoaderInv, Typed, Stack
  <2> QED
    BY <2>2, <2>3
<1> QED
  BY <1>2, <1>3, <1>4 DEF LoaderInv

LEMMA LockKeeps ==
    ASSUME LoaderInv, NEW t \in Threads, Lock(t)
    PROVE  LoaderInv'
<1> DEFINE c == NewCall(asked[t])
<1>1. /\ lock = NoThread /\ answer[t] = NoAnswer /\ lock' = t /\ calls' = <<c>>
      /\ UNCHANGED <<mapVars, class, complete, files>> /\ UNCHANGED <<result, asked, answer>>
      /\ calls = <<>> /\ result = NoAnswer /\ asked[t] \in Names
  BY DEF Lock, LoaderInv, Typed
<1>2. /\ c \in Frame /\ c.name = asked[t] /\ c.at = "lookup"
      /\ <<c>> \in Seq(Frame) /\ Len(<<c>>) = 1 /\ <<c>>[1] = c /\ <<c>> # <<>>
  BY <1>1 DEF NewCall, Frame, Points
<1>3. InProgress(calls') = InProgress(calls)
  <2>1. calls' = Append(calls, c) /\ calls \in Seq(Frame)
    BY <1>1
  <2> QED
    BY <1>1, <2>1, InProgressNests
<1>4. MapInv' /\ Finished' /\ ClassesTyped' /\ Loading' /\ files' = files
  BY <1>1, <1>3, OutsideKeeps
<1>5. t # NoThread
  BY ClassLoaderAssumption
<1>6. Typed'
  BY <1>1, <1>2, <1>4, <1>5 DEF LoaderInv, Typed, ClassesTyped
<1>7. Stack'
  <2>1. FrameOK(c, complete)
    BY <1>2 DEF FrameOK, Working
  <2> HIDE DEF c
  <2>2. StackOK(<<c>>, NoAnswer, complete, asked[t])
    BY <1>2, <2>1 DEF StackOK
  <2> QED
    BY <1>1, <1>4, <2>2, FilesStay
<1> QED
  BY <1>4, <1>6, <1>7 DEF LoaderInv

LEMMA UnlockKeeps ==
    ASSUME LoaderInv, NEW t \in Threads, Unlock(t)
    PROVE  LoaderInv'
<1>1. /\ lock = t /\ calls = <<>> /\ result # NoAnswer /\ lock' = NoThread /\ result' = NoAnswer
      /\ answer' = [answer EXCEPT ![t] = result] /\ calls' = calls /\ asked' = asked
      /\ UNCHANGED <<mapVars, class, complete, files>>
  BY DEF Unlock
<1>2. MapInv' /\ Finished' /\ ClassesTyped' /\ Loading' /\ files' = files
  BY <1>1, OutsideKeeps
<1>3. Typed'
  BY <1>1, <1>2 DEF LoaderInv, Typed, ClassesTyped
<1>4. Stack'
  BY <1>1, <1>2, IdleStack, FilesStay
<1> QED
  BY <1>2, <1>3, <1>4 DEF LoaderInv

LEMMA InitHolds == Init => LoaderInv
<1> SUFFICES ASSUME Init PROVE LoaderInv
  OBVIOUS
<1>1. \A k \in Keys : ~Listed(k)
  BY BucketExists DEF Init, InitMap, Listed
<1>2. MapInv
  <2>1. {k \in Keys : Listed(k)} = {} /\ Cardinality({}) = 0
    BY <1>1, FS_EmptySet
  <2>2. /\ DOMAIN buckets = 0 .. Length - 1 /\ \A b \in 0 .. Length - 1 : DOMAIN buckets[b] = {}
        /\ numEntries = 0 /\ stale = {}
    BY DEF Init, InitMap
  <2>3. MapSound
    BY <2>1, <2>2 DEF MapSound
  <2>4. /\ buckets = [b \in 0 .. Length - 1 |-> <<>>] /\ overlaid \in BOOLEAN
        /\ numEntries = 0 /\ stale = {} /\ crashed = FALSE /\ failures = 0
    BY DEF Init, InitMap
  <2>5. BucketsTyped
    BY <2>4 DEF BucketsTyped
  <2> QED
    BY <2>3, <2>4, <2>5, HashMapAssumption DEF MapInv
<1>3. ClassesTyped /\ \A n \in Names : class[n].status = "none"
  BY DEF Init, NoClass, ClassesTyped, Status
<1>4. Typed
  BY <1>2, <1>3, ClassLoaderAssumption DEF Init, Typed, ClassesTyped, HaveFiles
<1>5. Stack
  BY IdleStack DEF Init, Stack
<1>6. Loading
  BY <1>3 DEF Init, Loading, InProgress
<1>7. Finished
  BY <1>1 DEF Init, Finished, Names
<1> QED
  BY <1>4, <1>5, <1>6, <1>7 DEF LoaderInv

LEMMA StutterKeeps ==
    ASSUME LoaderInv, UNCHANGED vars
    PROVE  LoaderInv'
<1>1. UNCHANGED <<mapVars, class, complete, files>> /\ UNCHANGED <<calls, result, lock, asked, answer>>
  BY DEF vars, loadVars, callVars
<1>2. MapInv' /\ Finished' /\ ClassesTyped' /\ Loading' /\ files' = files
  BY <1>1, OutsideKeeps
<1>3. Typed'
  BY <1>1, <1>2 DEF LoaderInv, Typed, ClassesTyped
<1>4. Stack'
  BY <1>1, <1>2, FilesStay DEF LoaderInv, Stack
<1> QED
  BY <1>2, <1>3, <1>4 DEF LoaderInv

LEMMA NextKeeps == LoaderInv /\ [Next]_vars => LoaderInv'
<1> SUFFICES ASSUME LoaderInv, [Next]_vars PROVE LoaderInv'
  OBVIOUS
<1>1. ASSUME NEW t \in Threads, NEW n \in Needs[t], Ask(t, n) PROVE LoaderInv'
  BY <1>1, AskKeeps
<1>2. ASSUME NEW t \in Threads, Lock(t) PROVE LoaderInv'
  BY <1>2, LockKeeps
<1>3. ASSUME NEW t \in Threads, Unlock(t) PROVE LoaderInv'
  BY <1>3, UnlockKeeps
<1>4. CASE LookupCrashes \/ NoFile
  BY <1>4, CrashesKeep
<1>5. CASE Lookup
  BY <1>5, LookupKeeps
<1>6. CASE LoadPrimitive
  BY <1>6, LoadPrimitiveKeeps
<1>7. CASE LoadArray
  BY <1>7, LoadArrayKeeps
<1>8. CASE ArrayClass
  BY <1>8, ArrayClassKeeps
<1>9. CASE RefuseFile
  BY <1>9, RefuseFileKeeps
<1>10. CASE BeginClass
  BY <1>10, BeginClassKeeps
<1>11. CASE CallSuper
  BY <1>11, CallSuperKeeps
<1>12. CASE SuperLoaded
  BY <1>12, SuperLoadedKeeps
<1>13. CASE CallInterface
  BY <1>13, CallInterfaceKeeps
<1>14. CASE InterfaceLoaded
  BY <1>14, InterfaceLoadedKeeps
<1>15. CASE ParseMembers
  BY <1>15, ParseMembersKeeps
<1>16. CASE Fail
  BY <1>16, FailKeeps
<1>17. CASE UNCHANGED vars
  BY <1>17, StutterKeeps
<1> QED
  BY <1>1, <1>2, <1>3, <1>4, <1>5, <1>6, <1>7, <1>8, <1>9, <1>10, <1>11, <1>12, <1>13, <1>14, <1>15,
     <1>16, <1>17 DEF Next, LoadClass0

LEMMA LoaderInvariant == Spec => []LoaderInv
BY InitHolds, NextKeeps, PTL DEF Spec

-----------------------------------------------------------------------------
(* The kinds of steps of loadClass0, by what they do to map and classes.   *)

Crashing ==
    /\ crashed' /\ UNCHANGED loadVars /\ Kept' = Kept
    /\ buckets' = buckets \/ (Delete(Here.name) /\ Here.at \in Working)

Quiet == UNCHANGED <<mapVars, complete>> /\ \A n \in Names : class'[n].status = class[n].status

Refusing == /\ Return(Null) /\ (failures' = failures \/ AllocationFails)
            /\ UNCHANGED <<buckets, numEntries, stale, overlaid, crashed, class, complete>>

Others(n) == \A m \in Names \ {n} : class'[m] = class[m]

Finishing(n) ==
    /\ Parents(n) \subseteq complete
    /\ complete' = complete \cup {n}
    /\ class'[n].status \notin {"none", "LOADING"} /\ Others(n)
    /\ \/ Put(n)
       \/ /\ UNCHANGED <<buckets, numEntries, stale, overlaid, crashed>>
          /\ failures' = failures \/ AllocationFails
          /\ class[n].status = "LOADING"
    /\ Return(n)

Beginning(n) ==
    /\ AtFile("class") /\ Readable(n) /\ ~Listed(n)
    /\ class'[n].status = "LOADING" /\ Others(n) /\ complete' = complete
    /\ Put(n)
    /\ Goto("super", 1)

LEMMA KeptStays ==
    ASSUME UNCHANGED <<buckets, complete>>, complete \subseteq Names,
           \A n \in Names : class'[n].status = class[n].status
    PROVE  Kept' = Kept /\ \A n : Listed(n)' <=> Listed(n)
BY DEF Kept, Listed, BucketOf

\* A class in the making is in progress.
LEMMA MakingIsLoading ==
    ASSUME LoaderInv, calls # <<>>, Here.at \in Working
    PROVE  class[Here.name].status = "LOADING" /\ Here.name \in InProgress(calls)
BY InCall, InProgressReturns DEF LoaderInv, Typed, Loading, Here

LEMMA StatusesStay ==
    ASSUME LoaderInv, SuperLoaded \/ InterfaceLoaded
    PROVE  \A n \in Names : class'[n].status = class[n].status
<1>1. Here.name \in Names /\ result \in Names /\ ClassesTyped
  BY InCall DEF SuperLoaded, InterfaceLoaded, At, LoaderInv, Typed, ClassesTyped
<1> QED
  BY <1>1, ClassExtended DEF SuperLoaded, InterfaceLoaded

LEMMA BeginClassBegins ==
    ASSUME LoaderInv, BeginClass
    PROVE  Beginning(Here.name)
<1> DEFINE n == Here.name
           r == [NoClass EXCEPT !.status = "LOADING", !.pool = files[n].constants]
<1>1. /\ AtFile("class") /\ Readable(n) /\ ~Listed(n) /\ class' = [class EXCEPT ![n] = r]
      /\ complete' = complete /\ Put(n) /\ Goto("super", 1)
  BY DEF BeginClass, AtFile, GetMisses, Readable
<1>2. DOMAIN r = DOMAIN NoClass /\ r.status = "LOADING" /\ r.super = Null
  BY DEF NoClass
<1>3. n \in Names /\ ClassesTyped
  BY InCall DEF BeginClass, AtFile, At, LoaderInv, Typed, ClassesTyped
<1> HIDE DEF r
<1>4. class'[n].status = "LOADING" /\ Others(n)
  BY <1>1, <1>2, <1>3, ClassMade DEF Others, Status
<1> QED
  BY <1>1, <1>4 DEF Beginning

LEMMA InnerSteps ==
    ASSUME LoaderInv, LoadClass0
    PROVE  /\ calls # <<>> /\ ~crashed /\ UNCHANGED callVars
           /\ Crashing \/ Quiet \/ Refusing \/ Finishing(Here.name) \/ Beginning(Here.name)
<1>1. calls # <<>> /\ ~crashed /\ UNCHANGED callVars
  BY DEF LoadClass0, LookupCrashes, Lookup, LoadPrimitive, LoadArray, ArrayClass, NoFile, RefuseFile,
         BeginClass, CallSuper, SuperLoaded, CallInterface, InterfaceLoaded, ParseMembers,
         Fail, AtFile, At, OnlyCalls
<1>2. Here.name \in Names /\ ClassesTyped /\ complete \subseteq Names /\ MapInv
  BY <1>1, InCall DEF LoaderInv, Typed, ClassesTyped
<1>3. CASE LookupCrashes \/ NoFile
  <2>1. Crash /\ UNCHANGED loadVars
    BY <1>3 DEF LookupCrashes, NoFile
  <2>2. Kept' = Kept
    BY <1>2, <2>1, KeptStays DEF Crash, loadVars
  <2> QED
    BY <1>1, <2>1, <2>2 DEF Crashing, Crash
<1>4. CASE Fail
  <2>1. /\ Delete(Here.name) \/ UNCHANGED buckets
        /\ crashed' = TRUE /\ UNCHANGED loadVars /\ Here.at \in Working
    BY <1>4 DEF Fail, At, Working
  <2>2. \A m \in Names \ {Here.name} : Listed(m)' <=> Listed(m)
    <3>1. CASE Delete(Here.name)
      BY <1>2, <3>1, NodeDeleted DEF Names, MapInv
    <3>2. CASE UNCHANGED buckets
      BY <3>2 DEF Listed
    <3> QED
      BY <2>1, <3>1, <3>2
  <2>3. class[Here.name].status = "LOADING"
    BY <1>1, <2>1, MakingIsLoading
  <2>4. Kept' = Kept
    BY <1>2, <2>1, <2>2, <2>3 DEF Kept, loadVars
  <2> QED
    BY <1>1, <2>1, <2>4 DEF Crashing
<1>5. CASE Lookup \/ LoadArray \/ CallSuper \/ CallInterface
  BY <1>1, <1>5 DEF Lookup, LoadArray, CallSuper, CallInterface, OnlyCalls, Quiet
<1>6. CASE SuperLoaded \/ InterfaceLoaded
  <2>1. UNCHANGED <<mapVars, complete>>
    BY <1>6 DEF SuperLoaded, InterfaceLoaded
  <2> QED
    BY <1>1, <1>6, <2>1, StatusesStay DEF Quiet
<1>7. CASE RefuseFile
  <2>1. /\ Return(Null) /\ (failures' = failures \/ AllocationFails)
        /\ UNCHANGED <<buckets, numEntries, stale, overlaid, crashed>> /\ UNCHANGED <<class, complete>>
    BY <1>7 DEF RefuseFile, OnlyCalls
  <2> QED
    BY <1>1, <2>1 DEF Refusing
<1>8. ASSUME NEW super \in Names \cup {Null}, NEW size, calls # <<>>, Parents(Here.name) \subseteq complete,
             class' = [class EXCEPT ![Here.name] = WithoutFile(super, size)],
             Put(Here.name), Return(Here.name), complete' = complete \cup {Here.name}
      PROVE  Finishing(Here.name)
  <2> DEFINE w == WithoutFile(super, size)
  <2>1. DOMAIN w = DOMAIN NoClass /\ w.status = "INITIALIZED" /\ w.super = super
    BY RecordsMade
  <2>2. class' = [class EXCEPT ![Here.name] = w]
    BY <1>8
  <2> HIDE DEF w
  <2>3. class'[Here.name].status \notin {"none", "LOADING"} /\ Others(Here.name)
    BY <1>2, <2>1, <2>2, ClassMade DEF Others, Status
  <2> QED
    BY <1>8, <2>3 DEF Finishing
<1>9. CASE LoadPrimitive
  <2>1. Here.name \in Primitives
    BY <1>9 DEF LoadPrimitive
  <2>2. Parents(Here.name) \subseteq complete
    BY <2>1, ClassLoaderAssumption DEF Parents, HaveFiles
  <2>3. CASE /\ Put(Here.name) /\ Return(Here.name)
             /\ class' = [class EXCEPT ![Here.name] = WithoutFile(Null, 0)]
             /\ complete' = complete \cup {Here.name}
    BY <1>1, <1>8, <2>2, <2>3
  <2>4. CASE /\ AllocationFails /\ Return(Null)
             /\ UNCHANGED <<buckets, numEntries, stale, overlaid, crashed, class, complete>>
    BY <1>1, <2>4 DEF Refusing
  <2> QED
    BY <1>9, <2>3, <2>4 DEF LoadPrimitive
<1>10. CASE ArrayClass
  <2>1. At("array") /\ result # NoAnswer
    BY <1>10 DEF ArrayClass
  <2>2. result # Null => Parents(Here.name) \subseteq complete
    BY <2>1, ObjectReturned
  <2>3. CASE /\ result # Null /\ Put(Here.name) /\ Return(Here.name)
             /\ class' = [class EXCEPT ![Here.name] = WithoutFile(Object, HeaderSize)]
             /\ complete' = complete \cup {Here.name}
    <3>1. Object \in Names \cup {Null}
      BY ClassLoaderAssumption DEF HaveFiles
    <3> QED
      BY <1>1, <1>8, <2>2, <2>3, <3>1
  <2>4. CASE result = Null /\ Return(Null) /\ UNCHANGED <<mapVars, class, complete>>
    BY <1>1, <2>4 DEF Quiet
  <2>5. CASE /\ result # Null /\ AllocationFails /\ Return(Null)
             /\ UNCHANGED <<buckets, numEntries, stale, overlaid, crashed, class, complete>>
    BY <1>1, <2>5 DEF Refusing
  <2> QED
    BY <1>10, <2>3, <2>4, <2>5 DEF ArrayClass
<1>11. CASE BeginClass
  BY <1>1, <1>11, BeginClassBegins
<1>12. CASE ParseMembers
  <2> DEFINE n == Here.name
             f == files[n]
             inherited == InheritedSize(n)
  <2>1. /\ Here.at = "members" /\ Return(n) /\ complete' = complete \cup {n}
        /\ UNCHANGED <<buckets, numEntries, stale, overlaid, crashed>>
        /\ failures' = failures \/ AllocationFails
    BY <1>12 DEF ParseMembers, At
  <2>2. Parents(n) \subseteq complete /\ class[n].status = "LOADING"
    BY <1>1, <2>1, InCall, MakingIsLoading DEF FrameOK, Working
  <2>3. PICK p \in Sortings(f) :
            class' = [class EXCEPT ![n].status = "LOADED",
                                   ![n].fields = LayOut(f, p, inherited),
                                   ![n].objectSize = ObjectSize(f, p, inherited),
                                   ![n].staticDataSize = StaticDataSize(f, p),
                                   ![n].methods = Methods(f)]
    BY <1>12 DEF ParseMembers
  <2>4. DOMAIN class[n] = DOMAIN NoClass /\ class = [m \in Names |-> class[m]]
    BY <1>2 DEF ClassesTyped
  <2>5. class'[n].status = "LOADED" /\ Others(n)
    BY <1>2, <2>3, <2>4 DEF Others, NoClass
  <2> QED
    BY <1>1, <2>1, <2>2, <2>5 DEF Finishing
<1> QED
  BY <1>1, <1>3, <1>4, <1>5, <1>6, <1>7, <1>9, <1>10, <1>11, <1>12 DEF LoadClass0

\* The steps of loadClass change nothing of that.
LEMMA OuterSteps ==
    ASSUME [Next]_vars
    PROVE  LoadClass0 \/ UNCHANGED <<mapVars, class, complete, files>>
BY DEF Next, Ask, Lock, Unlock, vars, loadVars, callVars

-----------------------------------------------------------------------------
(* The map lists what is finished or in the making.                        *)

AllListed == (~crashed /\ failures = 0) =>
    \A n \in Names : n \in complete \/ class[n].status = "LOADING" => Listed(n)

\* What is put into the map is listed, or an allocation failed.
LEMMA PutLists ==
    ASSUME LoaderInv, AllListed, ~crashed, NEW n \in Names, Put(n),
           complete' \subseteq complete \cup {n}, Others(n)
    PROVE  AllListed'
<1>1. /\ failures \in Nat /\ failures' \in Nat /\ failures <= failures'
      /\ \A m \in Names \ {n} : Listed(m)' <=> Listed(m)
      /\ crashed' \/ failures < failures' \/ Listed(n)'
  <2>1. MapInv /\ n \in Keys
    BY DEF LoaderInv, Typed, Names
  <2> QED
    BY <2>1, PutKeepsMap, HashMapAssumption DEF MapInv, Names
<1> QED
  BY <1>1 DEF AllListed, Others

LEMMA AllListedKeeps ==
    ASSUME LoaderInv, AllListed, [Next]_vars
    PROVE  AllListed'
<1>1. complete \subseteq Names /\ MapInv /\ failures \in Nat
  BY HashMapAssumption DEF LoaderInv, Typed, MapInv
<1>2. CASE UNCHANGED <<mapVars, class, complete, files>>
  <2>1. \A n : Listed(n)' <=> Listed(n)
    BY <1>2 DEF mapVars, Listed, BucketOf
  <2> QED
    BY <1>2, <2>1 DEF AllListed, mapVars
<1>3. CASE LoadClass0
  <2>1. /\ calls # <<>> /\ ~crashed /\ Here.name \in Names
        /\ Crashing \/ Quiet \/ Refusing \/ Finishing(Here.name) \/ Beginning(Here.name)
    BY <1>3, InnerSteps, InCall
  <2>2. CASE Crashing
    BY <2>2 DEF Crashing, AllListed
  <2>3. CASE Quiet
    BY <1>1, <2>3, KeptStays DEF Quiet, AllListed, mapVars
  <2>4. CASE Refusing
    <3>1. failures' = failures \/ failures < failures'
      BY <1>1, <2>4, FailureCounted DEF Refusing
    <3>2. failures' = 0 => failures = 0
      BY <1>1, <2>4, <3>1, FailureCounted DEF Refusing
    <3> QED
      BY <1>1, <2>4, <3>2, KeptStays DEF Refusing, AllListed
  <2>5. CASE Finishing(Here.name)
    <3>1. CASE Put(Here.name)
      BY <2>1, <2>5, <3>1, PutLists DEF Finishing
    <3>2. CASE /\ UNCHANGED <<buckets, numEntries, stale, overlaid, crashed>>
               /\ failures' = failures \/ AllocationFails
               /\ class[Here.name].status = "LOADING"
      <4>1. \A n : Listed(n)' <=> Listed(n)
        BY <3>2 DEF Listed, BucketOf
      <4>2. failures' = failures \/ failures < failures'
        BY <1>1, <3>2, FailureCounted
      <4>3. failures' = 0 => failures = 0
        BY <1>1, <3>2, <4>2, FailureCounted
      <4> QED
        BY <2>5, <3>2, <4>1, <4>3 DEF AllListed, Finishing, Others
    <3> QED
      BY <2>5, <3>1, <3>2 DEF Finishing
  <2>6. CASE Beginning(Here.name)
    BY <2>1, <2>6, PutLists DEF Beginning
  <2> QED
    BY <2>1, <2>2, <2>3, <2>4, <2>5, <2>6
<1> QED
  BY <1>2, <1>3, OuterSteps

(***************************************************************************)
(* The map is sound, and between two loads it lists just the finished      *)
(* classes, if ht_put was never out of memory: no class is there twice, or *)
(* while it is being loaded (loadClass, ht_put, ht_delete).                *)
(***************************************************************************)
THEOREM TableStaysSound == Spec => []TableSound
<1>1. Init => AllListed
  BY DEF Init, NoClass, AllListed
<1>2. LoaderInv /\ AllListed /\ [Next]_vars => AllListed'
  BY AllListedKeeps
<1>3. LoaderInv /\ AllListed => TableSound
  <2> SUFFICES ASSUME LoaderInv, AllListed PROVE TableSound
    OBVIOUS
  <2>1. MapSound
    BY DEF LoaderInv, Typed, MapInv
  <2>2. (~crashed /\ failures = 0) =>
            \A n \in Names : Listed(n) <=> n \in complete \/ class[n].status = "LOADING"
    BY DEF LoaderInv, Finished, AllListed
  <2>3. lock = NoThread => \A n \in Names : class[n].status # "LOADING"
    <3> SUFFICES ASSUME lock = NoThread PROVE InProgress(calls) = {}
      BY DEF LoaderInv, Loading
    <3>1. calls = <<>>
      BY DEF LoaderInv, Typed
    <3> QED
      BY <3>1 DEF InProgress
  <2> QED
    BY <2>1, <2>2, <2>3 DEF TableSound
<1> QED
  BY <1>1, <1>2, <1>3, LoaderInvariant, PTL DEF Spec

-----------------------------------------------------------------------------
(* The loader implements ClassSpace.                                       *)

LEMMA FinishingKeeps ==
    ASSUME LoaderInv, NEW n \in Names, Finishing(n)
    PROVE  Kept' = Kept \/ Kept' = Kept \cup {n}
<1>1. /\ \A m \in Names \ {n} : Listed(m)' <=> Listed(m)
      /\ n \in Kept => Listed(n)'
  <2>1. CASE Put(n)
    <3>1. MapInv /\ n \in Keys
      BY DEF LoaderInv, Typed, Names
    <3> QED
      BY <2>1, <3>1, PutKeepsMap DEF Names, Kept
  <2>2. CASE UNCHANGED buckets /\ class[n].status = "LOADING"
    BY <2>2 DEF Kept, Listed, BucketOf
  <2> QED
    BY <2>1, <2>2 DEF Finishing
<1>2. complete \subseteq Names /\ complete' = complete \cup {n} /\ class'[n].status # "LOADING"
      /\ \A m \in Names \ {n} : class'[m] = class[m]
  BY DEF LoaderInv, Typed, Finishing, Others
<1>3. ASSUME NEW m, m # n PROVE m \in Kept' <=> m \in Kept
  BY <1>1, <1>2, <1>3 DEF Kept
<1>4. n \in Kept => n \in Kept'
  BY <1>1, <1>2 DEF Kept
<1> QED
  BY <1>3, <1>4

\* Only a class that is finished is kept anew.
LEMMA KeptSteps ==
    ASSUME LoaderInv, LoadClass0
    PROVE  \/ Kept' = Kept
           \/ Finishing(Here.name) /\ Kept' = Kept \cup {Here.name}
<1>1. /\ calls # <<>> /\ Here.name \in Names /\ complete \subseteq Names /\ MapInv
      /\ Crashing \/ Quiet \/ Refusing \/ Finishing(Here.name) \/ Beginning(Here.name)
  BY InnerSteps, InCall DEF LoaderInv, Typed
<1>2. CASE Crashing
  BY <1>2 DEF Crashing
<1>3. CASE Quiet
  BY <1>1, <1>3, KeptStays DEF Quiet, mapVars
<1>4. CASE Refusing
  BY <1>1, <1>4, KeptStays DEF Refusing
<1>5. CASE Finishing(Here.name)
  BY <1>1, <1>5, FinishingKeeps
<1>6. CASE Beginning(Here.name)
  <2> DEFINE n == Here.name
  <2>1. /\ ~Listed(n) /\ class'[n].status = "LOADING" /\ complete' = complete
        /\ \A m \in Names \ {n} : class'[m] = class[m]
        /\ \A m \in Names \ {n} : Listed(m)' <=> Listed(m)
    BY <1>1, <1>6, PutKeepsMap DEF Beginning, Others, Names
  <2> QED
    BY <1>1, <2>1 DEF Kept
<1> QED
  BY <1>1, <1>2, <1>3, <1>4, <1>5, <1>6

\* Among the classes found again is not the one a call has returned none of, nor
\* an array class that is waiting for java/lang/Object.
NullOK(cs, r, found, root) == r = Null => Wanted(cs, root) \notin found
ArraysMissing(cs, found) == \A i \in 1 .. Len(cs) : cs[i].at = "array" => cs[i].name \notin found
Missing == NullOK(calls, result, Kept, asked[lock]) /\ ArraysMissing(calls, Kept)

LEMMA MissingFrom ==
    ASSUME files' = files, NullOK(calls', result', Kept', asked'[lock']), ArraysMissing(calls', Kept')
    PROVE  Missing'
<1>1. \A c : Wants(c)' = Wants(c)
  BY FilesStay
<1> QED
  BY <1>1 DEF Missing, NullOK, ArraysMissing, Wanted

LEMMA FrontMissing ==
    ASSUME calls \in Seq(Frame), calls # <<>>, NEW found, ArraysMissing(calls, found)
    PROVE  ArraysMissing(Front(calls), found)
<1>1. /\ Len(calls) \in Nat \ {0} /\ Len(Front(calls)) = Len(calls) - 1
      /\ \A i \in 1 .. Len(calls) - 1 : Front(calls)[i] = calls[i]
  BY FrontAndLast
<1> QED
  BY <1>1 DEF ArraysMissing

\* A call returns and nothing is kept anew.
LEMMA ReturnMisses ==
    ASSUME LoaderInv, Missing, calls # <<>>, UNCHANGED callVars, Kept' = Kept,
           NEW s \in Names \cup {Null}, Return(s), s = Null => Here.name \notin Kept
    PROVE  Missing'
<1>1. calls \in Seq(Frame) /\ files' = files /\ calls' = Front(calls) /\ result' = s
  BY DEF LoaderInv, Typed, Return, callVars
<1>2. Wanted(Front(calls), asked[lock]) = Here.name
  <2>1. StackOK(calls, result, complete, asked[lock]) /\ complete \subseteq complete
    BY InCall
  <2>2. Null \in Names \cup {Null} /\ (Null # Null => Null = Last(calls).name /\ Null \in complete)
    OBVIOUS
  <2> QED
    BY <1>1, <2>1, <2>2, CallReturns DEF Here
<1>3. NullOK(calls', result', Kept', asked'[lock'])
  BY <1>1, <1>2 DEF NullOK, callVars
<1>4. ArraysMissing(calls', Kept')
  BY <1>1, FrontMissing DEF Missing
<1> QED
  BY <1>1, <1>3, <1>4, MissingFrom

\* A call goes on, or one more is made, and nothing is kept anew.
LEMMA GoMisses ==
    ASSUME LoaderInv, Missing, calls # <<>>, UNCHANGED callVars, Kept' = Kept, result' = NoAnswer,
           NEW c \in Frame, c.at = "array" => c.name \notin Kept,
           calls' = Front(calls) \o <<c>>
    PROVE  Missing'
<1>1. calls \in Seq(Frame) /\ files' = files
  BY DEF LoaderInv, Typed, callVars
<1>2. /\ Len(calls') = Len(calls) /\ calls'[Len(calls)] = c /\ Len(calls) \in Nat
      /\ \A i \in 1 .. Len(calls) - 1 : calls'[i] = calls[i]
  BY <1>1, NewLast
<1>3. ArraysMissing(calls', Kept')
  BY <1>2 DEF Missing, ArraysMissing
<1>4. NullOK(calls', result', Kept', asked'[lock'])
  BY ClassLoaderAssumption DEF NullOK
<1> QED
  BY <1>1, <1>3, <1>4, MissingFrom

LEMMA NestMisses ==
    ASSUME NEW cs \in Seq(Frame), NEW found, ArraysMissing(cs, found), NEW n \in Names
    PROVE  ArraysMissing(Append(cs, NewCall(n)), found)
<1> DEFINE q == Append(cs, NewCall(n))
<1>1. NewCall(n) \in Frame /\ NewCall(n).at = "lookup"
  BY DEF NewCall, Frame, Points
<1>2. Len(q) = Len(cs) + 1 /\ Len(cs) \in Nat /\ q[Len(cs) + 1] = NewCall(n)
      /\ \A i \in 1 .. Len(cs) : q[i] = cs[i]
  BY <1>1, Pushed
<1> HIDE DEF q
<1>3. \A i \in 1 .. Len(cs) + 1 : i \in 1 .. Len(cs) \/ i = Len(cs) + 1
  BY <1>2
<1> QED
  BY <1>1, <1>2, <1>3 DEF ArraysMissing, q

\* One finishes a class, which no call before it is for.
LEMMA FinishMisses ==
    ASSUME LoaderInv, Missing, calls # <<>>, UNCHANGED callVars,
           Finishing(Here.name), Kept' = Kept \cup {Here.name}
    PROVE  Missing'
<1>1. /\ calls \in Seq(Frame) /\ files' = files /\ calls' = Front(calls) /\ result' = Here.name
      /\ Here.name \in Names
  BY InCall DEF LoaderInv, Typed, Return, callVars, Finishing
<1>2. Here.name \notin Reaches(Here.name)
  BY <1>1, NotItsAncestor DEF Finishing
<1>3. /\ Len(calls) \in Nat \ {0} /\ Len(Front(calls)) = Len(calls) - 1
      /\ \A i \in 1 .. Len(calls) - 1 : Front(calls)[i] = calls[i]
  BY <1>1, FrontAndLast
<1>4. \A i \in 1 .. Len(calls) - 1 : calls[i].name # Here.name
  BY <1>2, InCall
<1>5. ArraysMissing(calls', Kept')
  BY <1>1, <1>3, <1>4 DEF Missing, ArraysMissing
<1>6. NullOK(calls', result', Kept', asked'[lock'])
  BY <1>1, ClassLoaderAssumption DEF NullOK
<1> QED
  BY <1>1, <1>5, <1>6, MissingFrom

LEMMA CallMisses ==
    ASSUME LoaderInv, Missing, calls # <<>>, UNCHANGED callVars, Kept' = Kept, result = NoAnswer,
           NEW n \in Names, Call(n)
    PROVE  Missing'
<1>1. calls \in Seq(Frame) /\ files' = files
  BY DEF LoaderInv, Typed, callVars
<1>2. calls' = Append(calls, NewCall(n)) /\ result' = NoAnswer
  <2>1. NewCall(n) \in Frame
    BY DEF NewCall, Frame, Points
  <2> QED
    BY <1>1, <2>1, AppendIsConcat DEF Call
<1>3. ArraysMissing(calls', Kept')
  BY <1>1, <1>2, NestMisses DEF Missing
<1>4. NullOK(calls', result', Kept', asked'[lock'])
  BY <1>2, ClassLoaderAssumption DEF NullOK
<1> QED
  BY <1>1, <1>3, <1>4, MissingFrom

LEMMA GotoMisses ==
    ASSUME LoaderInv, Missing, calls # <<>>, UNCHANGED callVars, Kept' = Kept, result' = NoAnswer,
           NEW point \in Working, NEW next \in Nat, Goto(point, next)
    PROVE  Missing'
<1> DEFINE c == [Here EXCEPT !.at = point, !.next = next]
<1>1. c \in Frame /\ c.at # "array" /\ calls' = Front(calls) \o <<c>>
  BY InCall DEF Goto, Frame, Working, Points
<1> HIDE DEF c
<1> QED
  BY <1>1, GoMisses

LEMMA LoadArrayMisses ==
    ASSUME LoaderInv, Missing, LoadArray, Kept' = Kept
    PROVE  Missing'
<1> DEFINE c == [Here EXCEPT !.at = "array"]
           cs == Front(calls) \o <<c>>
<1>1. /\ calls # <<>> /\ Here.at = "lookup" /\ ~Listed(Here.name) /\ UNCHANGED callVars
      /\ calls' = Append(cs, NewCall(Object)) /\ result' = result
  BY DEF LoadArray, At, OnlyCalls, GetMisses
<1>2. /\ files' = files /\ calls \in Seq(Frame) /\ Here \in Frame /\ result = NoAnswer
      /\ Object \in Names /\ Here.name \notin Kept
  BY <1>1, NothingReturned, InCall, ClassLoaderAssumption DEF LoaderInv, Typed, HaveFiles, callVars, Kept
<1>3. c \in Frame /\ c.name = Here.name
  BY <1>2 DEF Frame, Points
<1> HIDE DEF c
<1>4. /\ cs \in Seq(Frame) /\ Len(cs) = Len(calls) /\ cs[Len(calls)] = c /\ Len(calls) \in Nat
      /\ \A i \in 1 .. Len(calls) - 1 : cs[i] = calls[i]
  <2>1. Len(calls) \in Nat
    BY <1>2
  <2>2. calls # <<>> /\ calls \in Seq(Frame) /\ c \in Frame
    BY <1>1, <1>2, <1>3
  <2>3. LET q == Front(calls) \o <<c>>
        IN  /\ q \in Seq(Frame) /\ Len(q) = Len(calls) /\ q[Len(calls)] = c
            /\ \A i \in 1 .. Len(calls) - 1 : q[i] = calls[i]
    BY <2>2, NewLast
  <2> QED
    BY <2>1, <2>3
<1>5. ArraysMissing(cs, Kept)
  BY <1>2, <1>3, <1>4 DEF Missing, ArraysMissing
<1> HIDE DEF cs
<1>6. ArraysMissing(calls', Kept')
  BY <1>1, <1>2, <1>4, <1>5, NestMisses
<1>7. NullOK(calls', result', Kept', asked'[lock'])
  BY <1>1, <1>2, ClassLoaderAssumption DEF NullOK
<1> QED
  BY <1>2, <1>6, <1>7, MissingFrom

LEMMA InnerMisses ==
    ASSUME LoaderInv, Missing, LoadClass0
    PROVE  Missing'
<1>1. /\ calls # <<>> /\ UNCHANGED callVars /\ Here.name \in Names
      /\ calls \in Seq(Frame) /\ files \in FileSets
      /\ Crashing \/ Quiet \/ Refusing \/ Finishing(Here.name) \/ Beginning(Here.name)
  BY InnerSteps, InCall DEF LoaderInv, Typed
<1>2. CASE Finishing(Here.name) /\ Kept' = Kept \cup {Here.name}
  BY <1>1, <1>2, FinishMisses
<1>3. CASE Kept' = Kept
  <2>1. CASE LookupCrashes \/ NoFile \/ Fail
    <3>1. calls' = calls /\ result' = result /\ UNCHANGED callVars
      BY <2>1 DEF LookupCrashes, NoFile, Fail, loadVars
    <3> QED
      BY <1>3, <3>1, MissingFrom DEF Missing, callVars
  <2>2. CASE Lookup
    <3>1. Return(IF class[Here.name].status = "LOADING" THEN Null ELSE Here.name)
      BY <2>2 DEF Lookup
    <3>2. class[Here.name].status = "LOADING" => Here.name \notin Kept
      BY DEF Kept
    <3>3. CASE class[Here.name].status = "LOADING"
      BY <1>1, <1>3, <3>1, <3>2, <3>3, ReturnMisses
    <3>4. CASE class[Here.name].status # "LOADING"
      BY <1>1, <1>3, <3>1, <3>4, ReturnMisses, ClassLoaderAssumption
    <3> QED
      BY <3>3, <3>4
  <2>3. CASE LoadPrimitive
    <3>1. Here.name \notin Kept
      BY <2>3 DEF LoadPrimitive, GetMisses, Kept
    <3>2. PICK s \in {Null, Here.name} : Return(s)
      BY <2>3 DEF LoadPrimitive
    <3> QED
      BY <1>1, <1>3, <3>1, <3>2, ReturnMisses
  <2>4. CASE LoadArray
    BY <1>3, <2>4, LoadArrayMisses
  <2>5. CASE ArrayClass
    <3>1. Here.name \notin Kept
      <4>1. Here = calls[Len(calls)] /\ Len(calls) \in 1 .. Len(calls) /\ Here.at = "array"
        <5>1. Here.at = "array"
          BY <2>5 DEF ArrayClass, At
        <5>2. Len(calls) \in Nat \ {0} /\ Here = calls[Len(calls)]
          BY <1>1, FrontAndLast DEF Here
        <5> QED
          BY <5>1, <5>2
      <4> QED
        BY <4>1 DEF Missing, ArraysMissing
    <3>2. PICK s \in {Null, Here.name} : Return(s)
      BY <2>5 DEF ArrayClass
    <3> QED
      BY <1>1, <1>3, <3>1, <3>2, ReturnMisses
  <2>6. CASE RefuseFile
    <3>1. Here.name \notin Kept /\ Return(Null)
      BY <2>6 DEF RefuseFile, AtFile, GetMisses, Kept
    <3> QED
      BY <1>1, <1>3, <3>1, ReturnMisses
  <2>7. CASE BeginClass
    <3>1. Goto("super", 1) /\ result' = NoAnswer
      BY <1>1, <2>7, NothingReturned DEF BeginClass, AtFile, At
    <3> QED
      BY <1>1, <1>3, <3>1, GotoMisses DEF Working
  <2>8. CASE CallSuper
    <3> DEFINE f == files[Here.name]
    <3>1. /\ Here.at = "super" /\ result = NoAnswer
          /\ IF f.super = 0 THEN Goto("interfaces", 1) /\ result' = result
                            ELSE Call(NameAt(f, f.super))
      BY <2>8 DEF CallSuper, At
    <3>2. Readable(Here.name)
      BY <1>1, <3>1, InTheMaking DEF Working
    <3>3. f.super # 0 => NameAt(f, f.super) \in Names
      BY <1>1, <3>2, IndexesAreParents, ParentsAreNames
    <3>4. CASE f.super = 0
      BY <1>1, <1>3, <3>1, <3>4, GotoMisses DEF Working
    <3>5. CASE f.super # 0
      BY <1>1, <1>3, <3>1, <3>3, <3>5, CallMisses
    <3> QED
      BY <3>4, <3>5
  <2>9. CASE SuperLoaded
    <3>1. Goto("interfaces", 1) /\ result' = NoAnswer
      BY <2>9 DEF SuperLoaded
    <3> QED
      BY <1>1, <1>3, <3>1, GotoMisses DEF Working
  <2>10. CASE CallInterface
    <3> DEFINE f == files[Here.name]
               n == Here.next
    <3>1. /\ Here.at = "interfaces" /\ result = NoAnswer
          /\ IF n > Len(f.interfaces) THEN Goto("members", 1) /\ result' = result
                                      ELSE Call(NameAt(f, f.interfaces[n]))
      BY <2>10 DEF CallInterface, At
    <3>2. Readable(Here.name)
      BY <1>1, <3>1, InTheMaking DEF Working
    <3>3. n \in 1 .. Len(f.interfaces) + 1 /\ f.interfaces \in Seq(Nat)
      BY <1>1, <3>1, <3>2, InCall, IndexesAreParents DEF FrameOK
    <3>4. CASE n > Len(f.interfaces)
      BY <1>1, <1>3, <3>1, <3>4, GotoMisses DEF Working
    <3>5. CASE ~(n > Len(f.interfaces))
      <4>1. n \in 1 .. Len(f.interfaces)
        BY <3>3, <3>5
      <4>2. NameAt(f, f.interfaces[n]) \in Names
        BY <1>1, <3>2, <4>1, IndexesAreParents, ParentsAreNames
      <4> QED
        BY <1>1, <1>3, <3>1, <3>5, <4>2, CallMisses
    <3> QED
      BY <3>4, <3>5
  <2>11. CASE InterfaceLoaded
    <3>1. Goto("interfaces", Here.next + 1) /\ result' = NoAnswer
      BY <2>11 DEF InterfaceLoaded
    <3>2. Here.next + 1 \in Nat
      BY <1>1, InCall
    <3> QED
      BY <1>1, <1>3, <3>1, <3>2, GotoMisses DEF Working
  <2>12. CASE ParseMembers
    <3>1. Return(Here.name)
      BY <2>12 DEF ParseMembers
    <3> QED
      BY <1>1, <1>3, <3>1, ReturnMisses, ClassLoaderAssumption
  <2> QED
    BY <2>1, <2>2, <2>3, <2>4, <2>5, <2>6, <2>7, <2>8, <2>9, <2>10, <2>11, <2>12 DEF LoadClass0
<1> QED
  BY <1>2, <1>3, KeptSteps

LEMMA MissingKeeps ==
    ASSUME LoaderInv, Missing, [Next]_vars
    PROVE  Missing'
<1>1. CASE LoadClass0
  BY <1>1, InnerMisses
<1>2. CASE UNCHANGED <<mapVars, class, complete, files>>
  <2>1. Kept' = Kept /\ files' = files
    BY <1>2, KeptStays DEF mapVars, LoaderInv, Typed
  <2>2. CASE \E t \in Threads : Lock(t)
    <3> DEFINE c == NewCall(asked[lock'])
    <3>1. calls' = <<c>> /\ result' = result /\ lock = NoThread
      BY <2>2 DEF Lock
    <3>2. result = NoAnswer
      BY <3>1 DEF LoaderInv, Typed
    <3>3. Len(<<c>>) = 1 /\ <<c>>[1] = c /\ c.at = "lookup"
      BY DEF NewCall
    <3> HIDE DEF c
    <3>4. ArraysMissing(calls', Kept') /\ NullOK(calls', result', Kept', asked'[lock'])
      BY <3>1, <3>2, <3>3, ClassLoaderAssumption DEF ArraysMissing, NullOK
    <3> QED
      BY <2>1, <3>4, MissingFrom
  <2>3. CASE \E t \in Threads : Unlock(t)
    <3>1. calls' = <<>> /\ result' = NoAnswer
      BY <2>3 DEF Unlock
    <3>2. ArraysMissing(calls', Kept') /\ NullOK(calls', result', Kept', asked'[lock'])
      BY <3>1, ClassLoaderAssumption DEF ArraysMissing, NullOK
    <3> QED
      BY <2>1, <3>2, MissingFrom
  <2>4. CASE \E t \in Threads : \E n \in Needs[t] : Ask(t, n)
    <3>1. PICK t \in Threads : \E n \in Needs[t] : Ask(t, n)
      BY <2>4
    <3>2. /\ calls' = calls /\ result' = result /\ lock' = lock
          /\ lock # t => asked'[lock] = asked[lock] \/ lock \notin DOMAIN asked
      BY <3>1 DEF Ask, loadVars
    <3>3. lock # t
      BY <3>1, ClassLoaderAssumption DEF Ask, LoaderInv, Typed
    <3>4. CASE lock = NoThread
      <4>1. result = NoAnswer
        BY <3>4 DEF LoaderInv, Typed
      <4>2. ArraysMissing(calls', Kept') /\ NullOK(calls', result', Kept', asked'[lock'])
        BY <2>1, <3>2, <4>1, ClassLoaderAssumption DEF ArraysMissing, NullOK, Missing
      <4> QED
        BY <2>1, <4>2, MissingFrom
    <3>5. CASE lock # NoThread
      <4>1. asked'[lock] = asked[lock]
        BY <3>2, <3>3, <3>5 DEF LoaderInv, Typed
      <4> QED
        BY <2>1, <3>2, <4>1, MissingFrom DEF Missing
    <3> QED
      BY <3>4, <3>5
  <2>5. CASE UNCHANGED vars
    <3>1. UNCHANGED <<calls, result, lock, asked>>
      BY <2>5 DEF vars, loadVars, callVars
    <3> QED
      BY <2>1, <3>1, MissingFrom DEF Missing
  <2> QED
    BY <1>1, <2>2, <2>3, <2>4, <2>5 DEF Next
<1> QED
  BY <1>1, <1>2, OuterSteps

LEMMA InitMaps == Init => ClassSpace!Init
<1> SUFFICES ASSUME Init PROVE ClassSpace!Init
  OBVIOUS
<1>1. ParentsOf \in [Names -> SUBSET Names]
  BY ParentsAreNames DEF Init
<1>2. complete = {} /\ Kept = {} /\ answer = [t \in Threads |-> Null]
  BY DEF Init, Kept
<1>3. asked = [t \in Threads |-> NoAnswer]
  BY DEF Init
<1> QED
  BY <1>1, <1>2, <1>3 DEF ClassSpace!Init

LEMMA StepMaps ==
    ASSUME LoaderInv, Missing, [Next]_vars
    PROVE  [ClassSpace!Next]_(ClassSpace!vars)
<1>1. ParentsOf' = ParentsOf
  <2>1. files' = files
    BY InnerSteps, OuterSteps DEF callVars
  <2> QED
    BY <2>1, FilesStay
<1>2. CASE LoadClass0
  <2>1. UNCHANGED <<asked, answer>> /\ calls # <<>> /\ Here.name \in Names
    BY <1>2, InnerSteps, InCall DEF callVars
  <2>2. CASE Finishing(Here.name)
    <3> DEFINE n == Here.name
    <3>1. Kept' \in {Kept, Kept \cup {n}} /\ complete' = complete \cup {n}
      BY <2>1, <2>2, FinishingKeeps DEF Finishing
    <3>2. ParentsOf[n] \subseteq complete
      BY <2>1, <2>2 DEF Finishing, ParentsOf
    <3>3. ClassSpace!Define(n)
      BY <1>1, <2>1, <3>1, <3>2 DEF ClassSpace!Define
    <3> QED
      BY <2>1, <3>3 DEF ClassSpace!Next
  <2>3. CASE ~Finishing(Here.name)
    <3>1. Kept' = Kept
      BY <1>2, <2>3, KeptSteps
    <3>2. complete' = complete
      BY <1>2, <2>3, InnerSteps DEF Crashing, Quiet, Refusing, Beginning, loadVars
    <3> QED
      BY <1>1, <2>1, <3>1, <3>2 DEF ClassSpace!vars
  <2> QED
    BY <2>2, <2>3
<1>3. CASE ~LoadClass0
  <2>1. UNCHANGED <<mapVars, class, complete, files>>
    BY <1>3, OuterSteps
  <2>2. Kept' = Kept /\ complete' = complete
    BY <2>1, KeptStays DEF mapVars, LoaderInv, Typed
  <2>3. ASSUME NEW t \in Threads, NEW n \in Needs[t], Ask(t, n)
        PROVE  ClassSpace!Next
    <3>1. n \in Names
      BY <2>3, ClassLoaderAssumption
    <3>2. ClassSpace!Ask(t, n)
      BY <1>1, <2>2, <2>3 DEF Ask, ClassSpace!Ask
    <3> QED
      BY <3>1, <3>2 DEF ClassSpace!Next
  <2>4. ASSUME NEW t \in Threads, Lock(t)
        PROVE  UNCHANGED ClassSpace!vars
    BY <1>1, <2>2, <2>4 DEF Lock, ClassSpace!vars
  <2>5. ASSUME NEW t \in Threads, Unlock(t)
        PROVE  ClassSpace!Next
    <3>1. /\ lock = t /\ calls = <<>> /\ result # NoAnswer /\ answer[t] = NoAnswer
          /\ answer' = [answer EXCEPT ![t] = result] /\ asked' = asked
      BY <2>5, ClassLoaderAssumption DEF Unlock, LoaderInv, Typed
    <3>2. Wanted(calls, asked[lock]) = asked[t]
      BY <3>1 DEF Wanted
    <3>3. CASE result = Null
      <4>1. asked[t] \notin Kept
        BY <3>2, <3>3 DEF Missing, NullOK
      <4>2. ClassSpace!Refuse(t)
        BY <1>1, <2>2, <3>1, <3>3, <4>1 DEF ClassSpace!Refuse
      <4> QED
        BY <4>2 DEF ClassSpace!Next
    <3>4. CASE result # Null
      <4>1. result = asked[t] /\ result \in complete
        BY <3>1, <3>2, <3>4 DEF LoaderInv, Stack, StackOK
      <4>2. ClassSpace!Give(t)
        BY <1>1, <2>2, <3>1, <4>1 DEF ClassSpace!Give
      <4> QED
        BY <4>2 DEF ClassSpace!Next
    <3> QED
      BY <3>3, <3>4
  <2>6. CASE UNCHANGED vars
    BY <1>1, <2>2, <2>6 DEF vars, callVars, ClassSpace!vars
  <2> QED
    BY <1>3, <2>3, <2>4, <2>5, <2>6 DEF Next
<1> QED
  BY <1>2, <1>3

LEMMA MissingInvariant == Spec => []Missing
<1>1. Init => Missing
  BY ClassLoaderAssumption DEF Init, Missing, NullOK, ArraysMissing
<1>2. LoaderInv /\ Missing /\ [Next]_vars => Missing'
  BY MissingKeeps
<1> QED
  BY <1>1, <1>2, LoaderInvariant, PTL DEF Spec

(***************************************************************************)
(* The loader implements ClassSpace: a class is finished only after its    *)
(* superclass and interfaces, nobody gets one that is being loaded, and    *)
(* nobody is refused one that is finished, unless ht_put had no memory to  *)
(* remember it (loadClass0, parseClassFile).                               *)
(***************************************************************************)
THEOREM LoaderImplementsClassSpace == Spec => LoaderSpec
<1>1. Init => ClassSpace!Init
  BY InitMaps
<1>2. LoaderInv /\ Missing /\ [Next]_vars => [ClassSpace!Next]_(ClassSpace!vars)
  BY StepMaps
<1> QED
  BY <1>1, <1>2, LoaderInvariant, MissingInvariant, PTL DEF Spec, LoaderSpec, ClassSpace!Spec

-----------------------------------------------------------------------------
(* Why a load is refused, and why the process crashes.                     *)

\* The last of the calls cs has got no class: its file is refused, or it is among
\* the classes being loaded.
WhyNull(cs, r, root) ==
    (failures = 0 /\ r = Null) =>
        \/ Refused(Source(Wanted(cs, root)))
        \/ Source(Wanted(cs, root)) \in InProgress(cs)
Reasons == WhyNull(calls, result, asked[lock])

Excuse ==
    \E n \in HaveFiles :
        \/ files[n].kind = "missing"
        \/ n \in Reaches(n)
        \/ \E m \in Parents(n) : Refused(Source(m))

LEMMA ExcuseStays ==
    ASSUME files' = files
    PROVE  /\ Excuse' <=> Excuse
           /\ \A n : Refused(n)' <=> Refused(n)
           /\ \A cs, root : Wanted(cs, root)' = Wanted(cs, root)
<1>1. /\ \A n : Parents(n)' = Parents(n) /\ Reaches(n)' = Reaches(n)
      /\ \A c : Wants(c)' = Wants(c)
  BY FilesStay
<1>2. \A n : Refused(n)' <=> Refused(n)
  BY DEF Refused
<1>3. \A cs, root : Wanted(cs, root)' = Wanted(cs, root)
  BY <1>1 DEF Wanted
<1> QED
  BY <1>1, <1>2, <1>3 DEF Excuse

\* A class whose parent is being loaded by an earlier call, or is an array class and
\* java/lang/Object is, leads back to a class with a file.
LEMMA BackToItself ==
    ASSUME LoaderInv, calls # <<>>, Here.at \in Working, NEW m \in Parents(Here.name),
           Source(m) \in InProgress(calls)
    PROVE  \E x \in HaveFiles : x \in Reaches(x)
<1> DEFINE n == Here.name
           s == Source(m)
<1>1. /\ calls \in Seq(Frame) /\ files \in FileSets /\ n \in Names /\ Len(calls) \in Nat \ {0}
      /\ StackOK(calls, result, complete, asked[lock]) /\ Here = calls[Len(calls)]
  BY InCall, FrontAndLast DEF LoaderInv, Typed, Here
<1>2. PICK j \in 1 .. Len(calls) : calls[j].at \in Working /\ calls[j].name = s
  BY InProgressIs
<1>3. s \in HaveFiles /\ s \in Names
  BY <1>1, <1>2 DEF StackOK, FrameOK, Readable, HaveFiles
<1>4. s \in Reaches(n)
  <2>1. CASE m \notin Arrays
    BY <1>1, <2>1, ReachesUp DEF Source
  <2>2. CASE m \in Arrays
    <3>1. Parents(m) = {Object} /\ s = Object
      BY <2>2 DEF Parents, Source, HaveFiles
    <3> QED
      BY <1>1, <3>1, ReachesUp
  <2> QED
    BY <2>1, <2>2
<1>5. CASE j = Len(calls)
  BY <1>1, <1>2, <1>3, <1>4, <1>5
<1>6. CASE j # Len(calls)
  <2>1. j \in 1 .. Len(calls) - 1
    BY <1>1, <1>2, <1>6
  <2>2. n \in Reaches(s)
    BY <1>2, <2>1, InCall
  <2>3. /\ Reaches(s) \in SUBSET Names /\ Parents(n) \subseteq Reaches(s)
        /\ \A k \in Reaches(s) : Parents(k) \subseteq Reaches(s)
    BY <1>1, <1>3, <2>2, ReachesUp
  <2>4. Reaches(n) \subseteq Reaches(s)
    BY <1>1, <2>3, ReachesUp
  <2> QED
    BY <1>3, <1>4, <2>4
<1> QED
  BY <1>5, <1>6

\* ht_put crashes for a map that is full or overlaid.
LEMMA PutCrashes ==
    ASSUME LoaderInv, ~crashed, NEW n \in Names, Put(n), crashed'
    PROVE  Full' \/ overlaid'
<1>1. MapInv /\ n \in Keys
  BY DEF LoaderInv, Typed, Names
<1>2. (Full \/ Strays(n)) /\ numEntries' = numEntries /\ overlaid' = overlaid
  BY <1>1, PutKeepsMap
<1>3. stale = {}
  BY <1>1 DEF MapInv, MapSound
<1>4. Full' <=> Full
  BY <1>2 DEF Full
<1> QED
  BY <1>2, <1>3, <1>4 DEF Strays

LEMMA CrashExplained ==
    ASSUME LoaderInv, Reasons, LoadClass0, crashed', failures' = 0
    PROVE  overlaid' \/ Full' \/ Excuse
<1>1. calls # <<>> /\ ~crashed /\ Here.name \in Names /\ MapInv
  BY InnerSteps, InCall DEF LoaderInv, Typed
<1>2. ~AllocationFails
  BY <1>1, FailureCounted, HashMapAssumption DEF MapInv
<1>3. Put(Here.name) => overlaid' \/ Full'
  BY <1>1, PutCrashes
<1>4. CASE LookupCrashes
  <2>1. Strays(Here.name) /\ overlaid' = overlaid
    BY <1>4 DEF LookupCrashes, Crash
  <2>2. stale = {}
    BY <1>1 DEF MapInv, MapSound
  <2> QED
    BY <2>1, <2>2 DEF Strays
<1>5. CASE NoFile
  BY <1>2, <1>5 DEF NoFile, Excuse
<1>6. CASE Fail
  <2>1. /\ Here.at \in {"super", "interfaces"} /\ result = Null /\ failures = 0
    BY <1>2, <1>6 DEF Fail, At
  <2>2. Waiting(Here) /\ Readable(Here.name)
    BY <1>1, <2>1, InCall, ClassLoaderAssumption DEF FrameOK, Working
  <2> DEFINE m == Wants(Here)
  <2>3. m \in Parents(Here.name) /\ Here.name \in HaveFiles
    BY <2>2 DEF Waiting, Readable
  <2>4. Wanted(calls, asked[lock]) = m
    BY <1>1, FrontAndLast DEF Wanted, Here, LoaderInv, Typed
  <2>5. Refused(Source(m)) \/ Source(m) \in InProgress(calls)
    BY <2>1, <2>4 DEF Reasons, WhyNull
  <2> HIDE DEF m
  <2>6. CASE Refused(Source(m))
    BY <2>3, <2>6 DEF Excuse
  <2>7. CASE Source(m) \in InProgress(calls)
    <3>1. \E x \in HaveFiles : x \in Reaches(x)
      BY <1>1, <2>1, <2>3, <2>7, BackToItself DEF Working
    <3> QED
      BY <3>1 DEF Excuse
  <2> QED
    BY <2>5, <2>6, <2>7
<1>7. CASE LoadPrimitive \/ ArrayClass \/ BeginClass
  <2>1. Put(Here.name) \/ crashed' = crashed
    BY <1>7 DEF LoadPrimitive, ArrayClass, BeginClass, mapVars
  <2> QED
    BY <1>1, <1>3, <2>1
<1>8. CASE \/ Lookup \/ LoadArray \/ RefuseFile \/ CallSuper \/ SuperLoaded
           \/ CallInterface \/ InterfaceLoaded \/ ParseMembers
  <2>1. crashed' = crashed
    BY <1>8 DEF Lookup, LoadArray, RefuseFile, CallSuper, SuperLoaded, CallInterface, InterfaceLoaded,
                ParseMembers, mapVars
  <2> QED
    BY <1>1, <2>1
<1> QED
  BY <1>4, <1>5, <1>6, <1>7, <1>8 DEF LoadClass0

LEMMA FailuresGrow ==
    ASSUME LoaderInv, [Next]_vars
    PROVE  /\ failures \in Nat /\ failures' \in Nat /\ failures <= failures'
           /\ failures' = 0 => failures = 0
           /\ files' = files
<1>1. MapInv /\ failures \in Nat
  BY HashMapAssumption DEF LoaderInv, Typed, MapInv
<1>2. CASE LoadClass0
  <2>1. calls # <<>> /\ Here.name \in Keys /\ files' = files
    BY <1>2, InnerSteps, InCall DEF Names, callVars
  <2>2. failures' = failures \/ AllocationFails \/ Put(Here.name)
    BY <1>2 DEF LoadClass0, LookupCrashes, Lookup, LoadPrimitive, LoadArray, ArrayClass, NoFile, RefuseFile,
         BeginClass, CallSuper, SuperLoaded, CallInterface, InterfaceLoaded, ParseMembers,
         Fail, mapVars
  <2>3. AllocationFails => failures' \in Nat /\ failures < failures'
    BY <1>1, FailureCounted, HashMapAssumption
  <2>4. Put(Here.name) => failures' \in Nat /\ failures <= failures'
    BY <1>1, <2>1, PutKeepsMap, HashMapAssumption DEF MapInv
  <2> QED
    BY <1>1, <2>1, <2>2, <2>3, <2>4
<1>3. CASE UNCHANGED <<mapVars, class, complete, files>>
  BY <1>1, <1>3 DEF mapVars
<1> QED
  BY <1>2, <1>3, OuterSteps

LEMMA ReasonsFrom ==
    ASSUME LoaderInv, [Next]_vars, result' = Null =>
               \/ failures' # 0
               \/ Refused(Source(Wanted(calls', asked'[lock'])))
               \/ Source(Wanted(calls', asked'[lock'])) \in InProgress(calls')
    PROVE  Reasons'
<1>1. files' = files
  BY FailuresGrow
<1>2. Wanted(calls, asked[lock])' = Wanted(calls', asked'[lock'])
  BY <1>1, ExcuseStays, FilesStay DEF Wanted
<1>3. Refused(Source(Wanted(calls, asked[lock])))' <=> Refused(Source(Wanted(calls', asked'[lock'])))
  BY <1>1, <1>2 DEF Refused, Source
<1>4. (Source(Wanted(calls, asked[lock])) \in InProgress(calls))' <=>
          Source(Wanted(calls', asked'[lock'])) \in InProgress(calls')
  BY <1>2 DEF Source, InProgress
<1> QED
  BY <1>3, <1>4 DEF Reasons, WhyNull

\* A call returns no class, for one of the reasons.
LEMMA ReturnsForReason ==
    ASSUME LoaderInv, [Next]_vars, calls # <<>>, UNCHANGED callVars, Return(Null), Here.at \notin Working,
           \/ failures' # 0
           \/ Refused(Source(Here.name))
           \/ Source(Here.name) \in InProgress(calls)
    PROVE  Reasons'
<1>1. calls \in Seq(Frame) /\ calls' = Front(calls) /\ asked'[lock'] = asked[lock]
  BY DEF LoaderInv, Typed, Return, callVars
<1>2. Wanted(Front(calls), asked[lock]) = Here.name
  <2>1. StackOK(calls, result, complete, asked[lock]) /\ complete \subseteq complete
    BY InCall
  <2>2. Null \in Names \cup {Null} /\ (Null # Null => Null = Last(calls).name /\ Null \in complete)
    OBVIOUS
  <2> QED
    BY <1>1, <2>1, <2>2, CallReturns DEF Here
<1>3. InProgress(calls') = InProgress(calls)
  BY <1>1, InProgressReturns DEF Here
<1> QED
  BY <1>1, <1>2, <1>3, ReasonsFrom

LEMMA InnerReasons ==
    ASSUME LoaderInv, Reasons, [Next]_vars, LoadClass0
    PROVE  Reasons'
<1>1. calls # <<>> /\ UNCHANGED callVars /\ Here.name \in Names /\ MapInv /\ {Null, NoAnswer} \cap Names = {}
  BY InnerSteps, InCall, ClassLoaderAssumption DEF LoaderInv, Typed
<1>2. AllocationFails => failures' # 0
  BY <1>1, FailureCounted, HashMapAssumption DEF MapInv
<1>3. \A n \in HaveFiles : Source(n) = n
  BY DEF Source, HaveFiles
<1>4. CASE LookupCrashes \/ NoFile \/ Fail
  <2>1. calls' = calls /\ result' = result /\ asked'[lock'] = asked[lock]
    BY <1>4 DEF LookupCrashes, NoFile, Fail, loadVars, callVars
  <2>2. failures' = 0 => failures = 0
    BY FailuresGrow
  <2> QED
    BY <2>1, <2>2, ReasonsFrom DEF Reasons, WhyNull
<1>5. CASE Lookup
  <2>1. /\ Here.at \notin Working
        /\ Return(IF class[Here.name].status = "LOADING" THEN Null ELSE Here.name)
    BY <1>5 DEF Lookup, At, Working
  <2>2. CASE class[Here.name].status = "LOADING"
    <3>1. Here.name \in InProgress(calls)
      BY <1>1, <2>2 DEF LoaderInv, Loading
    <3>2. Here.name \in HaveFiles
      <4>1. PICK j \in 1 .. Len(calls) : calls[j].at \in Working /\ calls[j].name = Here.name
        BY <3>1, InProgressIs
      <4> QED
        BY <4>1 DEF LoaderInv, Stack, StackOK, FrameOK, Readable
    <3> QED
      BY <1>1, <1>3, <2>1, <2>2, <3>1, <3>2, ReturnsForReason
  <2>3. CASE class[Here.name].status # "LOADING"
    <3>1. result' # Null
      BY <1>1, <2>1, <2>3 DEF Return
    <3> QED
      BY <3>1, ReasonsFrom
  <2> QED
    BY <2>2, <2>3
<1>6. CASE LoadPrimitive
  <2>1. /\ Here.at \notin Working
        /\ Return(Here.name) \/ (AllocationFails /\ Return(Null))
    BY <1>6 DEF LoadPrimitive, At, Working
  <2>2. CASE Return(Here.name)
    <3>1. result' # Null
      BY <1>1, <2>2 DEF Return
    <3> QED
      BY <3>1, ReasonsFrom
  <2>3. CASE AllocationFails /\ Return(Null)
    BY <1>1, <1>2, <2>1, <2>3, ReturnsForReason
  <2> QED
    BY <2>1, <2>2, <2>3
<1>7. CASE ArrayClass
  <2>1. /\ Here.at = "array" /\ Here.at \notin Working /\ Here.name \in Arrays
        /\ \/ Return(Here.name)
           \/ result = Null /\ Return(Null) /\ UNCHANGED mapVars
           \/ AllocationFails /\ Return(Null)
    BY <1>7, ObjectReturned DEF ArrayClass, At, Working
  <2>2. CASE Return(Here.name)
    <3>1. result' # Null
      BY <1>1, <2>2 DEF Return
    <3> QED
      BY <3>1, ReasonsFrom
  <2>3. CASE result = Null /\ Return(Null) /\ UNCHANGED mapVars
    <3>1. Wanted(calls, asked[lock]) = Object
      <4>1. Wants(Here) = Object
        BY <2>1 DEF Wants
      <4> QED
        BY <1>1, <4>1, FrontAndLast DEF Wanted, Here, LoaderInv, Typed
    <3>2. Source(Object) = Object /\ Source(Here.name) = Object
      BY <1>3, <2>1, ClassLoaderAssumption DEF Source
    <3>3. failures' = 0 => failures = 0
      BY FailuresGrow
    <3>4. failures' # 0 \/ Refused(Object) \/ Object \in InProgress(calls)
      BY <2>3, <3>1, <3>2, <3>3 DEF Reasons, WhyNull
    <3> QED
      BY <1>1, <2>1, <2>3, <3>2, <3>4, ReturnsForReason
  <2>4. CASE AllocationFails /\ Return(Null)
    BY <1>1, <1>2, <2>1, <2>4, ReturnsForReason
  <2> QED
    BY <2>1, <2>2, <2>3, <2>4
<1>8. CASE RefuseFile
  <2>1. Here.at \notin Working /\ Here.name \in HaveFiles /\ Return(Null)
    BY <1>8 DEF RefuseFile, AtFile, At, Working
  <2>2. failures' # 0 \/ Refused(Here.name)
    BY <1>2, <1>8 DEF RefuseFile, AtFile, Refused
  <2> QED
    BY <1>1, <1>3, <2>1, <2>2, ReturnsForReason
<1>9. CASE LoadArray \/ BeginClass \/ CallSuper \/ SuperLoaded \/ CallInterface \/ InterfaceLoaded
           \/ ParseMembers
  <2>1. LoadArray \/ BeginClass => result = NoAnswer
    BY <1>1, NothingReturned DEF LoadArray, BeginClass, AtFile, At
  <2>2. result' # Null
    BY <1>1, <1>9, <2>1, ClassLoaderAssumption DEF LoadArray, BeginClass, CallSuper, SuperLoaded, CallInterface, InterfaceLoaded,
         ParseMembers, Return, Call
  <2> QED
    BY <2>2, ReasonsFrom
<1> QED
  BY <1>4, <1>5, <1>6, <1>7, <1>8, <1>9 DEF LoadClass0

LEMMA ReasonsKeep ==
    ASSUME LoaderInv, Reasons, [Next]_vars
    PROVE  Reasons'
<1>1. CASE LoadClass0
  BY <1>1, InnerReasons
<1>2. CASE \E t \in Threads : Lock(t) \/ Unlock(t)
  <2>1. result' = NoAnswer
    BY <1>2 DEF Lock, Unlock, LoaderInv, Typed
  <2> QED
    BY <2>1, ReasonsFrom, ClassLoaderAssumption
<1>3. CASE \E t \in Threads : \E n \in Needs[t] : Ask(t, n)
  <2>1. PICK t \in Threads : \E n \in Needs[t] : Ask(t, n)
    BY <1>3
  <2>2. /\ calls' = calls /\ result' = result /\ lock' = lock /\ failures' = failures
        /\ answer[t] # NoAnswer /\ \E n : asked' = [asked EXCEPT ![t] = n]
    BY <2>1 DEF Ask, loadVars, mapVars
  <2>3. CASE lock = NoThread
    <3>1. result' # Null
      BY <2>2, <2>3, ClassLoaderAssumption DEF LoaderInv, Typed
    <3> QED
      BY <3>1, ReasonsFrom
  <2>4. CASE lock # NoThread
    <3>1. asked'[lock'] = asked[lock]
      BY <2>2, <2>4 DEF LoaderInv, Typed
    <3> QED
      BY <2>2, <3>1, ReasonsFrom DEF Reasons, WhyNull
  <2> QED
    BY <2>3, <2>4
<1>4. CASE UNCHANGED vars
  <2>1. calls' = calls /\ result' = result /\ asked'[lock'] = asked[lock] /\ failures' = failures
    BY <1>4 DEF vars, loadVars, callVars, mapVars
  <2> QED
    BY <2>1, ReasonsFrom DEF Reasons, WhyNull
<1> QED
  BY <1>1, <1>2, <1>3, <1>4 DEF Next

\* The two parts of Explained.
Answers ==
    \A t \in Threads :
        (answer[t] = Null /\ asked[t] # NoAnswer /\ failures = 0) => Refused(Source(asked[t]))
Crashes == (crashed /\ failures = 0 /\ ~overlaid /\ ~Full) => Excuse

LEMMA AnswersKeep ==
    ASSUME LoaderInv, Reasons, Answers, [Next]_vars
    PROVE  Answers'
<1>1. (failures' = 0 => failures = 0) /\ \A n : Refused(n)' <=> Refused(n)
  BY FailuresGrow, ExcuseStays
<1>2. SUFFICES ASSUME NEW t \in Threads, answer'[t] = Null, asked'[t] # NoAnswer, failures' = 0
               PROVE  Refused(Source(asked'[t]))
  BY <1>1 DEF Answers, Source
<1>3. CASE answer'[t] = answer[t] /\ asked'[t] = asked[t]
  BY <1>1, <1>2, <1>3 DEF Answers
<1>4. CASE ~(answer'[t] = answer[t] /\ asked'[t] = asked[t])
  <2>1. Unlock(t)
    <3>1. ASSUME NEW u \in Threads, NEW n \in Needs[u], Ask(u, n) PROVE FALSE
      <4>1. answer' = [answer EXCEPT ![u] = NoAnswer] /\ asked' = [asked EXCEPT ![u] = n]
        BY <3>1 DEF Ask
      <4> QED
        BY <1>2, <1>4, <4>1, ClassLoaderAssumption DEF LoaderInv, Typed
    <3>2. ASSUME NEW u \in Threads, Unlock(u), u # t PROVE FALSE
      BY <1>4, <3>2 DEF Unlock, LoaderInv, Typed
    <3>3. LoadClass0 => UNCHANGED <<asked, answer>>
      BY InnerSteps DEF callVars
    <3> QED
      BY <1>4, <3>1, <3>2, <3>3 DEF Next, Lock, vars, callVars
  <2>2. lock = t /\ calls = <<>> /\ result = Null /\ asked' = asked
    BY <1>2, <2>1 DEF Unlock, LoaderInv, Typed
  <2>3. InProgress(calls) = {} /\ Wanted(calls, asked[lock]) = asked[t]
    BY <2>2 DEF InProgress, Wanted
  <2>4. failures = 0
    BY <1>1, <1>2
  <2> QED
    BY <2>2, <2>3, <2>4 DEF Reasons, WhyNull
<1> QED
  BY <1>3, <1>4

LEMMA CrashesKeepReason ==
    ASSUME LoaderInv, Reasons, Crashes, [Next]_vars
    PROVE  Crashes'
<1>1. (failures' = 0 => failures = 0) /\ (Excuse' <=> Excuse)
  BY FailuresGrow, ExcuseStays
<1>2. CASE LoadClass0
  BY <1>1, <1>2, CrashExplained DEF Crashes
<1>3. CASE UNCHANGED <<mapVars, class, complete, files>>
  BY <1>1, <1>3 DEF Crashes, mapVars, Full
<1> QED
  BY <1>2, <1>3, OuterSteps

(***************************************************************************)
(* A load is refused only for a file that is refused, its own or of an     *)
(* array class that of java/lang/Object, and the process crashes only for  *)
(* a file that is missing, the superclass or interface of another class    *)
(* that is refused or is its own ancestor, a map that is full or overlaid, *)
(* or an allocation that failed (parseClassFile).                          *)
(***************************************************************************)
THEOREM FailuresAreExplained == Spec => []Explained
<1>1. Init => Reasons /\ Answers /\ Crashes
  BY ClassLoaderAssumption DEF Init, InitMap, Reasons, WhyNull, Answers, Crashes
<1>2. LoaderInv /\ Reasons /\ [Next]_vars => Reasons'
  BY ReasonsKeep
<1>3. LoaderInv /\ Reasons /\ Answers /\ [Next]_vars => Answers'
  BY AnswersKeep
<1>4. LoaderInv /\ Reasons /\ Crashes /\ [Next]_vars => Crashes'
  BY CrashesKeepReason
<1>5. Answers /\ Crashes => Explained
  BY DEF Answers, Crashes, Explained, Excuse
<1> QED
  BY <1>1, <1>2, <1>3, <1>4, <1>5, LoaderInvariant, PTL DEF Spec

-----------------------------------------------------------------------------
(* How deep the calls nest.                                                *)

\* The calls at work on a class, and those below the last.
WorkingAt(cs) == {i \in 1 .. Len(cs) : cs[i].at \in Working}
Below(cs) == WorkingAt(cs) \ {Len(cs)}

LEMMA WorkingIsFinite ==
    ASSUME NEW cs \in Seq(Frame)
    PROVE  IsFiniteSet(WorkingAt(cs)) /\ IsFiniteSet(Below(cs))
<1>1. IsFiniteSet(1 .. Len(cs))
  BY FS_Interval
<1> QED
  BY <1>1, FS_Subset DEF WorkingAt, Below

LEMMA WorkingReturns ==
    ASSUME NEW cs \in Seq(Frame), cs # <<>>
    PROVE  WorkingAt(Front(cs)) = Below(cs)
<1>1. /\ Len(cs) \in Nat \ {0} /\ Len(Front(cs)) = Len(cs) - 1
      /\ \A i \in 1 .. Len(cs) - 1 : Front(cs)[i] = cs[i]
  BY FrontAndLast
<1>2. \A i : i \in 1 .. Len(cs) - 1 <=> i \in 1 .. Len(cs) /\ i # Len(cs)
  BY <1>1
<1> QED
  BY <1>1, <1>2 DEF WorkingAt, Below

LEMMA WorkingGoes ==
    ASSUME NEW cs \in Seq(Frame), cs # <<>>, NEW c \in Frame
    PROVE  /\ WorkingAt(Front(cs) \o <<c>>) = Below(cs) \cup {i \in {Len(cs)} : c.at \in Working}
           /\ Below(Front(cs) \o <<c>>) = Below(cs)
           /\ Len(Front(cs) \o <<c>>) = Len(cs)
<1> DEFINE q == Front(cs) \o <<c>>
<1>1. Len(cs) \in Nat \ {0}
  BY FrontAndLast
<1>2. Len(q) = Len(cs) /\ q[Len(cs)] = c /\ \A i \in 1 .. Len(cs) - 1 : q[i] = cs[i]
  BY NewLast
<1> HIDE DEF q
<1>3. \A i : i \in 1 .. Len(cs) <=> i \in 1 .. Len(cs) - 1 \/ i = Len(cs)
  BY <1>1
<1>4. WorkingAt(q) = Below(cs) \cup {i \in {Len(cs)} : c.at \in Working}
  <2>1. ASSUME NEW i
        PROVE  i \in WorkingAt(q) <=> i \in Below(cs) \/ (i = Len(cs) /\ c.at \in Working)
    <3>1. CASE i = Len(cs)
      BY <1>1, <1>2, <1>3, <3>1 DEF WorkingAt, Below
    <3>2. CASE i # Len(cs)
      BY <1>1, <1>2, <1>3, <3>2 DEF WorkingAt, Below
    <3> QED
      BY <3>1, <3>2
  <2> QED
    BY <2>1
<1>5. Below(q) = Below(cs)
  <2>1. Len(cs) \notin Below(cs)
    BY DEF Below
  <2> QED
    BY <1>2, <1>4, <2>1 DEF Below
<1> QED
  BY <1>2, <1>4, <1>5 DEF q

LEMMA WorkingNests ==
    ASSUME NEW cs \in Seq(Frame), NEW n \in Names
    PROVE  WorkingAt(Append(cs, NewCall(n))) = WorkingAt(cs)
<1> DEFINE q == Append(cs, NewCall(n))
<1>1. NewCall(n) \in Frame /\ NewCall(n).at \notin Working
  BY DEF NewCall, Frame, Points, Working
<1>2. Len(q) = Len(cs) + 1 /\ Len(cs) \in Nat /\ q[Len(cs) + 1] = NewCall(n)
      /\ \A i \in 1 .. Len(cs) : q[i] = cs[i]
  BY <1>1, Pushed
<1> HIDE DEF q
<1>3. \A i : i \in 1 .. Len(cs) + 1 <=> i \in 1 .. Len(cs) \/ i = Len(cs) + 1
  BY <1>2
<1>4. ASSUME NEW i PROVE i \in WorkingAt(q) <=> i \in WorkingAt(cs)
  <2>1. CASE i = Len(cs) + 1
    BY <1>1, <1>2, <2>1 DEF WorkingAt
  <2>2. CASE i # Len(cs) + 1
    BY <1>2, <1>3, <2>2 DEF WorkingAt
  <2> QED
    BY <2>1, <2>2
<1> QED
  BY <1>4 DEF q

\* Between two calls at work there is one for an array class at most.
LEMMA HalfWork ==
    ASSUME NEW cs \in Seq(Frame), NEW r, NEW done, NEW root, StackOK(cs, r, done, root)
    PROVE  Len(cs) <= 2 * Cardinality(Below(cs)) + 2
<1> DEFINE d == Len(cs)
           A == {i \in 1 .. d - 1 : cs[i].at = "array"}
           B == Below(cs)
<1>1. d \in Nat /\ IsFiniteSet(B) /\ Cardinality(B) \in Nat
  BY WorkingIsFinite, FS_CardinalityType
<1>2. CASE d = 0
  BY <1>1, <1>2
<1>3. CASE d # 0
  <2>1. \A i \in 1 .. d - 1 : i \in B \/ i \in A
    BY <1>1 DEF StackOK, Waiting, WorkingAt, Below, Working
  <2>2. ASSUME NEW i \in A, i # d - 1 PROVE i + 1 \in B
    <3>1. i \in 1 .. d - 1 /\ i + 1 \in 1 .. d - 1
      BY <1>1, <2>2
    <3>2. cs[i + 1].name = Object
      BY <2>2, <3>1 DEF StackOK, Wants
    <3>3. i + 1 \notin A
      <4>1. FrameOK(cs[i + 1], done)
        BY <1>1, <3>1 DEF StackOK
      <4> QED
        BY <3>2, <4>1, ClassLoaderAssumption DEF FrameOK, HaveFiles
    <3> QED
      BY <2>1, <3>1, <3>3
  <2> DEFINE f == [i \in B |-> i - 1]
             D == {i - 1 : i \in B}
             C == D \cup {d - 1}
  <2>3. A \subseteq C
    <3>1. SUFFICES ASSUME NEW i \in A, i # d - 1 PROVE i \in {j - 1 : j \in B}
      OBVIOUS
    <3>2. i + 1 \in B /\ (i + 1) - 1 = i
      BY <1>1, <2>2, <3>1
    <3> QED
      BY <3>2
  <2>4. IsFiniteSet(D) /\ Cardinality(D) <= Cardinality(B)
    <3>1. f \in Surjection(B, D)
      BY DEF Surjection
    <3> HIDE DEF f, D
    <3> QED
      BY <1>1, <3>1, FS_Surjection
  <2> HIDE DEF D
  <2>5. IsFiniteSet(C) /\ Cardinality(C) <= Cardinality(B) + 1
    <3>1. IsFiniteSet(C) /\ Cardinality(C) = IF d - 1 \in D THEN Cardinality(D) ELSE Cardinality(D) + 1
      BY <2>4, FS_AddElement
    <3>2. Cardinality(D) \in Nat
      BY <2>4, FS_CardinalityType
    <3> QED
      BY <1>1, <2>4, <3>1, <3>2
  <2> HIDE DEF C
  <2>6. IsFiniteSet(A) /\ Cardinality(A) <= Cardinality(C)
    BY <2>3, <2>5, FS_Subset
  <2>7. IsFiniteSet(B \cup A) /\ Cardinality(B \cup A) <= Cardinality(B) + Cardinality(A)
    <3>1. /\ IsFiniteSet(B \cup A) /\ IsFiniteSet(B \cap A)
          /\ Cardinality(B \cup A) = Cardinality(B) + Cardinality(A) - Cardinality(B \cap A)
      BY <1>1, <2>6, FS_Union, FS_Intersection
    <3>2. Cardinality(B \cap A) \in Nat /\ Cardinality(A) \in Nat
      BY <2>6, <3>1, FS_CardinalityType
    <3> QED
      BY <1>1, <3>1, <3>2
  <2>8. 1 .. d - 1 \subseteq B \cup A
    BY <2>1
  <2>9. Cardinality(1 .. d - 1) = d - 1
    BY <1>1, <1>3, FS_Interval
  <2>10. d - 1 <= Cardinality(B \cup A)
    BY <2>7, <2>8, <2>9, FS_Subset
  <2>11. Cardinality(A) \in Nat /\ Cardinality(C) \in Nat /\ Cardinality(B \cup A) \in Nat
    BY <2>5, <2>6, <2>7, FS_CardinalityType
  <2> HIDE DEF A, B
  <2> QED
    BY <1>1, <2>5, <2>6, <2>7, <2>10, <2>11 DEF B
<1> QED
  BY <1>2, <1>3

LEMMA WorkStays ==
    ASSUME LoaderInv, LoadClass0, ~BeginClass
    PROVE  WorkingAt(calls') \subseteq WorkingAt(calls)
<1>1. /\ calls # <<>> /\ calls \in Seq(Frame) /\ Here \in Frame /\ Here.name \in Names
      /\ files \in FileSets /\ Here.next \in Nat
  BY InnerSteps, InCall DEF LoaderInv, Typed
<1>2. ASSUME NEW s, Return(s) PROVE WorkingAt(calls') \subseteq WorkingAt(calls)
  BY <1>1, <1>2, WorkingReturns DEF Return, Below
<1>3. ASSUME NEW point \in Working, NEW next \in Nat, Goto(point, next), Here.at \in Working
      PROVE  WorkingAt(calls') \subseteq WorkingAt(calls)
  <2> DEFINE c == [Here EXCEPT !.at = point, !.next = next]
  <2>1. c \in Frame /\ calls' = Front(calls) \o <<c>>
    BY <1>1, <1>3 DEF Goto, Frame, Working, Points
  <2> HIDE DEF c
  <2>2. Len(calls) \in WorkingAt(calls)
    BY <1>1, <1>3, FrontAndLast DEF WorkingAt, Here
  <2> QED
    BY <1>1, <2>1, <2>2, WorkingGoes DEF Below
<1>4. ASSUME NEW n \in Names, Call(n) PROVE WorkingAt(calls') \subseteq WorkingAt(calls)
  <2>1. calls' = Append(calls, NewCall(n))
    <3>1. NewCall(n) \in Frame
      BY DEF NewCall, Frame, Points
    <3> QED
      BY <1>1, <1>4, <3>1, AppendIsConcat DEF Call
  <2> QED
    BY <1>1, <2>1, WorkingNests
<1>5. CASE LookupCrashes \/ NoFile \/ Fail
  BY <1>5 DEF LookupCrashes, NoFile, Fail, loadVars
<1>6. CASE Lookup \/ LoadPrimitive \/ ArrayClass \/ RefuseFile \/ ParseMembers
  <2>1. \E s : Return(s)
    BY <1>6 DEF Lookup, LoadPrimitive, ArrayClass, RefuseFile, ParseMembers
  <2> QED
    BY <1>2, <2>1
<1>7. CASE LoadArray
  <2> DEFINE c == [Here EXCEPT !.at = "array"]
             cs == Front(calls) \o <<c>>
  <2>1. c \in Frame /\ c.at = "array" /\ calls' = Append(cs, NewCall(Object)) /\ Object \in Names
    BY <1>1, <1>7, ClassLoaderAssumption DEF LoadArray, Frame, Points, HaveFiles
  <2> HIDE DEF c
  <2>2. cs \in Seq(Frame) /\ WorkingAt(cs) \subseteq Below(calls)
    BY <1>1, <2>1, NewLast, WorkingGoes DEF Working
  <2> HIDE DEF cs
  <2>3. WorkingAt(calls') = WorkingAt(cs)
    BY <2>1, <2>2, WorkingNests
  <2> QED
    BY <2>2, <2>3 DEF Below
<1>8. CASE CallSuper
  <2> DEFINE f == files[Here.name]
  <2>1. /\ Here.at = "super"
        /\ IF f.super = 0 THEN Goto("interfaces", 1) ELSE Call(NameAt(f, f.super))
    BY <1>8 DEF CallSuper, At
  <2>2. Readable(Here.name)
    BY <1>1, <2>1, InTheMaking DEF Working
  <2>3. f.super # 0 => NameAt(f, f.super) \in Names
    BY <1>1, <2>2, IndexesAreParents, ParentsAreNames
  <2> QED
    BY <1>3, <1>4, <2>1, <2>3 DEF Working
<1>9. CASE SuperLoaded \/ InterfaceLoaded
  <2>1. Here.at \in Working /\ \E next \in Nat : Goto("interfaces", next)
    BY <1>1, <1>9 DEF SuperLoaded, InterfaceLoaded, At, Working
  <2> QED
    BY <1>3, <2>1 DEF Working
<1>10. CASE CallInterface
  <2> DEFINE f == files[Here.name]
             n == Here.next
  <2>1. /\ Here.at = "interfaces"
        /\ IF n > Len(f.interfaces) THEN Goto("members", 1) ELSE Call(NameAt(f, f.interfaces[n]))
    BY <1>10 DEF CallInterface, At
  <2>2. Readable(Here.name)
    BY <1>1, <2>1, InTheMaking DEF Working
  <2>3. n \in 1 .. Len(f.interfaces) + 1 /\ f.interfaces \in Seq(Nat)
    BY <1>1, <2>1, <2>2, InCall, IndexesAreParents DEF FrameOK
  <2>4. CASE n > Len(f.interfaces)
    BY <1>3, <2>1, <2>4 DEF Working
  <2>5. CASE ~(n > Len(f.interfaces))
    <3>1. n \in 1 .. Len(f.interfaces)
      BY <2>3, <2>5
    <3>2. NameAt(f, f.interfaces[n]) \in Names
      BY <1>1, <2>2, <3>1, IndexesAreParents, ParentsAreNames
    <3> QED
      BY <1>4, <2>1, <2>5, <3>2
  <2> QED
    BY <2>4, <2>5
<1> QED
  BY <1>5, <1>6, <1>7, <1>8, <1>9, <1>10 DEF LoadClass0

\* Classes that are found to be in the making: a call for one goes no further.
Pending == {n \in Names : Listed(n) /\ class[n].status = "LOADING"}

Shallow ==
    /\ Cardinality(Below(calls)) <= Cardinality(Pending) + failures
    /\ ~crashed => Cardinality(WorkingAt(calls)) <= Cardinality(Pending) + failures

LEMMA Counts ==
    ASSUME NEW cs \in Seq(Frame)
    PROVE  /\ Cardinality(WorkingAt(cs)) \in Nat /\ Cardinality(Below(cs)) \in Nat
           /\ Cardinality(Below(cs)) <= Cardinality(WorkingAt(cs))
           /\ Cardinality(WorkingAt(cs)) <= Cardinality(Below(cs)) + 1
           /\ Len(cs) \in WorkingAt(cs) => Cardinality(WorkingAt(cs)) = Cardinality(Below(cs)) + 1
<1>1. IsFiniteSet(WorkingAt(cs)) /\ IsFiniteSet(Below(cs))
  BY WorkingIsFinite
<1>2. Cardinality(WorkingAt(cs)) \in Nat /\ Cardinality(Below(cs)) \in Nat
  BY <1>1, FS_CardinalityType
<1>3. Cardinality(Below(cs)) = IF Len(cs) \in WorkingAt(cs) THEN Cardinality(WorkingAt(cs)) - 1
                                                            ELSE Cardinality(WorkingAt(cs))
  BY <1>1, FS_RemoveElement DEF Below
<1> QED
  BY <1>2, <1>3

LEMMA PendingIsFinite ==
    /\ IsFiniteSet(Pending) /\ Cardinality(Pending) \in Nat
    /\ IsFiniteSet(Pending') /\ Cardinality(Pending') \in Nat
<1>1. IsFiniteSet(Names)
  BY HashMapAssumption DEF Names
<1>2. Pending \subseteq Names /\ Pending' \subseteq Names
  BY DEF Pending
<1> QED
  BY <1>1, <1>2, FS_Subset, FS_CardinalityType

LEMMA FewerWork ==
    ASSUME LoaderInv, calls' \in Seq(Frame), WorkingAt(calls') \subseteq WorkingAt(calls)
    PROVE  Cardinality(WorkingAt(calls')) <= Cardinality(WorkingAt(calls))
BY WorkingIsFinite, FS_Subset DEF LoaderInv, Typed

\* One class less is pending at most.
LEMMA PendingButOne ==
    ASSUME NEW n, Pending \subseteq Pending' \cup {n}
    PROVE  Cardinality(Pending) <= Cardinality(Pending') + 1
<1>1. /\ IsFiniteSet(Pending') /\ Cardinality(Pending') \in Nat /\ Cardinality(Pending) \in Nat
  BY PendingIsFinite
<1>2. IsFiniteSet(Pending' \cup {n}) /\ Cardinality(Pending' \cup {n}) <= Cardinality(Pending') + 1
  BY <1>1, FS_AddElement
<1>3. Cardinality(Pending) <= Cardinality(Pending' \cup {n}) /\ Cardinality(Pending' \cup {n}) \in Nat
  BY <1>2, FS_Subset, FS_CardinalityType
<1> QED
  BY <1>1, <1>2, <1>3

LEMMA FinishingIsShallow ==
    ASSUME LoaderInv, Shallow, calls # <<>>, ~crashed, failures \in Nat, failures' \in Nat, failures <= failures',
           calls' \in Seq(Frame), Finishing(Here.name)
    PROVE  Shallow'
<1> DEFINE n == Here.name
<1>1. /\ calls \in Seq(Frame) /\ n \in Names /\ n \in Keys /\ MapInv /\ complete \subseteq Names
      /\ Here = calls[Len(calls)] /\ Len(calls) \in Nat \ {0}
  BY InCall, FrontAndLast DEF LoaderInv, Typed, Names, Here
<1>2. \A m \in Names \ {n} : (Listed(m)' <=> Listed(m)) /\ class'[m] = class[m]
  <2>1. CASE Put(n)
    BY <1>1, <2>1, PutKeepsMap DEF Finishing, Others, Names
  <2>2. CASE UNCHANGED buckets
    BY <2>2 DEF Listed, BucketOf, Finishing, Others
  <2> QED
    BY <2>1, <2>2 DEF Finishing
<1>3. Pending \subseteq Pending' \cup {n}
  BY <1>2 DEF Pending
<1>4. Cardinality(Pending) \in Nat /\ Cardinality(Pending') \in Nat
  BY PendingIsFinite
<1>5. WorkingAt(calls') = Below(calls)
  BY <1>1, WorkingReturns DEF Finishing, Return
<1>6. Cardinality(Below(calls)) <= Cardinality(Pending') + failures
  <2>1. CASE Here.at \in Working
    <3>1. Cardinality(WorkingAt(calls)) = Cardinality(Below(calls)) + 1
      BY <1>1, <2>1, Counts DEF WorkingAt
    <3>2. Cardinality(Pending) <= Cardinality(Pending') + 1
      BY <1>3, PendingButOne
    <3>3. Cardinality(Below(calls)) \in Nat
      BY <1>1, Counts
    <3> QED
      BY <1>4, <3>1, <3>2, <3>3 DEF Shallow
  <2>2. CASE Here.at \notin Working
    <3>1. n \notin InProgress(calls)
      <4>1. n \notin Reaches(n)
        BY <1>1, NotItsAncestor DEF Finishing
      <4>2. SUFFICES ASSUME NEW i \in 1 .. Len(calls), calls[i].at \in Working, calls[i].name = n
                     PROVE  FALSE
        BY InProgressIs
      <4>3. i # Len(calls) /\ i \in 1 .. Len(calls) - 1
        BY <1>1, <2>2, <4>2
      <4> QED
        BY <4>1, <4>2, <4>3, InCall
    <3>2. n \notin Pending
      BY <3>1 DEF Pending, LoaderInv, Loading
    <3>3. Cardinality(Pending) <= Cardinality(Pending')
      BY <1>3, <3>2, PendingIsFinite, FS_Subset
    <3>4. Cardinality(Below(calls)) \in Nat /\ Cardinality(WorkingAt(calls)) \in Nat
      BY <1>1, Counts
    <3> QED
      BY <1>4, <3>3, <3>4 DEF Shallow
  <2> QED
    BY <2>1, <2>2
<1>7. /\ Cardinality(WorkingAt(calls')) \in Nat /\ Cardinality(Below(calls')) \in Nat
      /\ Cardinality(Below(calls')) <= Cardinality(WorkingAt(calls'))
  BY Counts
<1> QED
  BY <1>4, <1>5, <1>6, <1>7 DEF Shallow

LEMMA BeginningIsShallow ==
    ASSUME LoaderInv, Shallow, calls # <<>>, ~crashed, failures \in Nat, failures' \in Nat, failures <= failures',
           calls' \in Seq(Frame), NEW n \in Names, n = Here.name, Beginning(n)
    PROVE  Shallow'
<1> DEFINE c == [Here EXCEPT !.at = "super", !.next = 1]
<1>1. /\ calls \in Seq(Frame) /\ Here \in Frame /\ n \in Keys /\ MapInv
      /\ Here = calls[Len(calls)] /\ Len(calls) \in Nat \ {0}
  BY InCall, FrontAndLast DEF LoaderInv, Typed, Names, Here
<1>2. /\ \A m \in Names \ {n} : (Listed(m)' <=> Listed(m)) /\ class'[m] = class[m]
      /\ ~Listed(n) /\ class'[n].status = "LOADING"
      /\ crashed' \/ failures < failures' \/ Listed(n)'
  BY <1>1, PutKeepsMap DEF Beginning, Others, Names
<1>3. Pending \subseteq Pending' /\ n \notin Pending /\ (Listed(n)' => n \in Pending')
  BY <1>1, <1>2 DEF Pending
<1>4. Cardinality(Pending) \in Nat /\ Cardinality(Pending') \in Nat
  BY PendingIsFinite
<1>5. Cardinality(Pending) <= Cardinality(Pending')
  BY <1>3, PendingIsFinite, FS_Subset
<1>6. Listed(n)' => Cardinality(Pending) + 1 <= Cardinality(Pending')
  <2>1. IsFiniteSet(Pending \cup {n}) /\ Cardinality(Pending \cup {n}) = Cardinality(Pending) + 1
    BY <1>3, PendingIsFinite, FS_AddElement
  <2>2. Listed(n)' => Pending \cup {n} \in SUBSET Pending'
    BY <1>3
  <2> QED
    BY <2>1, <2>2, PendingIsFinite, FS_Subset
<1>7. Below(calls') = Below(calls)
  <2>1. c \in Frame /\ calls' = Front(calls) \o <<c>>
    BY <1>1 DEF Beginning, Goto, Frame, Points
  <2> HIDE DEF c
  <2> QED
    BY <1>1, <2>1, WorkingGoes
<1>8. /\ Cardinality(WorkingAt(calls')) \in Nat /\ Cardinality(Below(calls')) \in Nat
      /\ Cardinality(WorkingAt(calls')) <= Cardinality(Below(calls')) + 1
  BY Counts
<1>9. Cardinality(Below(calls)) <= Cardinality(Pending) + failures
  BY DEF Shallow
<1>10. Cardinality(Below(calls')) <= Cardinality(Pending') + failures'
  BY <1>4, <1>5, <1>7, <1>8, <1>9
<1>11. ~crashed' => Cardinality(WorkingAt(calls')) <= Cardinality(Pending') + failures'
  BY <1>2, <1>4, <1>5, <1>6, <1>7, <1>8, <1>9
<1> QED
  BY <1>10, <1>11 DEF Shallow

LEMMA ShallowKeeps ==
    ASSUME LoaderInv, Shallow, [Next]_vars
    PROVE  Shallow'
<1>1. failures \in Nat /\ failures' \in Nat /\ failures <= failures'
  BY FailuresGrow
<1>2. calls \in Seq(Frame) /\ calls' \in Seq(Frame) /\ MapInv /\ complete \subseteq Names
  <2>1. LoaderInv'
    BY NextKeeps
  <2> QED
    BY <2>1 DEF LoaderInv, Typed
<1>3. Cardinality(Pending) \in Nat /\ Cardinality(Pending') \in Nat
  BY PendingIsFinite
<1>4. /\ Cardinality(WorkingAt(calls)) \in Nat /\ Cardinality(Below(calls)) \in Nat
      /\ Cardinality(Below(calls)) <= Cardinality(WorkingAt(calls))
      /\ Cardinality(WorkingAt(calls')) \in Nat /\ Cardinality(Below(calls')) \in Nat
      /\ Cardinality(Below(calls')) <= Cardinality(WorkingAt(calls'))
  BY <1>2, Counts
<1>5. CASE LoadClass0
  <2>1. /\ calls # <<>> /\ ~crashed /\ Here.name \in Names /\ Here.name \in Keys
        /\ Crashing \/ Quiet \/ Refusing \/ Finishing(Here.name) \/ Beginning(Here.name)
    BY <1>5, InnerSteps, InCall DEF Names
  <2>2. CASE Beginning(Here.name)
    BY <1>1, <1>2, <2>1, <2>2, BeginningIsShallow
  <2>3. CASE Finishing(Here.name)
    BY <1>1, <1>2, <2>1, <2>3, FinishingIsShallow
  <2>4. CASE Crashing
    <3>1. calls' = calls /\ class' = class /\ crashed'
      BY <2>4 DEF Crashing, loadVars
    <3>2. CASE buckets' = buckets
      <4>1. Pending' = Pending
        BY <3>1, <3>2 DEF Pending, Listed, BucketOf
      <4> QED
        BY <1>1, <1>3, <1>4, <3>1, <4>1 DEF Shallow
    <3>3. CASE Delete(Here.name) /\ Here.at \in Working
      <4>1. \A m \in Names \ {Here.name} : Listed(m)' <=> Listed(m)
        BY <1>2, <2>1, <3>3, NodeDeleted DEF Names, MapInv
      <4>2. Pending \subseteq Pending' \cup {Here.name}
        BY <3>1, <4>1 DEF Pending
      <4>3. Cardinality(Pending) <= Cardinality(Pending') + 1
        BY <4>2, PendingButOne
      <4>4. Cardinality(WorkingAt(calls)) = Cardinality(Below(calls)) + 1
        <5>1. Len(calls) \in 1 .. Len(calls) /\ calls[Len(calls)] = Here
          <6>1. calls # <<>>
            BY <2>1
          <6>2. Len(calls) \in Nat \ {0} /\ Here = calls[Len(calls)]
            BY <1>2, <6>1, FrontAndLast DEF Here
          <6> QED
            BY <6>2
        <5>2. Len(calls) \in WorkingAt(calls)
          BY <3>3, <5>1 DEF WorkingAt
        <5> QED
          BY <1>2, <5>2, Counts
      <4> QED
        BY <1>1, <1>3, <1>4, <2>1, <3>1, <4>3, <4>4 DEF Shallow
    <3> QED
      BY <2>4, <3>2, <3>3 DEF Crashing
  <2>5. CASE (Quiet \/ Refusing) /\ ~BeginClass
    <3>1. Pending' = Pending
      <4>1. \A m \in Names : (Listed(m)' <=> Listed(m)) /\ class'[m].status = class[m].status
        BY <1>2, <2>5, KeptStays DEF Quiet, Refusing, mapVars
      <4> QED
        BY <4>1 DEF Pending
    <3>2. Cardinality(WorkingAt(calls')) <= Cardinality(WorkingAt(calls))
      BY <1>2, <1>5, <2>5, WorkStays, FewerWork
    <3> QED
      BY <1>1, <1>3, <1>4, <2>1, <3>1, <3>2 DEF Shallow
  <2>6. CASE BeginClass
    BY <2>2, <2>6, BeginClassBegins
  <2> QED
    BY <2>1, <2>2, <2>3, <2>4, <2>5, <2>6
<1>6. CASE UNCHANGED <<mapVars, class, complete, files>>
  <2>1. Pending' = Pending /\ failures' = failures /\ crashed' = crashed
    BY <1>6 DEF Pending, mapVars, Listed, BucketOf
  <2>2. CASE calls' = calls
    BY <2>1, <2>2 DEF Shallow
  <2>3. CASE \E n : calls' = <<NewCall(n)>>
    <3>1. WorkingAt(calls') = {}
      <4>1. PICK n : calls' = <<NewCall(n)>>
        BY <2>3
      <4>2. Len(calls') = 1 /\ calls'[1] = NewCall(n) /\ NewCall(n).at \notin Working
        BY <4>1 DEF NewCall, Working
      <4> QED
        BY <4>2 DEF WorkingAt
    <3>2. Cardinality(WorkingAt(calls')) = 0
      BY <3>1, FS_EmptySet
    <3> QED
      BY <1>1, <1>3, <1>4, <2>1, <3>2 DEF Shallow
  <2>4. LoadClass0 \/ calls' = calls \/ \E n : calls' = <<NewCall(n)>>
    BY DEF Next, Ask, Lock, Unlock, vars, loadVars
  <2> QED
    BY <1>5, <2>2, <2>3, <2>4
<1> QED
  BY <1>5, <1>6, OuterSteps

(***************************************************************************)
(* Every variable has its type (classloader.c, hashmap.c); the calls of    *)
(* loadClass0 do not nest without end, as a class being loaded ends them:  *)
(* there are two for each class with a file at most, its own and that of   *)
(* an array class above it, but for those ht_put had no memory for.        *)
(***************************************************************************)
THEOREM LoaderTypes == Spec => []TypeOK
<1>1. Init => Shallow
  <2> SUFFICES ASSUME Init PROVE Shallow
    OBVIOUS
  <2>1. WorkingAt(calls) = {} /\ Below(calls) = {} /\ failures = 0
    BY DEF Init, InitMap, WorkingAt, Below
  <2> QED
    BY <2>1, PendingIsFinite, FS_EmptySet DEF Shallow
<1>2. LoaderInv /\ Shallow /\ [Next]_vars => Shallow'
  BY ShallowKeeps
<1>3. LoaderInv /\ Shallow => TypeOK
  <2> SUFFICES ASSUME LoaderInv, Shallow PROVE TypeOK
    OBVIOUS
  <2>1. Typed /\ MapInv /\ BucketsTyped /\ MapSound /\ calls \in Seq(Frame)
    BY DEF LoaderInv, Typed, MapInv
  <2>2. numEntries \in Nat
    <3>1. numEntries = Cardinality(ListedKeys)
      BY <2>1 DEF MapSound, ListedKeys
    <3> QED
      BY <3>1, ListedIsFinite, FS_CardinalityType
  <2>3. Len(calls) <= 2 * (Cardinality(HaveFiles) + MaxFailures + 1)
    <3>1. Len(calls) <= 2 * Cardinality(Below(calls)) + 2
      BY <2>1, HalfWork DEF LoaderInv, Stack
    <3>2. Pending \subseteq HaveFiles
      <4>1. SUFFICES ASSUME NEW n \in Pending PROVE n \in HaveFiles
        OBVIOUS
      <4>2. n \in InProgress(calls)
        BY <4>1 DEF Pending, LoaderInv, Loading
      <4>3. PICK j \in 1 .. Len(calls) : calls[j].at \in Working /\ calls[j].name = n
        BY <4>2, InProgressIs
      <4> QED
        BY <4>3 DEF LoaderInv, Stack, StackOK, FrameOK, Readable
    <3>3. IsFiniteSet(HaveFiles)
      BY HashMapAssumption, FS_Subset DEF HaveFiles, Names
    <3>4. /\ Cardinality(Pending) <= Cardinality(HaveFiles)
          /\ Cardinality(Pending) \in Nat /\ Cardinality(HaveFiles) \in Nat
      BY <3>2, <3>3, FS_Subset, FS_CardinalityType, PendingIsFinite
    <3>5. /\ Cardinality(Below(calls)) \in Nat /\ Len(calls) \in Nat
          /\ failures \in 0 .. MaxFailures /\ MaxFailures \in Nat
      BY <2>1, Counts, HashMapAssumption DEF MapInv
    <3> QED
      BY <3>1, <3>4, <3>5 DEF Shallow
  <2> QED
    BY <2>1, <2>2, <2>3 DEF TypeOK, Typed, MapInv, BucketsTyped, Frame, Names
<1> QED
  BY <1>1, <1>2, <1>3, LoaderInvariant, PTL DEF Spec

-----------------------------------------------------------------------------
(* Sets and numbers.                                                       *)

\* Sets in bijection, when it is given by a function.
LEMMA SameSize ==
    ASSUME NEW S, NEW T, IsFiniteSet(S), NEW f \in [S -> T],
           \A x, y \in S : f[x] = f[y] => x = y,
           \A y \in T : \E x \in S : f[x] = y
    PROVE  IsFiniteSet(T) /\ Cardinality(T) = Cardinality(S)
<1>1. f \in Bijection(S, T)
  BY DEF Bijection, Injection, Surjection, IsInjective
<1> QED
  BY <1>1, FS_Bijection DEF ExistsBijection

LEMMA NotMore ==
    ASSUME NEW S, NEW T, IsFiniteSet(S), NEW f \in [S -> T], \A y \in T : \E x \in S : f[x] = y
    PROVE  IsFiniteSet(T) /\ Cardinality(T) <= Cardinality(S)
<1>1. f \in Surjection(S, T)
  BY DEF Surjection
<1> QED
  BY <1>1, FS_Surjection

LEMMA LeastOf ==
    ASSUME NEW T \in SUBSET Nat, T # {}
    PROVE  \E x \in T : \A y \in T : x <= y
<1> DEFINE R == {ss \in Nat \X Nat : ss[1] < ss[2]}
<1>1. R = OpToRel(<, Nat)
  BY DEF OpToRel
<1>2. IsWellFoundedOn(R, Nat)
  BY <1>1, NatLessThanWellFounded
<1> HIDE DEF R
<1>3. PICK x \in T : \A y \in T : ~ (<<y, x>> \in R)
  BY <1>2, WFMin
<1>4. ASSUME NEW y \in T PROVE x <= y
  <2>1. <<y, x>> \notin R /\ y \in Nat /\ x \in Nat
    BY <1>3
  <2>2. ~ (y < x)
    BY <2>1 DEF R
  <2> QED
    BY <2>1, <2>2
<1> QED
  BY <1>4

LEMMA GreatestOf ==
    ASSUME NEW m \in Nat, NEW T \in SUBSET (0 .. m), T # {}
    PROVE  \E x \in T : \A y \in T : y <= x
<1> DEFINE D == {k \in Nat : m - k \in T}
<1>1. PICK z \in T : TRUE
  OBVIOUS
<1>2. m - z \in Nat /\ m - (m - z) = z
  OBVIOUS
<1>3. PICK k \in D : \A l \in D : k <= l
  <2>1. m - z \in D
    BY <1>2
  <2> QED
    BY <2>1, LeastOf
<1>4. m - k \in T /\ k \in Nat
  BY <1>3
<1>5. ASSUME NEW y \in T PROVE y <= m - k
  <2>1. m - y \in Nat /\ m - (m - y) = y
    OBVIOUS
  <2>2. m - y \in D
    BY <2>1
  <2>3. k <= m - y
    BY <1>3, <2>2
  <2> QED
    BY <1>4, <2>1, <2>3
<1> QED
  BY <1>4, <1>5
-----------------------------------------------------------------------------
(* Constants.                                                              *)

\* What has no wide constants keeps its indexes.
LEMMA IndexesAgree ==
    ASSUME NEW f, Len(f.constants) \in Nat, DOMAIN f.constants = 1 .. Len(f.constants),
           ReadPool(f) = "read", NEW j \in DOMAIN f.constants
    PROVE  IndexOf(f, j) = j
<1> DEFINE wide == {i \in DOMAIN f.constants : f.constants[i].tag \in WideTags}
           before == {i \in 1 .. j - 1 : f.constants[i].tag \in WideTags}
<1>1. IsFiniteSet(wide)
  <2>1. wide \in SUBSET (1 .. Len(f.constants)) /\ IsFiniteSet(1 .. Len(f.constants))
    BY FS_Interval
  <2> QED
    BY <2>1, FS_Subset
<1>2. Cardinality(wide) \in Nat /\ NumIndexes(f) = Len(f.constants) + Cardinality(wide)
  BY <1>1, FS_CardinalityType DEF NumIndexes
<1>3. NumIndexes(f) = Len(f.constants)
  BY DEF ReadPool
<1>4. Cardinality(wide) = 0
  <2> HIDE DEF wide
  <2> QED
    BY <1>2, <1>3
<1>5. wide = {}
  BY <1>1, <1>4, FS_EmptySet
<1>6. before = {}
  BY <1>5
<1>7. Cardinality(before) = 0
  BY <1>6, FS_EmptySet
<1> QED
  BY <1>7 DEF IndexOf

-----------------------------------------------------------------------------
(* Descriptors.                                                            *)

\* A counted letter belongs to the descriptor that begins after as many others:
\* at the letter itself, or at the first of the "[" before it.
LEMMA BeginsWhere ==
    ASSUME NEW d \in Seq(STRING), NEW i \in Counted(d)
    PROVE  LET n == Cardinality({j \in Counted(d) : j < i})
           IN  /\ n \in Nat /\ n < Cardinality(Begins(d))
               /\ \E b \in Begins(d) :
                      /\ BeginsAfter(d, n) = {b}
                      /\ TypeOf(d[b]) = TypeOf(IF i > 1 /\ d[i - 1] = "[" THEN "[" ELSE d[i])
<1> DEFINE Before == {j \in Counted(d) : j < i}
           Upto == {b \in Begins(d) : b <= i}
           n == Cardinality(Before)
<1>1. DOMAIN d = 1 .. Len(d) /\ Len(d) \in Nat /\ i \in 1 .. Len(d) /\ d[i] # "[" /\ \A j \in 1 .. i : d[j] # ")"
  BY DEF Counted
<1>2. IsFiniteSet(Before) /\ n \in Nat /\ IsFiniteSet(Begins(d)) /\ Cardinality(Begins(d)) \in Nat
  <2>1. Before \subseteq 1 .. Len(d) /\ Begins(d) \subseteq 1 .. Len(d)
    BY <1>1 DEF Counted, Begins
  <2>2. IsFiniteSet(1 .. Len(d))
    BY <1>1, FS_Interval
  <2> QED
    BY <2>1, <2>2, FS_Subset, FS_CardinalityType
<1>3. \A j : j \in Before <=> j \in 1 .. i - 1 /\ d[j] # "["
  BY <1>1 DEF Counted
<1>4. \A b : b \in Begins(d) <=> b \in 1 .. Len(d) /\ (b = 1 \/ d[b - 1] # "[")
  BY <1>1 DEF Begins
<1> HIDE DEF Before
\* The letters counted before i are followed by the begins up to i, but for the first.
<1>5. IsFiniteSet(Upto \ {1}) /\ Cardinality(Upto \ {1}) = n
  <2> DEFINE f == [j \in Before |-> j + 1]
  <2>1. f \in [Before -> Upto \ {1}]
    <3>1. ASSUME NEW j \in Before PROVE j + 1 \in Upto \ {1}
      <4>1. j \in 1 .. i - 1 /\ d[j] # "["
        BY <1>3
      <4>2. j + 1 \in 1 .. Len(d) /\ (j + 1) - 1 = j /\ j + 1 <= i /\ j + 1 # 1
        BY <1>1, <4>1
      <4> QED
        BY <1>4, <4>1, <4>2
    <3> QED
      BY <3>1
  <2>2. \A x, y \in Before : f[x] = f[y] => x = y
    BY <1>3
  <2>3. ASSUME NEW b \in Upto \ {1} PROVE \E j \in Before : f[j] = b
    <3>1. b \in 2 .. i /\ d[b - 1] # "["
      BY <1>1, <1>4
    <3>2. b - 1 \in 1 .. i - 1 /\ (b - 1) + 1 = b
      BY <1>1, <3>1
    <3>3. b - 1 \in Before
      BY <1>3, <3>1, <3>2
    <3> QED
      BY <3>2, <3>3
  <2> HIDE DEF f
  <2> QED
    BY <1>2, <2>1, <2>2, <2>3, SameSize
<1>6. 1 \in Upto
  BY <1>1, <1>4
<1>7. IsFiniteSet(Upto) /\ Cardinality(Upto) = n + 1
  <2>1. Upto = (Upto \ {1}) \cup {1}
    BY <1>6
  <2>2. Cardinality((Upto \ {1}) \cup {1}) = Cardinality(Upto \ {1}) + 1 /\ IsFiniteSet((Upto \ {1}) \cup {1})
    BY <1>5, FS_AddElement
  <2> QED
    BY <1>5, <2>1, <2>2
\* The last of them is where the descriptor begins.
<1>8. PICK b \in Upto : \A c \in Upto : c <= b
  <2>1. Upto \in SUBSET (0 .. i) /\ Upto # {} /\ i \in Nat
    BY <1>1, <1>4, <1>6
  <2> HIDE DEF Upto
  <2> QED
    BY <2>1, GreatestOf
<1>9. b \in 1 .. i /\ b \in Begins(d) /\ IsFiniteSet({j \in Begins(d) : j < b})
      /\ Cardinality({j \in Begins(d) : j < b}) = n
  <2>1. b \in 1 .. i /\ b \in Begins(d)
    BY <1>1, <1>4, <1>8
  <2>2. {j \in Begins(d) : j < b} = Upto \ {b}
    BY <1>1, <1>4, <1>8, <2>1
  <2>3. IsFiniteSet(Upto \ {b}) /\ Cardinality(Upto \ {b}) = Cardinality(Upto) - 1
    BY <1>7, <1>8, FS_RemoveElement
  <2>4. Cardinality(Upto \ {b}) = n
    <3> HIDE DEF Upto, n
    <3> QED
      BY <1>2, <1>7, <2>3
  <2> QED
    BY <2>1, <2>2, <2>3, <2>4
<1>10. \A k \in b .. i - 1 : d[k] = "["
  <2> SUFFICES ASSUME NEW k \in b .. i - 1, d[k] # "[" PROVE FALSE
    OBVIOUS
  <2>1. k + 1 \in 1 .. Len(d) /\ (k + 1) - 1 = k /\ k + 1 <= i /\ ~ (k + 1 <= b)
    BY <1>1, <1>9
  <2>2. k + 1 \in Upto
    BY <1>4, <2>1
  <2> QED
    BY <1>8, <2>1, <2>2
\* Another begin has another number before it.
<1>11. ASSUME NEW c \in Begins(d), Cardinality({j \in Begins(d) : j < c}) = n PROVE c = b
  <2> DEFINE B(x) == {j \in Begins(d) : j < x}
  <2>1. IsFiniteSet(B(c)) /\ IsFiniteSet(B(b)) /\ Cardinality(B(c)) = Cardinality(B(b)) /\ b \in Int /\ c \in Int
    BY <1>1, <1>2, <1>4, <1>9, <1>11, FS_Subset
  <2>2. CASE c < b
    <3>1. B(c) \in SUBSET B(b) /\ c \in B(b) /\ c \notin B(c)
      BY <1>4, <1>1, <2>1, <2>2
    <3> QED
      BY <2>1, <3>1, FS_Subset
  <2>3. CASE b < c
    <3>1. B(b) \in SUBSET B(c) /\ b \in B(c) /\ b \notin B(b)
      BY <1>4, <1>1, <1>9, <2>1, <2>3
    <3> QED
      BY <2>1, <3>1, FS_Subset
  <2> QED
    BY <2>1, <2>2, <2>3
<1>12. BeginsAfter(d, n) = {b}
  BY <1>9, <1>11 DEF BeginsAfter
<1>13. n < Cardinality(Begins(d))
  <2>1. Upto \in SUBSET Begins(d)
    OBVIOUS
  <2>2. n + 1 <= Cardinality(Begins(d))
    BY <1>2, <1>7, <2>1, FS_Subset
  <2> QED
    BY <1>2, <2>2
<1>14. TypeOf(d[b]) = TypeOf(IF i > 1 /\ d[i - 1] = "[" THEN "[" ELSE d[i])
  <2>1. CASE b = i
    <3>1. ~ (i > 1 /\ d[i - 1] = "[")
      BY <1>4, <1>9, <2>1
    <3> QED
      BY <2>1, <3>1
  <2>2. CASE b # i
    <3>1. b \in b .. i - 1 /\ i - 1 \in b .. i - 1 /\ i > 1
      BY <1>1, <1>9, <2>2
    <3> QED
      BY <1>10, <3>1
  <2> QED
    BY <2>1, <2>2
<1> QED
  BY <1>2, <1>9, <1>12, <1>13, <1>14 DEF Before

\* A parameter has its type, and its first local variable if no wide one is before.
LEMMA ParametersRight ==
    ASSUME NEW d \in Seq(STRING), NEW static \in BOOLEAN, NEW i \in Counted(d)
    PROVE  ArgumentType(d, (IF static THEN 0 ELSE 1) + Cardinality({j \in Counted(d) : j < i}), static)
               = TypeOf(IF i > 1 /\ d[i - 1] = "[" THEN "[" ELSE d[i])
<1> DEFINE n == Cardinality({j \in Counted(d) : j < i})
           first == IF static THEN 0 ELSE 1
           type == TypeOf(IF i > 1 /\ d[i - 1] = "[" THEN "[" ELSE d[i])
<1>1. PICK b \in Begins(d) : BeginsAfter(d, n) = {b} /\ TypeOf(d[b]) = type
  BY BeginsWhere
<1>2. n \in Nat /\ n < Cardinality(Begins(d)) /\ Cardinality(Begins(d)) \in Nat
  <2>1. Begins(d) \in SUBSET (1 .. Len(d)) /\ Len(d) \in Nat
    BY DEF Begins
  <2>3. IsFiniteSet(1 .. Len(d))
    BY <2>1, FS_Interval
  <2>2. Cardinality(Begins(d)) \in Nat
    BY <2>1, <2>3, FS_Subset, FS_CardinalityType
  <2> QED
    BY <2>2, BeginsWhere
<1> HIDE DEF n, type
<1>3. Min({b}) = b
  <2>1. b \in Int
    BY DEF Begins
  <2> QED
    BY <2>1 DEF Min
<1>4. TypeOf(d[Min(BeginsAfter(d, n))]) = type
  BY <1>1, <1>3
<1>5. /\ ~ (~static /\ first + n = 0)
      /\ (IF static THEN first + n ELSE (first + n) - 1) = n
      /\ ~ (n > Cardinality(Begins(d))) /\ n # Cardinality(Begins(d))
  BY <1>2
<1> HIDE DEF first
<1>6. ArgumentType(d, first + n, static) = type
  BY <1>4, <1>5 DEF ArgumentType
<1> QED
  BY <1>6 DEF first, n, type

-----------------------------------------------------------------------------
(* The layout of one class.                                                *)

FieldsTyped(f) == f.fields \in Seq([static : BOOLEAN, ref : Nat])

\* The fields of an object or of a class, as the file has them and as they are laid out.
FieldsFrom(f, static) == {k \in DOMAIN f.fields : f.fields[k].static = static}
PlacesOf(f, p, static) == {k \in DOMAIN p : f.fields[p[k]].static = static}
Wide(f, ks) == {k \in ks : FieldSize(f, k) = 8}
WidePlaces(f, p, ks) == {k \in ks : FieldSize(f, p[k]) = 8}
Bytes(n, wide) == 4 * n + 4 * wide

LEMMA SizesOfFields == \A f, k : FieldSize(f, k) \in {4, 8}
BY DEF FieldSize, SizeOf

LEMMA SortingMoves ==
    ASSUME NEW f, FieldsTyped(f), NEW p \in Sortings(f)
    PROVE  /\ DOMAIN f.fields = 1 .. Len(f.fields) /\ Len(f.fields) \in Nat
           /\ IsFiniteSet(DOMAIN f.fields)
           /\ p \in [DOMAIN f.fields -> DOMAIN f.fields]
           /\ \A i, j \in DOMAIN p : p[i] = p[j] => i = j
           /\ \A k \in DOMAIN f.fields : \E i \in DOMAIN p : p[i] = k
<1> DEFINE D == DOMAIN f.fields
<1>1. D = 1 .. Len(f.fields) /\ Len(f.fields) \in Nat
  BY DEF FieldsTyped
<1>2. IsFiniteSet(D)
  BY <1>1, FS_Interval
<1>3. p \in [D -> D] /\ \A i, j \in DOMAIN p : p[i] = p[j] => i = j
  BY DEF Sortings
<1>4. p \in Injection(D, D)
  BY <1>3 DEF Injection, IsInjective
<1>5. p \in Surjection(D, D)
  BY <1>2, <1>4, FS_Injection
<1> QED
  BY <1>1, <1>2, <1>3, <1>5 DEF Surjection

\* Sorting leaves their number as it is.
LEMMA AsManyPlaces ==
    ASSUME NEW f, FieldsTyped(f), NEW p \in Sortings(f), NEW static
    PROVE  LET ks == FieldsFrom(f, static)
               ps == PlacesOf(f, p, static)
           IN  /\ IsFiniteSet(ks) /\ IsFiniteSet(ps) /\ Cardinality(ps) = Cardinality(ks)
               /\ IsFiniteSet(Wide(f, ks)) /\ IsFiniteSet(WidePlaces(f, p, ps))
               /\ Cardinality(WidePlaces(f, p, ps)) = Cardinality(Wide(f, ks))
<1> DEFINE D == DOMAIN f.fields
           ks == FieldsFrom(f, static)
           ps == PlacesOf(f, p, static)
<1>1. /\ IsFiniteSet(D) /\ p \in [D -> D]
      /\ \A i, j \in D : p[i] = p[j] => i = j
      /\ \A k \in D : \E i \in D : p[i] = k
  BY SortingMoves
<1>2. /\ IsFiniteSet(ks) /\ IsFiniteSet(ps) /\ IsFiniteSet(Wide(f, ks)) /\ IsFiniteSet(WidePlaces(f, p, ps))
  <2>1. /\ ks \in SUBSET D /\ ps \in SUBSET D /\ Wide(f, ks) \in SUBSET D /\ WidePlaces(f, p, ps) \in SUBSET D
    BY <1>1 DEF FieldsFrom, PlacesOf, Wide, WidePlaces
  <2> QED
    BY <1>1, <2>1, FS_Subset
<1>3. ASSUME NEW T \in SUBSET D, NEW S \in SUBSET D, \A i \in D : i \in S <=> p[i] \in T
      PROVE  Cardinality(S) = Cardinality(T)
  <2> DEFINE g == [i \in S |-> p[i]]
  <2>1. g \in [S -> T] /\ \A i, j \in S : g[i] = g[j] => i = j
    BY <1>1, <1>3
  <2>2. \A k \in T : \E i \in S : g[i] = k
    BY <1>1, <1>3
  <2>3. IsFiniteSet(S)
    BY <1>1, FS_Subset
  <2> HIDE DEF g
  <2> QED
    BY <2>1, <2>2, <2>3, SameSize
<1>4. Cardinality(ps) = Cardinality(ks)
  <2>1. ks \in SUBSET D /\ ps \in SUBSET D /\ \A i \in D : i \in ps <=> p[i] \in ks
    BY <1>1 DEF FieldsFrom, PlacesOf
  <2> HIDE DEF ks, ps, D
  <2> QED
    BY <1>3, <2>1
<1>5. Cardinality(WidePlaces(f, p, ps)) = Cardinality(Wide(f, ks))
  <2> DEFINE S == WidePlaces(f, p, ps)
             T == Wide(f, ks)
  <2>1. T \in SUBSET D /\ S \in SUBSET D /\ \A i \in D : i \in S <=> p[i] \in T
    BY <1>1 DEF FieldsFrom, PlacesOf, Wide, WidePlaces
  <2> HIDE DEF ks, ps, D, S, T
  <2>2. Cardinality(S) = Cardinality(T)
    BY <1>3, <2>1
  <2> QED
    BY <2>2 DEF S, T
<1> QED
  BY <1>2, <1>4, <1>5

-----------------------------------------------------------------------------
(* The bytes of the first n fields.                                        *)

Those(f, p, n, static) == {k \in 1 .. n : f.fields[p[k]].static = static}

LEMMA ExtentIs ==
    ASSUME NEW f, NEW p, NEW n \in Nat, NEW static
    PROVE  LET those == Those(f, p, n, static)
               wide == WidePlaces(f, p, those)
           IN  /\ IsFiniteSet(those) /\ IsFiniteSet(wide)
               /\ Cardinality(those) \in Nat /\ Cardinality(wide) \in Nat
               /\ Extent(f, p, n, static) = Bytes(Cardinality(those), Cardinality(wide))
               /\ Extent(f, p, n, static) \in Nat
<1> DEFINE those == Those(f, p, n, static)
           wide == WidePlaces(f, p, those)
<1>1. IsFiniteSet(1 .. n)
  BY FS_Interval
<1>2. those \in SUBSET (1 .. n) /\ wide \in SUBSET (1 .. n)
  BY DEF Those, WidePlaces
<1>3. IsFiniteSet(those) /\ IsFiniteSet(wide) /\ Cardinality(those) \in Nat /\ Cardinality(wide) \in Nat
  BY <1>1, <1>2, FS_Subset, FS_CardinalityType
<1>4. Extent(f, p, n, static) = 4 * Cardinality(those) + 4 * Cardinality(wide)
  BY DEF Extent, Those, WidePlaces
<1> HIDE DEF those, wide
<1>5. 4 * Cardinality(those) + 4 * Cardinality(wide) \in Nat
  BY <1>3
<1> QED
  BY <1>3, <1>4, <1>5 DEF Bytes, those, wide

\* The next field adds its size.
LEMMA ExtentAdds ==
    ASSUME NEW f, NEW p, NEW n \in Nat \ {0}, NEW static, f.fields[p[n]].static = static
    PROVE  /\ Extent(f, p, n - 1, static) \in Nat
           /\ Extent(f, p, n, static) = Extent(f, p, n - 1, static) + FieldSize(f, p[n])
<1> DEFINE a == Those(f, p, n - 1, static)
           b == Those(f, p, n, static)
           aw == WidePlaces(f, p, a)
           bw == WidePlaces(f, p, b)
<1>1. n - 1 \in Nat /\ n \in Nat
  OBVIOUS
<1>2. /\ IsFiniteSet(a) /\ IsFiniteSet(aw) /\ Cardinality(a) \in Nat /\ Cardinality(aw) \in Nat
      /\ Extent(f, p, n - 1, static) = Bytes(Cardinality(a), Cardinality(aw))
      /\ Extent(f, p, n, static) = Bytes(Cardinality(b), Cardinality(bw))
  BY <1>1, ExtentIs
<1>3. b = a \cup {n} /\ n \notin a
  <2>1. \A k : k \in 1 .. n <=> k \in 1 .. n - 1 \/ k = n
    BY <1>1
  <2>2. n \notin 1 .. n - 1
    BY <1>1
  <2> QED
    BY <2>1, <2>2 DEF Those
<1>4. Cardinality(b) = Cardinality(a) + 1
  BY <1>2, <1>3, FS_AddElement
<1>5. CASE FieldSize(f, p[n]) = 8
  <2>1. bw = aw \cup {n} /\ n \notin aw
    BY <1>3, <1>5 DEF WidePlaces
  <2>2. Cardinality(bw) = Cardinality(aw) + 1
    BY <1>2, <2>1, FS_AddElement
  <2> HIDE DEF a, b, aw, bw
  <2> QED
    BY <1>2, <1>4, <1>5, <2>2 DEF Bytes
<1>6. CASE FieldSize(f, p[n]) = 4
  <2>1. bw = aw
    BY <1>3, <1>6 DEF WidePlaces
  <2> HIDE DEF a, b, aw, bw
  <2> QED
    BY <1>2, <1>4, <1>6, <2>1 DEF Bytes
<1> QED
  BY <1>5, <1>6, SizesOfFields

LEMMA ExtentGrows ==
    ASSUME NEW f, NEW p, NEW m \in Nat, NEW n \in Nat, m <= n, NEW static
    PROVE  Extent(f, p, m, static) <= Extent(f, p, n, static)
<1> DEFINE a == Those(f, p, m, static)
           b == Those(f, p, n, static)
           aw == WidePlaces(f, p, a)
           bw == WidePlaces(f, p, b)
<1>1. a \in SUBSET b /\ aw \in SUBSET bw
  BY DEF Those, WidePlaces
<1>2. /\ IsFiniteSet(b) /\ IsFiniteSet(bw) /\ Cardinality(a) \in Nat /\ Cardinality(aw) \in Nat
      /\ Cardinality(b) \in Nat /\ Cardinality(bw) \in Nat
      /\ Extent(f, p, m, static) = Bytes(Cardinality(a), Cardinality(aw))
      /\ Extent(f, p, n, static) = Bytes(Cardinality(b), Cardinality(bw))
  BY ExtentIs
<1>3. Cardinality(a) <= Cardinality(b) /\ Cardinality(aw) <= Cardinality(bw)
  BY <1>1, <1>2, FS_Subset
<1> HIDE DEF a, b, aw, bw
<1> QED
  BY <1>2, <1>3 DEF Bytes

\* All of them: as many bytes as the fields of the file take, in whatever order.
LEMMA WholeExtent ==
    ASSUME NEW f, FieldsTyped(f), NEW p \in Sortings(f), NEW static
    PROVE  LET ks == FieldsFrom(f, static)
               ps == PlacesOf(f, p, static)
           IN  /\ Len(f.fields) \in Nat
               /\ Extent(f, p, Len(f.fields), static) \in Nat
               /\ Extent(f, p, Len(f.fields), static) = Bytes(Cardinality(ks), Cardinality(Wide(f, ks)))
               /\ Extent(f, p, Len(f.fields), static) = Bytes(Cardinality(ps), Cardinality(WidePlaces(f, p, ps)))
<1>1. DOMAIN p = 1 .. Len(f.fields) /\ Len(f.fields) \in Nat
  BY SortingMoves
<1>2. Those(f, p, Len(f.fields), static) = PlacesOf(f, p, static)
  BY <1>1 DEF Those, PlacesOf
<1> QED
  BY <1>1, <1>2, ExtentIs, AsManyPlaces

\* The fields laid out from base share no byte and end where the extent does,
\* unless that is more than the size can say.
LEMMA PlacesApart ==
    ASSUME NEW f, FieldsTyped(f), NEW p \in Sortings(f), NEW inherited \in Nat, NEW static \in BOOLEAN
    PROVE  LET base == IF static THEN 0 ELSE inherited
               end == base + Extent(f, p, Len(f.fields), static)
               at == LayOut(f, p, inherited)
           IN  end < SizeModulus =>
               \A k \in PlacesOf(f, p, static) :
                   /\ at[k].size = FieldSize(f, p[k]) /\ at[k].offset \in Nat /\ at[k].size \in Nat
                   /\ base <= at[k].offset /\ at[k].offset + at[k].size <= end
                   /\ \A l \in PlacesOf(f, p, static) :
                          k < l => at[k].offset + at[k].size <= at[l].offset
<1> DEFINE base == IF static THEN 0 ELSE inherited
           N == Len(f.fields)
           E(k) == Extent(f, p, k, static)
           at == LayOut(f, p, inherited)
<1> SUFFICES ASSUME base + E(N) < SizeModulus,
                    NEW k \in PlacesOf(f, p, static), NEW l \in PlacesOf(f, p, static)
             PROVE  /\ at[k].size = FieldSize(f, p[k]) /\ at[k].offset \in Nat /\ at[k].size \in Nat
                    /\ base <= at[k].offset /\ at[k].offset + at[k].size <= base + E(N)
                    /\ k < l => at[k].offset + at[k].size <= at[l].offset
  OBVIOUS
<1>1. N \in Nat /\ DOMAIN p = 1 .. N /\ base \in Nat /\ SizeModulus \in Nat
  BY SortingMoves, ClassFileAssumption
<1>2. ASSUME NEW m \in PlacesOf(f, p, static)
      PROVE  /\ m \in 1 .. N /\ m - 1 \in Nat /\ at[m].size = FieldSize(f, p[m])
             /\ E(m - 1) \in Nat /\ E(m) \in Nat /\ E(m) = E(m - 1) + FieldSize(f, p[m])
             /\ E(m) <= E(N) /\ E(N) \in Nat
             /\ at[m].offset = (base + E(m - 1)) % SizeModulus
  <2>1. m \in 1 .. N /\ m \in Nat \ {0} /\ m - 1 \in Nat /\ m <= N /\ f.fields[p[m]].static = static
    BY <1>1 DEF PlacesOf
  <2>2. /\ at[m].size = FieldSize(f, p[m])
        /\ at[m].offset = (base + E(m - 1)) % SizeModulus
    BY <1>1, <2>1 DEF LayOut
  <2>3. E(m - 1) \in Nat /\ E(m) = E(m - 1) + FieldSize(f, p[m])
    BY <2>1, ExtentAdds
  <2>4. E(m) <= E(N) /\ E(N) \in Nat /\ E(m) \in Nat
    BY <1>1, <2>1, ExtentGrows, ExtentIs
  <2> QED
    BY <2>1, <2>2, <2>3, <2>4
<1>3. ASSUME NEW m \in PlacesOf(f, p, static)
      PROVE  at[m].offset = base + E(m - 1)
  <2> DEFINE e == E(m - 1)
             z == E(m)
             all == E(N)
             size == FieldSize(f, p[m])
  <2>1. /\ e \in Nat /\ z = e + size /\ size \in {4, 8} /\ z <= all /\ all \in Nat
        /\ at[m].offset = (base + e) % SizeModulus /\ base + all < SizeModulus
    BY <1>2, SizesOfFields
  <2> HIDE DEF E, base, N, at, e, z, all, size
  <2>2. base + e \in 0 .. SizeModulus - 1
    BY <1>1, <2>1
  <2>3. (base + e) % SizeModulus = base + e
    BY <1>1, <2>2
  <2> QED
    BY <2>1, <2>3 DEF e
<1>4. k < l => E(k) <= E(l - 1)
  <2>1. k \in 1 .. N /\ l \in 1 .. N /\ l - 1 \in Nat
    BY <1>2
  <2>2. k < l => k <= l - 1 /\ k \in Nat
    BY <2>1
  <2> QED
    BY <2>1, <2>2, ExtentGrows
<1> HIDE DEF E, base, N, at
<1>5. /\ at[k].size = FieldSize(f, p[k]) /\ FieldSize(f, p[k]) \in {4, 8}
      /\ E(k - 1) \in Nat /\ E(k) \in Nat /\ E(k) = E(k - 1) + FieldSize(f, p[k]) /\ E(k) <= E(N) /\ E(N) \in Nat
      /\ E(l - 1) \in Nat /\ E(l) \in Nat
      /\ at[k].offset = base + E(k - 1) /\ at[l].offset = base + E(l - 1)
  BY <1>2, <1>3, SizesOfFields
<1> QED
  BY <1>1, <1>4, <1>5

-----------------------------------------------------------------------------
(* Superclasses.                                                           *)

\* The superclass a class has or will have, and all those above it.
SuperOf(n) ==
    IF Readable(n)
    THEN IF files[n].super = 0 THEN Null ELSE NameAt(files[n], files[n].super)
    ELSE IF n \in Arrays THEN Object ELSE Null
Above == [m \in Names |-> {SuperOf(m)} \ {Null}]
Up(n) == Closure({n}, Above)

LEMMA SupersAreNames ==
    ASSUME files \in FileSets
    PROVE  /\ \A n \in Names : /\ SuperOf(n) \in Names \cup {Null}
                               /\ SuperOf(n) # Null => SuperOf(n) \in Parents(n)
           /\ Above \in [Names -> SUBSET Names]
           /\ Null \notin Names
<1>1. Null \notin Names
  BY ClassLoaderAssumption
<1>2. ASSUME NEW n \in Names PROVE SuperOf(n) \in Names \cup {Null} /\ (SuperOf(n) # Null => SuperOf(n) \in Parents(n))
  <2>1. Parents(n) \subseteq Names
    BY ParentsAreNames
  <2>2. SuperOf(n) # Null => SuperOf(n) \in Parents(n)
    <3>1. CASE Readable(n)
      BY <3>1, IndexesAreParents DEF SuperOf
    <3>2. CASE ~Readable(n) /\ n \in Arrays
      BY <3>2, ClassLoaderAssumption DEF SuperOf, Parents, HaveFiles
    <3>3. CASE ~Readable(n) /\ n \notin Arrays
      BY <3>3 DEF SuperOf
    <3> QED
      BY <3>1, <3>2, <3>3
  <2> QED
    BY <2>1, <2>2
<1>3. Above \in [Names -> SUBSET Names]
  BY <1>2 DEF Above
<1> QED
  BY <1>1, <1>2, <1>3

LEMMA UpIsLeast ==
    ASSUME files \in FileSets, NEW n \in Names
    PROVE  /\ n \in Up(n) /\ Up(n) \subseteq Names
           /\ \A k \in Up(n) : SuperOf(k) # Null => SuperOf(k) \in Up(n)
           /\ \A S \in SUBSET Names : (n \in S /\ \A k \in S : SuperOf(k) # Null => SuperOf(k) \in S)
                                          => Up(n) \subseteq S
<1>1. /\ {n} \subseteq Up(n) /\ Up(n) \subseteq Names
      /\ \A k \in Up(n) : Above[k] \subseteq Up(n)
      /\ \A S \in SUBSET Names : ({n} \subseteq S /\ \A k \in S : Above[k] \subseteq S) => Up(n) \subseteq S
  <2>1. Above \in [Names -> SUBSET Names] /\ {n} \in SUBSET Names
    BY SupersAreNames
  <2> QED
    BY <2>1, ClosureIsLeast DEF Up
<1>2. \A k \in Names : Above[k] = {SuperOf(k)} \ {Null}
  BY DEF Above
<1> QED
  BY <1>1, <1>2

LEMMA UpStep ==
    ASSUME files \in FileSets, NEW n \in Names
    PROVE  /\ SuperOf(n) = Null => Up(n) = {n}
           /\ SuperOf(n) # Null => Up(n) = {n} \cup Up(SuperOf(n))
<1>1. CASE SuperOf(n) = Null
  <2>1. {n} \in SUBSET Names /\ \A k \in {n} : SuperOf(k) # Null => SuperOf(k) \in {n}
    BY <1>1
  <2>2. n \in Up(n) /\ Up(n) \subseteq {n}
    BY <2>1, UpIsLeast
  <2> QED
    BY <1>1, <2>2
<1>2. CASE SuperOf(n) # Null
  <2> DEFINE s == SuperOf(n)
  <2>1. s \in Names
    BY <1>2, SupersAreNames
  <2>2. s \in Up(s) /\ Up(s) \subseteq Names /\ \A k \in Up(s) : SuperOf(k) # Null => SuperOf(k) \in Up(s)
    BY <2>1, UpIsLeast
  <2>3. Up(n) \subseteq {n} \cup Up(s)
    <3>1. {n} \cup Up(s) \in SUBSET Names
      BY <2>2
    <3>2. \A k \in {n} \cup Up(s) : SuperOf(k) # Null => SuperOf(k) \in {n} \cup Up(s)
      BY <2>2
    <3> QED
      BY <3>1, <3>2, UpIsLeast
  <2>4. n \in Up(n) /\ s \in Up(n) /\ Up(n) \in SUBSET Names
        /\ \A k \in Up(n) : SuperOf(k) # Null => SuperOf(k) \in Up(n)
    BY <1>2, UpIsLeast
  <2>5. Up(s) \subseteq Up(n)
    BY <2>1, <2>4, UpIsLeast
  <2> QED
    BY <1>2, <2>3, <2>4, <2>5
<1> QED
  BY <1>1, <1>2

\* Sets of classes that loading builds: with a class, what it needs.
Built(done) == /\ done \subseteq Names
               /\ \A m \in done : Parents(m) \subseteq done /\ (m \in HaveFiles => Readable(m))

LEMMA UpWithin ==
    ASSUME files \in FileSets, NEW done, Built(done), NEW n \in done
    PROVE  Up(n) \subseteq done
<1>1. \A k \in done : SuperOf(k) # Null => SuperOf(k) \in done
  BY SupersAreNames DEF Built
<1> QED
  BY <1>1, UpIsLeast DEF Built

-----------------------------------------------------------------------------
(* The fields of several classes.                                          *)

PairsIn(A, K) == UNION {{<<m, k>> : k \in K[m]} : m \in A}

LEMMA PairIn ==
    ASSUME NEW A, NEW K, NEW x
    PROVE  x \in PairsIn(A, K) <=> \E m \in A : \E k \in K[m] : x = <<m, k>>
BY DEF PairsIn

LEMMA PairsAreFinite ==
    ASSUME NEW A, IsFiniteSet(A), NEW K, \A m \in A : IsFiniteSet(K[m])
    PROVE  IsFiniteSet(PairsIn(A, K))
<1> DEFINE P(m) == {<<m, k>> : k \in K[m]}
           Ps == {P(m) : m \in A}
<1>1. ASSUME NEW m \in A PROVE IsFiniteSet(P(m))
  <2> DEFINE g == [k \in K[m] |-> <<m, k>>]
  <2>1. g \in [K[m] -> P(m)] /\ \A y \in P(m) : \E x \in K[m] : g[x] = y
    OBVIOUS
  <2> HIDE DEF g, P
  <2> QED
    BY <2>1, NotMore
<1>2. IsFiniteSet(Ps)
  <2> DEFINE g == [m \in A |-> P(m)]
  <2>1. g \in [A -> Ps] /\ \A y \in Ps : \E x \in A : g[x] = y
    OBVIOUS
  <2> HIDE DEF g, Ps
  <2> QED
    BY <2>1, NotMore
<1>3. \A T \in Ps : IsFiniteSet(T)
  BY <1>1
<1>4. PairsIn(A, K) = UNION Ps
  BY DEF PairsIn
<1> HIDE DEF Ps
<1> QED
  BY <1>2, <1>3, <1>4, FS_UNION

\* Another class adds its own.
LEMMA PairsAdd ==
    ASSUME NEW A, IsFiniteSet(A), NEW n, n \notin A, NEW K, \A m \in A \cup {n} : IsFiniteSet(K[m])
    PROVE  /\ Cardinality(PairsIn(A, K)) \in Nat /\ Cardinality(K[n]) \in Nat
           /\ Cardinality(PairsIn(A \cup {n}, K)) = Cardinality(PairsIn(A, K)) + Cardinality(K[n])
<1> DEFINE P == {<<n, k>> : k \in K[n]}
           Q == PairsIn(A, K)
<1>1. IsFiniteSet(P) /\ Cardinality(P) = Cardinality(K[n])
  <2> DEFINE g == [k \in K[n] |-> <<n, k>>]
  <2>1. /\ g \in [K[n] -> P]
        /\ \A x, y \in K[n] : g[x] = g[y] => x = y
        /\ \A y \in P : \E x \in K[n] : g[x] = y
    OBVIOUS
  <2> HIDE DEF g, P
  <2> QED
    BY <2>1, SameSize
<1>2. IsFiniteSet(Q)
  BY PairsAreFinite
<1>3. Q \cap P = {}
  BY PairIn
<1>4. PairsIn(A \cup {n}, K) = Q \cup P
  BY PairIn
<1>5. Cardinality(Q \cap P) = 0
  BY <1>3, FS_EmptySet
<1> HIDE DEF P, Q
<1>6. /\ Cardinality(Q) \in Nat /\ Cardinality(K[n]) \in Nat
      /\ Cardinality(Q \cup P) = Cardinality(Q) + Cardinality(P) - Cardinality(Q \cap P)
  BY <1>1, <1>2, FS_Union, FS_CardinalityType
<1>7. Cardinality(Q \cup P) = Cardinality(Q) + Cardinality(K[n])
  BY <1>1, <1>5, <1>6
<1> QED
  BY <1>4, <1>6, <1>7 DEF Q

\* The fields of objects by their files, and the bytes they need.
OwnFields == [m \in Names |-> FieldsFrom(files[m], FALSE)]
WideFields == [m \in Names |-> Wide(files[m], OwnFields[m])]
Total(n) == Bytes(Cardinality(OwnFields[n]), Cardinality(WideFields[n]))
Need(A) == Bytes(Cardinality(PairsIn(A, OwnFields)), Cardinality(PairsIn(A, WideFields)))

LEMMA OwnAreFinite ==
    ASSUME files \in FileSets, NEW m \in Names, Readable(m)
    PROVE  /\ FieldsTyped(files[m])
           /\ IsFiniteSet(OwnFields[m]) /\ IsFiniteSet(WideFields[m])
           /\ Cardinality(OwnFields[m]) \in Nat /\ Cardinality(WideFields[m]) \in Nat
<1>1. FieldsTyped(files[m])
  BY FilesAssumption DEF Readable, FieldsTyped
<1>2. DOMAIN files[m].fields = 1 .. Len(files[m].fields) /\ Len(files[m].fields) \in Nat
  BY <1>1 DEF FieldsTyped
<1>3. IsFiniteSet(DOMAIN files[m].fields)
  BY <1>2, FS_Interval
<1>4. OwnFields[m] \in SUBSET (DOMAIN files[m].fields) /\ WideFields[m] \in SUBSET (DOMAIN files[m].fields)
  BY DEF OwnFields, WideFields, FieldsFrom, Wide
<1> QED
  BY <1>1, <1>3, <1>4, FS_Subset, FS_CardinalityType

LEMMA TotalIs ==
    ASSUME files \in FileSets, NEW m \in Names, Readable(m)
    PROVE  Total(m) \in Nat
BY OwnAreFinite DEF Total, Bytes

LEMMA NeedAdds ==
    ASSUME files \in FileSets, NEW A \in SUBSET Names, NEW n \in Names \ A,
           \A m \in A \cup {n} : Readable(m)
    PROVE  Need(A) \in Nat /\ Need(A \cup {n}) = Need(A) + Total(n)
<1>1. IsFiniteSet(A)
  BY HashMapAssumption, FS_Subset DEF Names
<1>2. \A m \in A \cup {n} : IsFiniteSet(OwnFields[m]) /\ IsFiniteSet(WideFields[m])
  BY OwnAreFinite
<1>3. n \notin A
  OBVIOUS
<1> DEFINE a == Cardinality(PairsIn(A, OwnFields))
           b == Cardinality(PairsIn(A \cup {n}, OwnFields))
           c == Cardinality(OwnFields[n])
           aw == Cardinality(PairsIn(A, WideFields))
           bw == Cardinality(PairsIn(A \cup {n}, WideFields))
           cw == Cardinality(WideFields[n])
<1>4. a \in Nat /\ c \in Nat /\ b = a + c
  BY <1>1, <1>2, <1>3, PairsAdd
<1>5. aw \in Nat /\ cw \in Nat /\ bw = aw + cw
  BY <1>1, <1>2, <1>3, PairsAdd
<1>6. Need(A) = Bytes(a, aw) /\ Need(A \cup {n}) = Bytes(b, bw) /\ Total(n) = Bytes(c, cw)
  BY DEF Need, Total
<1> HIDE DEF a, b, c, aw, bw, cw
<1> QED
  BY <1>4, <1>5, <1>6 DEF Bytes

LEMMA NoNeed == Need({}) = 0
<1>1. PairsIn({}, OwnFields) = {} /\ PairsIn({}, WideFields) = {}
  BY DEF PairsIn
<1>2. Cardinality(PairsIn({}, OwnFields)) = 0 /\ Cardinality(PairsIn({}, WideFields)) = 0
  BY <1>1, FS_EmptySet
<1> QED
  BY <1>2 DEF Need, Bytes

-----------------------------------------------------------------------------
(* The sizes of objects: of each class that was ever finished, one.        *)

Inherits(n, size) == IF SuperOf(n) = Null THEN HeaderSize ELSE size[SuperOf(n)]
SizeWithout(n) == IF n \in Arrays THEN HeaderSize ELSE 0

\* No class above was made without a file, and the sizes can say what is needed.
Fits(n) == Up(n) \subseteq HaveFiles /\ HeaderSize + Need(Up(n)) < SizeModulus

\* The fields of the classes above follow each other.
Stacked(n, size) ==
    /\ size[n] = HeaderSize + Need(Up(n))
    /\ \A m \in Up(n) : /\ size[m] = Inherits(m, size) + Total(m)
                        /\ HeaderSize <= Inherits(m, size)
                        /\ size[m] <= size[n]
    /\ \A l, m \in Up(n) : l = m \/ size[l] <= Inherits(m, size) \/ size[m] <= Inherits(l, size)

SizeRight(n, size) ==
    /\ n \in HaveFiles => size[n] = (Inherits(n, size) + Total(n)) % SizeModulus
    /\ n \notin HaveFiles => size[n] = SizeWithout(n)
    /\ Fits(n) => Stacked(n, size)
SizesRight(size, done) == \A n \in done : SizeRight(n, size)

\* They do not change when other classes are finished.
LEMMA SizeStays ==
    ASSUME files \in FileSets, NEW done, Built(done), NEW size, NEW other, \A m \in done : other[m] = size[m],
           NEW n \in done, SizeRight(n, size)
    PROVE  SizeRight(n, other)
<1>1. \A m \in done : SuperOf(m) # Null => SuperOf(m) \in done
  BY SupersAreNames DEF Built
<1>2. \A m \in done : other[m] = size[m] /\ Inherits(m, other) = Inherits(m, size)
  BY <1>1 DEF Inherits
<1>3. Up(n) \subseteq done
  BY UpWithin
<1>4. Stacked(n, size) => Stacked(n, other)
  BY <1>2, <1>3 DEF Stacked
<1> QED
  BY <1>2, <1>4 DEF SizeRight

\* The class above fits if this one does.
LEMMA FitsAbove ==
    ASSUME files \in FileSets, NEW done, Built(done), NEW n \in Names \ done, Readable(n),
           NEW s \in done, s = SuperOf(n), Fits(n)
    PROVE  /\ Up(n) = {n} \cup Up(s) /\ n \notin Up(s) /\ Up(s) \subseteq done
           /\ Need(Up(n)) = Need(Up(s)) + Total(n)
           /\ Need(Up(s)) \in Nat /\ Total(n) \in Nat
           /\ Fits(s)
<1>1. Up(n) = {n} \cup Up(s) /\ Up(s) \subseteq done /\ done \subseteq Names
  BY UpStep, UpWithin, SupersAreNames DEF Built
<1>2. n \notin Up(s) /\ Up(s) \in SUBSET Names /\ n \in Names \ Up(s) /\ Up(s) \cup {n} = Up(n)
  BY <1>1
<1>3. Up(s) \subseteq HaveFiles
  BY <1>1 DEF Fits
<1>4. \A m \in Up(s) \cup {n} : Readable(m)
  BY <1>1, <1>3 DEF Built
<1>5. Need(Up(s)) \in Nat /\ Need(Up(n)) = Need(Up(s)) + Total(n)
  BY <1>2, <1>4, NeedAdds
<1>6. Total(n) \in Nat
  BY TotalIs
<1>7. HeaderSize + Need(Up(s)) < SizeModulus
  BY <1>5, <1>6, ClassFileAssumption DEF Fits
<1> QED
  BY <1>1, <1>2, <1>3, <1>5, <1>6, <1>7 DEF Fits

\* The next class gets its own.
LEMMA NextSize ==
    ASSUME files \in FileSets, NEW done, Built(done), NEW size \in [Names -> Nat], SizesRight(size, done),
           NEW n \in Names \ done, Readable(n), SuperOf(n) # Null => SuperOf(n) \in done,
           size[n] = (Inherits(n, size) + Total(n)) % SizeModulus
    PROVE  SizeRight(n, size)
<1>1. n \in HaveFiles /\ Total(n) \in Nat /\ HeaderSize \in Nat /\ SizeModulus \in Nat /\ size[n] \in Nat
  BY TotalIs, ClassFileAssumption DEF Readable
<1>2. SUFFICES ASSUME Fits(n) PROVE Stacked(n, size)
  BY <1>1 DEF SizeRight
<1>3. CASE SuperOf(n) = Null
  <2>1. Up(n) = {n} /\ Inherits(n, size) = HeaderSize
    BY <1>3, UpStep DEF Inherits
  <2>2. Need(Up(n)) = Total(n)
    <3>1. {} \in SUBSET Names /\ n \in Names \ {} /\ \A m \in {} \cup {n} : Readable(m)
      OBVIOUS
    <3>2. Need({} \cup {n}) = Need({}) + Total(n)
      BY <3>1, NeedAdds
    <3> QED
      BY <1>1, <2>1, <3>2, NoNeed
  <2>3. HeaderSize + Total(n) \in 0 .. SizeModulus - 1
    BY <1>1, <1>2, <2>2 DEF Fits
  <2>4. size[n] = HeaderSize + Total(n)
    <3> DEFINE b == HeaderSize + Total(n)
    <3>1. size[n] = b % SizeModulus /\ b \in 0 .. SizeModulus - 1
      BY <2>1, <2>3
    <3> HIDE DEF b
    <3>2. size[n] = b
      BY <1>1, <3>1
    <3> QED
      BY <3>2 DEF b
  <2> QED
    BY <1>1, <2>1, <2>2, <2>4 DEF Stacked
<1>4. CASE SuperOf(n) # Null
  <2> DEFINE s == SuperOf(n)
  <2>1. s \in done /\ Inherits(n, size) = size[s] /\ SizeRight(s, size)
    BY <1>4 DEF Inherits, SizesRight
  <2>2. /\ Up(n) = {n} \cup Up(s) /\ n \notin Up(s) /\ Up(s) \subseteq done
        /\ Need(Up(n)) = Need(Up(s)) + Total(n)
        /\ Need(Up(s)) \in Nat /\ Total(n) \in Nat
        /\ Fits(s)
    BY <1>2, <2>1, FitsAbove
  <2>3. Stacked(s, size)
    BY <2>1, <2>2 DEF SizeRight
  <2>4. size[n] = HeaderSize + Need(Up(n)) /\ size[n] = size[s] + Total(n)
    <3> DEFINE b == size[s] + Total(n)
    <3>1. b = HeaderSize + Need(Up(n)) /\ b \in Nat
      BY <1>1, <2>2, <2>3 DEF Stacked
    <3>2. b \in 0 .. SizeModulus - 1 /\ size[n] = b % SizeModulus
      BY <1>1, <1>2, <2>1, <3>1 DEF Fits
    <3> HIDE DEF b
    <3>3. size[n] = b
      BY <1>1, <3>2
    <3> QED
      BY <3>1, <3>3 DEF b
  <2>5. done \subseteq Names /\ \A m \in Up(s) : size[m] \in Nat /\ size[m] <= size[s]
    BY <2>2, <2>3 DEF Stacked, Built
  <2>6. size[s] \in Nat /\ HeaderSize <= size[s]
    BY <1>1, <2>1, <2>2, <2>3, <2>5 DEF Stacked, Built
  <2>7. ASSUME NEW m \in Up(n)
        PROVE  size[m] = Inherits(m, size) + Total(m) /\ HeaderSize <= Inherits(m, size) /\ size[m] <= size[n]
    <3>1. CASE m = n
      BY <1>1, <2>1, <2>4, <2>6, <3>1
    <3>2. CASE m \in Up(s)
      <4>1. size[m] = Inherits(m, size) + Total(m) /\ HeaderSize <= Inherits(m, size) /\ size[m] <= size[s]
        BY <2>3, <3>2 DEF Stacked
      <4>2. size[s] <= size[n] /\ size[m] \in Nat
        BY <1>1, <2>4, <2>5, <2>6, <3>2
      <4> QED
        BY <1>1, <2>6, <4>1, <4>2
    <3> QED
      BY <2>2, <3>1, <3>2
  <2>8. ASSUME NEW l \in Up(n), NEW m \in Up(n)
        PROVE  l = m \/ size[l] <= Inherits(m, size) \/ size[m] <= Inherits(l, size)
    BY <2>1, <2>2, <2>3, <2>5 DEF Stacked
  <2> QED
    BY <2>4, <2>7, <2>8 DEF Stacked
<1> QED
  BY <1>3, <1>4

\* When a class is finished its size is the one it had before, or a new one.
LEMMA SizesGrow ==
    ASSUME files \in FileSets, NEW done, Built(done), NEW size \in [Names -> Nat], SizesRight(size, done),
           NEW n \in Names, Parents(n) \subseteq done, n \in HaveFiles => Readable(n)
    PROVE  \E grown \in [Names -> Nat] : /\ \A m \in done : grown[m] = size[m]
                                         /\ SizesRight(grown, done \cup {n})
<1>1. CASE n \in done
  BY <1>1 DEF SizesRight
<1>2. CASE n \notin done
  <2> DEFINE new == IF n \in HaveFiles THEN (Inherits(n, size) + Total(n)) % SizeModulus ELSE SizeWithout(n)
             grown == [size EXCEPT ![n] = new]
  <2>1. SuperOf(n) # Null => SuperOf(n) \in done
    BY SupersAreNames
  <2>2. n \in HaveFiles => new \in Nat
    <3>1. HeaderSize \in Nat /\ SizeModulus \in Nat \ {0} /\ (n \in HaveFiles => Total(n) \in Nat)
      BY ClassFileAssumption, TotalIs
    <3>2. Inherits(n, size) \in Nat
      BY <2>1, <3>1 DEF Inherits, Built
    <3> QED
      BY <3>1, <3>2
  <2>3. new \in Nat
    BY <2>2, ClassFileAssumption DEF SizeWithout
  <2>4. grown \in [Names -> Nat] /\ grown[n] = new /\ \A m \in Names \ {n} : grown[m] = size[m]
    BY <2>3
  <2> HIDE DEF grown
  <2>5. \A m \in done : grown[m] = size[m]
    BY <1>2, <2>4 DEF Built
  <2>6. SizesRight(grown, done)
    BY <2>5, SizeStays DEF SizesRight
  <2>7. SizeRight(n, grown)
    <3>1. CASE n \in HaveFiles
      <4>1. Inherits(n, grown) = Inherits(n, size)
        BY <2>1, <2>5 DEF Inherits
      <4>2. grown[n] = (Inherits(n, grown) + Total(n)) % SizeModulus
        BY <2>4, <3>1, <4>1
      <4> HIDE DEF new
      <4> QED
        BY <1>2, <2>1, <2>4, <2>6, <3>1, <4>2, NextSize
    <3>2. CASE n \notin HaveFiles
      <4>1. ~Fits(n)
        BY <3>2, UpIsLeast DEF Fits
      <4> QED
        BY <2>4, <3>2, <4>1 DEF SizeRight
    <3> QED
      BY <3>1, <3>2
  <2> QED
    BY <2>4, <2>5, <2>6, <2>7 DEF SizesRight
<1> QED
  BY <1>1, <1>2

-----------------------------------------------------------------------------
(* The superclass of a class in the making.                                *)

KnownAs(c, cl) == (c.at \in Working /\ c.name \notin Reaches(c.name)) =>
                      cl[c.name].super = IF c.at = "super" THEN Null ELSE SuperOf(c.name)
SupersKnown == \A i \in 1 .. Len(calls) : KnownAs(calls[i], class)

LEMMA SupersStay ==
    ASSUME files' = files
    PROVE  /\ \A n : SuperOf(n)' = SuperOf(n)
           /\ SupersKnown' <=> \A i \in 1 .. Len(calls') : KnownAs(calls'[i], class')
<1>1. \A n : SuperOf(n)' = SuperOf(n)
  BY FilesStay DEF SuperOf
<1>2. \A n : Reaches(n)' = Reaches(n)
  BY FilesStay
<1> QED
  BY <1>1, <1>2 DEF SupersKnown, KnownAs

\* Calls below the last one are as they were, and if they are for the class of
\* the last they are for one that is its own ancestor.
LEMMA BelowKnown ==
    ASSUME LoaderInv, SupersKnown, calls # <<>>, \A m \in Names \ {Here.name} : class'[m] = class[m],
           NEW i \in 1 .. Len(calls) - 1
    PROVE  KnownAs(calls[i], class')
<1>1. i \in 1 .. Len(calls) /\ calls[i].name \in Names
  <2>1. calls \in Seq(Frame) /\ Len(calls) \in Nat
    BY DEF LoaderInv, Typed
  <2>2. i \in 1 .. Len(calls) /\ calls[i] \in Frame
    BY <2>1
  <2> QED
    BY <2>2 DEF Frame
<1>2. Here.name \in Reaches(calls[i].name)
  BY InCall
<1> QED
  BY <1>1, <1>2 DEF SupersKnown, KnownAs

LEMMA CrashKnown ==
    ASSUME SupersKnown, UNCHANGED <<files, class, calls>>
    PROVE  SupersKnown'
BY SupersStay DEF SupersKnown

LEMMA ReturnKnown ==
    ASSUME LoaderInv, SupersKnown, calls # <<>>, files' = files,
           \A m \in Names \ {Here.name} : class'[m] = class[m],
           calls' = Front(calls)
    PROVE  SupersKnown'
<1>1. calls \in Seq(Frame)
  BY DEF LoaderInv, Typed
<1>2. ASSUME NEW i \in 1 .. Len(calls') PROVE KnownAs(calls'[i], class')
  <2>1. i \in 1 .. Len(calls) - 1 /\ calls'[i] = calls[i]
    BY <1>1, FrontAndLast
  <2> QED
    BY <2>1, BelowKnown
<1> QED
  BY <1>2, SupersStay

LEMMA LastReplaced ==
    ASSUME NEW cs \in Seq(Frame), cs # <<>>, NEW c \in Frame, NEW gone, gone = Front(cs) \o <<c>>
    PROVE  /\ Len(gone) = Len(cs) /\ gone[Len(cs)] = c
           /\ \A j \in 1 .. Len(cs) - 1 : gone[j] = cs[j]
BY NewLast

LEMMA GoKnown ==
    ASSUME LoaderInv, SupersKnown, calls # <<>>, files' = files,
           \A m \in Names \ {Here.name} : class'[m] = class[m],
           NEW c \in Frame, calls' = Front(calls) \o <<c>>, KnownAs(c, class')
    PROVE  SupersKnown'
<1>1. calls \in Seq(Frame) /\ Len(calls) \in Nat
  BY DEF LoaderInv, Typed
<1>2. ASSUME NEW i \in 1 .. Len(calls') PROVE KnownAs(calls'[i], class')
  <2>1. /\ Len(calls') = Len(calls) /\ calls'[Len(calls)] = c
        /\ \A j \in 1 .. Len(calls) - 1 : calls'[j] = calls[j]
    BY <1>1, LastReplaced
  <2>2. i = Len(calls) \/ i \in 1 .. Len(calls) - 1
    BY <1>1, <2>1
  <2> QED
    BY <2>1, <2>2, BelowKnown
<1> QED
  BY <1>2, SupersStay

LEMMA CallKnown ==
    ASSUME LoaderInv, SupersKnown, UNCHANGED <<files, class>>, NEW n \in Names, calls' = calls \o <<NewCall(n)>>
    PROVE  SupersKnown'
<1>1. calls \in Seq(Frame) /\ Len(calls) \in Nat /\ NewCall(n) \in Frame
  BY DEF LoaderInv, Typed, NewCall, Frame, Points
<1>2. ASSUME NEW i \in 1 .. Len(calls') PROVE KnownAs(calls'[i], class')
  <2>1. calls' = Append(calls, NewCall(n))
    BY <1>1, AppendIsConcat
  <2>2. /\ Len(calls') = Len(calls) + 1 /\ calls'[Len(calls) + 1] = NewCall(n)
        /\ \A j \in 1 .. Len(calls) : calls'[j] = calls[j]
    BY <1>1, <2>1, Pushed
  <2>3. i = Len(calls) + 1 \/ i \in 1 .. Len(calls)
    BY <1>1, <2>2
  <2>4. NewCall(n).at \notin Working
    BY DEF NewCall, Working
  <2> QED
    BY <2>2, <2>3, <2>4 DEF SupersKnown, KnownAs
<1> QED
  BY <1>2, SupersStay
\* The steps that leave the classes alone.
LEMMA OthersKnown ==
    ASSUME LoaderInv, SupersKnown,
           LookupCrashes \/ Lookup \/ LoadArray \/ NoFile \/ RefuseFile \/ CallSuper \/ CallInterface \/ Fail
    PROVE  SupersKnown'
<1>1. UNCHANGED <<files, class>>
  BY DEF LookupCrashes, Lookup, LoadArray, NoFile, RefuseFile, CallSuper, CallInterface, Fail,
         OnlyCalls, loadVars, callVars
<1>2. CASE LookupCrashes \/ NoFile \/ Fail
  BY <1>1, <1>2, CrashKnown DEF LookupCrashes, NoFile, Fail, loadVars
<1>3. calls # <<>> => Here.name \in Names /\ Here \in Frame /\ calls \in Seq(Frame) /\ ClassesTyped
  BY InCall DEF LoaderInv, Typed, ClassesTyped
<1>4. CASE Lookup \/ RefuseFile
  <2>1. calls # <<>> /\ calls' = Front(calls)
    BY <1>4 DEF Lookup, RefuseFile, At, AtFile, Return
  <2> QED
    BY <1>1, <2>1, ReturnKnown
<1>5. CASE LoadArray
  <2> DEFINE c == [Here EXCEPT !.at = "array"]
             q == Front(calls) \o <<c>>
  <2>1. /\ calls # <<>> /\ Object \in Names
        /\ calls' = Append(q, NewCall(Object))
    BY <1>5, ClassLoaderAssumption DEF LoadArray, At, HaveFiles
  <2>2. c \in Frame /\ c.at = "array" /\ NewCall(Object) \in Frame /\ NewCall(Object).at = "lookup"
    BY <1>3, <2>1 DEF Frame, Points, NewCall
  <2> HIDE DEF c
  <2>3. /\ q \in Seq(Frame) /\ Len(q) = Len(calls) /\ q[Len(calls)] = c
        /\ \A i \in 1 .. Len(calls) - 1 : q[i] = calls[i]
    BY <1>3, <2>1, <2>2, NewLast
  <2> HIDE DEF q
  <2>4. /\ Len(calls') = Len(q) + 1 /\ Len(q) \in Nat /\ calls'[Len(q) + 1] = NewCall(Object)
        /\ \A i \in 1 .. Len(q) : calls'[i] = q[i]
    BY <2>1, <2>2, <2>3, Pushed
  <2>5. ASSUME NEW i \in 1 .. Len(calls') PROVE KnownAs(calls'[i], class')
    <3>1. CASE i \in 1 .. Len(calls) - 1
      <4>1. calls'[i] = calls[i]
        BY <2>3, <2>4, <3>1
      <4> QED
        BY <1>1, <2>1, <3>1, <4>1, BelowKnown
    <3>2. CASE i = Len(calls)
      <4>1. calls'[i] = c
        BY <2>3, <2>4, <3>2
      <4> QED
        BY <2>2, <4>1 DEF KnownAs, Working
    <3>3. CASE i = Len(calls) + 1
      <4>1. calls'[i] = NewCall(Object)
        BY <2>3, <2>4, <3>3
      <4> QED
        BY <2>2, <4>1 DEF KnownAs, Working
    <3> QED
      BY <2>3, <2>4, <3>1, <3>2, <3>3
  <2> QED
    BY <1>1, <2>5, SupersStay
<1>6. CASE CallSuper
  <2> DEFINE f == files[Here.name]
             c == [Here EXCEPT !.at = "interfaces", !.next = 1]
  <2>1. /\ calls # <<>> /\ Here.at = "super"
        /\ IF f.super = 0 THEN Goto("interfaces", 1) ELSE Call(NameAt(f, f.super))
    BY <1>6 DEF CallSuper, At
  <2>2. Readable(Here.name) /\ files \in FileSets
    BY <2>1, InTheMaking DEF Working
  <2>3. CASE f.super = 0
    <3>1. c \in Frame /\ c.name = Here.name /\ c.at = "interfaces" /\ calls' = Front(calls) \o <<c>>
      BY <1>3, <2>1, <2>3 DEF Frame, Points, Goto
    <3>2. SuperOf(Here.name) = Null
      BY <2>2, <2>3 DEF SuperOf
    <3>3. KnownAs(Here, class)
      <4>1. Len(calls) \in 1 .. Len(calls) /\ Here = calls[Len(calls)]
        BY <1>3, <2>1, FrontAndLast DEF Here
      <4> QED
        BY <4>1 DEF SupersKnown
    <3>4. KnownAs(c, class')
      BY <1>1, <2>1, <3>1, <3>2, <3>3 DEF KnownAs, Working
    <3> HIDE DEF c
    <3> QED
      BY <1>1, <2>1, <3>1, <3>4, GoKnown
  <2>4. CASE f.super # 0
    <3>1. NameAt(f, f.super) \in Names /\ calls' = calls \o <<NewCall(NameAt(f, f.super))>>
      <4>1. NameAt(f, f.super) \in Parents(Here.name)
        BY <1>3, <2>1, <2>2, <2>4, IndexesAreParents
      <4> QED
        BY <1>3, <2>1, <2>2, <2>4, <4>1, ParentsAreNames DEF Call
    <3> QED
      BY <1>1, <3>1, CallKnown
  <2> QED
    BY <2>3, <2>4
<1>7. CASE CallInterface
  <2> DEFINE f == files[Here.name]
             c == [Here EXCEPT !.at = "members", !.next = 1]
  <2>1. /\ calls # <<>> /\ Here.at = "interfaces"
        /\ IF Here.next > Len(f.interfaces) THEN Goto("members", 1)
                                             ELSE Call(NameAt(f, f.interfaces[Here.next]))
    BY <1>7 DEF CallInterface, At
  <2>2. Readable(Here.name) /\ files \in FileSets /\ FrameOK(Here, complete)
    BY <2>1, InTheMaking, InCall DEF Working
  <2>3. CASE Here.next > Len(f.interfaces)
    <3>1. c \in Frame /\ c.name = Here.name /\ c.at = "members" /\ calls' = Front(calls) \o <<c>>
      BY <1>3, <2>1, <2>3 DEF Frame, Points, Goto
    <3>2. KnownAs(Here, class)
      <4>1. Len(calls) \in 1 .. Len(calls) /\ Here = calls[Len(calls)]
        BY <1>3, <2>1, FrontAndLast DEF Here
      <4> QED
        BY <4>1 DEF SupersKnown
    <3>3. KnownAs(c, class')
      BY <1>1, <2>1, <3>1, <3>2 DEF KnownAs, Working
    <3> HIDE DEF c
    <3> QED
      BY <1>1, <2>1, <3>1, <3>3, GoKnown
  <2>4. CASE ~ (Here.next > Len(f.interfaces))
    <3>1. Here.next \in 1 .. Len(f.interfaces)
      <4>1. Here.next \in 1 .. Len(f.interfaces) + 1 /\ Len(f.interfaces) \in Nat
        BY <1>3, <2>1, <2>2, IndexesAreParents DEF FrameOK
      <4> QED
        BY <2>4, <4>1
    <3>2. NameAt(f, f.interfaces[Here.next]) \in Parents(Here.name)
      BY <1>3, <2>1, <2>2, <3>1, IndexesAreParents
    <3>3. NameAt(f, f.interfaces[Here.next]) \in Names
      BY <1>3, <2>1, <2>2, <3>2, ParentsAreNames
    <3>4. calls' = calls \o <<NewCall(NameAt(f, f.interfaces[Here.next]))>>
      BY <2>1, <2>4 DEF Call
    <3> QED
      BY <1>1, <3>3, <3>4, CallKnown
  <2> QED
    BY <2>3, <2>4
<1> QED
  BY <1>2, <1>4, <1>5, <1>6, <1>7

-----------------------------------------------------------------------------
(* The records of the classes.                                             *)

LaidOut(n, p, base) ==
    /\ class[n].fields = LayOut(files[n], p, base)
    /\ class[n].objectSize = ObjectSize(files[n], p, base)
    /\ class[n].staticDataSize = StaticDataSize(files[n], p)

Loaded(n, size) ==
    /\ n \in complete /\ Readable(n)
    /\ class[n].super = SuperOf(n)
    /\ class[n].methods = Methods(files[n])
    /\ class[n].objectSize = size[n]
    /\ \E p \in Sortings(files[n]) : LaidOut(n, p, Inherits(n, size))

RecordRight(n, size) ==
    /\ class[n].status = "LOADED" => Loaded(n, size)
    /\ class[n].status \in {"LOADING", "LOADED"} => class[n].pool = files[n].constants
    /\ class[n].status = "INITIALIZED" => /\ n \in complete \ HaveFiles
                                          /\ class[n].objectSize = SizeWithout(n)
RecordsRight(size) == \A n \in Names : RecordRight(n, size)

Sized == \E size \in [Names -> Nat] : SizesRight(size, complete) /\ RecordsRight(size)
ReadableDone == \A n \in complete : n \in HaveFiles => Readable(n)

RecordInv == ReadableDone /\ SupersKnown /\ Sized

LEMMA DoneIsBuilt ==
    ASSUME LoaderInv, ReadableDone
    PROVE  Built(complete) /\ files \in FileSets
BY DEF LoaderInv, Typed, Finished, Built, ReadableDone

\* Nothing the sizes speak of changes with a step.
LEMMA SizesStay ==
    ASSUME files' = files
    PROVE  /\ \A n : Readable(n)' = Readable(n) /\ SuperOf(n)' = SuperOf(n)
           /\ \A n, size : Inherits(n, size)' = Inherits(n, size)
           /\ \A size : SizesRight(size, complete)' <=> SizesRight(size, complete')
           /\ \A n : SizeWithout(n)' = SizeWithout(n)
<1>1. \A n : Readable(n)' = Readable(n) /\ SuperOf(n)' = SuperOf(n)
  BY FilesStay, SupersStay
<1>2. \A n, size : Inherits(n, size)' = Inherits(n, size)
  BY <1>1 DEF Inherits
<1>3. Above' = Above
  BY <1>1 DEF Above
<1>4. \A n : Up(n)' = Up(n)
  BY <1>3 DEF Up, Closure
<1>5. OwnFields' = OwnFields
  BY DEF OwnFields, FieldsFrom
<1>6. WideFields' = WideFields
  BY <1>5 DEF WideFields, Wide, FieldSize, SizeOf, Chars
<1>7. (\A n : Total(n)' = Total(n)) /\ \A A : Need(A)' = Need(A)
  BY <1>5, <1>6 DEF Total, Need
<1>8. \A n : Fits(n)' <=> Fits(n)
  BY <1>4, <1>7 DEF Fits
<1>9. \A n, size : Stacked(n, size)' <=> Stacked(n, size)
  BY <1>2, <1>4, <1>7 DEF Stacked
<1>10. \A n, size : SizeRight(n, size)' <=> SizeRight(n, size)
  BY <1>2, <1>7, <1>8, <1>9 DEF SizeRight, SizeWithout
<1>11. \A size : SizesRight(size, complete)' <=> SizesRight(size, complete')
  BY <1>10 DEF SizesRight
<1>12. \A n : SizeWithout(n)' = SizeWithout(n)
  BY DEF SizeWithout
<1> QED
  BY <1>1, <1>2, <1>11, <1>12

\* A record that stays is as right as it was.
LEMMA RecordStays ==
    ASSUME files' = files, NEW n \in Names, class'[n] = class[n], complete \subseteq complete',
           NEW size, NEW other, RecordRight(n, size),
           class[n].status = "LOADED" => other[n] = size[n] /\ Inherits(n, other) = Inherits(n, size)
    PROVE  RecordRight(n, other)'
<1>1. /\ Readable(n)' = Readable(n) /\ SuperOf(n)' = SuperOf(n)
      /\ Inherits(n, other)' = Inherits(n, other) /\ SizeWithout(n)' = SizeWithout(n)
  BY SizesStay
<1>2. class[n].status = "LOADED" => Loaded(n, other)'
  <2> SUFFICES ASSUME class[n].status = "LOADED" PROVE Loaded(n, other)'
    OBVIOUS
  <2>1. Loaded(n, size)
    BY DEF RecordRight
  <2>2. PICK p \in Sortings(files[n]) : LaidOut(n, p, Inherits(n, size))
    BY <2>1 DEF Loaded
  <2>3. LaidOut(n, p, Inherits(n, other))'
    BY <1>1, <2>2 DEF LaidOut
  <2>4. p \in Sortings(files[n])'
    BY <2>2
  <2>5. /\ n \in complete' /\ Readable(n)' /\ class'[n].super = SuperOf(n)'
        /\ class'[n].methods = Methods(files[n]) /\ class'[n].objectSize = other[n]
    BY <1>1, <2>1 DEF Loaded
  <2> QED
    BY <2>3, <2>4, <2>5 DEF Loaded
<1> QED
  BY <1>1, <1>2 DEF RecordRight

\* Nothing is finished by the step, and a class is in the making at most.
LEMMA SizedMaking ==
    ASSUME Sized, UNCHANGED <<files, complete>>, NEW n \in Names,
           \A m \in Names \ {n} : class'[m] = class[m],
           class'[n] = class[n] \/ (class'[n].status = "LOADING" /\ class'[n].pool = files[n].constants)
    PROVE  Sized'
<1>1. PICK size \in [Names -> Nat] : SizesRight(size, complete) /\ RecordsRight(size)
  BY DEF Sized
<1>2. SizesRight(size, complete)'
  BY <1>1, SizesStay
<1>3. ASSUME NEW m \in Names, class'[m] = class[m] PROVE RecordRight(m, size)'
  BY <1>1, <1>3, RecordStays DEF RecordsRight
<1>4. CASE class'[n].status = "LOADING" /\ class'[n].pool = files[n].constants
  <2>1. RecordRight(n, size)'
    BY <1>4 DEF RecordRight
  <2> QED
    BY <1>1, <1>2, <1>3, <2>1 DEF Sized, RecordsRight
<1>5. CASE class'[n] = class[n]
  BY <1>1, <1>2, <1>3, <1>5 DEF Sized, RecordsRight
<1> QED
  BY <1>4, <1>5

\* Whoever is above a class that is about to be finished has a size, and keeps it.
LEMMA AboveIsDone ==
    ASSUME LoaderInv, RecordInv, NEW n \in Names, Parents(n) \subseteq complete,
           \A i \in 1 .. Len(calls) : calls[i].name = n \/ n \in Reaches(calls[i].name),
           NEW size \in [Names -> Nat], SizesRight(size, complete), RecordsRight(size),
           class[n].super = SuperOf(n)
    PROVE  InheritedSize(n) = Inherits(n, size) /\ Inherits(n, size) \in Nat
<1> DEFINE s == SuperOf(n)
<1>1. files \in FileSets /\ Built(complete) /\ Null \notin Names /\ HeaderSize \in Nat
  BY DoneIsBuilt, SupersAreNames, ClassFileAssumption DEF RecordInv
<1>2. CASE s = Null
  BY <1>1, <1>2 DEF InheritedSize, Inherits
<1>3. CASE s # Null
  <2>1. s \in Parents(n) /\ s \in complete /\ s \in Names
    BY <1>1, <1>3, SupersAreNames DEF Built
  <2>2. s \in Reaches(n) /\ Reaches(s) \subseteq Reaches(n) /\ n \notin Reaches(n)
    <3>1. Parents(n) \subseteq Reaches(n) /\ \A m \in Reaches(n) : Parents(m) \subseteq Reaches(n)
      BY <1>1, ReachesUp
    <3>2. Reaches(n) \in SUBSET Names /\ Parents(s) \subseteq Reaches(n)
      BY <1>1, <2>1, <3>1, ReachesUp
    <3> QED
      BY <1>1, <2>1, <3>1, <3>2, ReachesUp, NotItsAncestor
  <2>3. class[s].status # "LOADING"
    <3> SUFFICES ASSUME class[s].status = "LOADING" PROVE FALSE
      OBVIOUS
    <3>1. s \in InProgress(calls)
      BY <2>1 DEF LoaderInv, Loading
    <3>2. PICK i \in 1 .. Len(calls) : calls[i].name = s
      BY <3>1, InProgressIs
    <3> QED
      BY <2>2, <3>2
  <2>4. class[s].status \in {"LOADED", "INITIALIZED"}
    BY <2>1, <2>3 DEF LoaderInv, Typed, Finished, Status
  <2>5. RecordRight(s, size) /\ SizeRight(s, size)
    BY <2>1 DEF RecordsRight, SizesRight
  <2>6. class[s].objectSize = size[s]
    BY <2>4, <2>5 DEF RecordRight, SizeRight, Loaded
  <2> QED
    BY <1>3, <2>1, <2>6 DEF InheritedSize, Inherits
<1> QED
  BY <1>2, <1>3

\* A class is finished by the step.
LEMMA SizedFinish ==
    ASSUME LoaderInv, RecordInv, NEW n \in Names, Parents(n) \subseteq complete, files' = files,
           complete' = complete \cup {n}, \A m \in Names \ {n} : class'[m] = class[m],
           \/ /\ n \notin HaveFiles
              /\ class'[n].status = "INITIALIZED" /\ class'[n].objectSize = SizeWithout(n)
           \/ /\ Readable(n)
              /\ \A i \in 1 .. Len(calls) : calls[i].name = n \/ n \in Reaches(calls[i].name)
              /\ class'[n].status = "LOADED" /\ class[n].super = SuperOf(n) /\ class'[n].super = SuperOf(n)
              /\ class'[n].pool = files[n].constants /\ class'[n].methods = Methods(files[n])
              /\ \E p \in Sortings(files[n]) :
                     /\ class'[n].fields = LayOut(files[n], p, InheritedSize(n))
                     /\ class'[n].objectSize = ObjectSize(files[n], p, InheritedSize(n))
                     /\ class'[n].staticDataSize = StaticDataSize(files[n], p)
    PROVE  Sized' /\ ReadableDone'
<1>1. /\ Built(complete) /\ files \in FileSets /\ Sized /\ ReadableDone
      /\ n \in HaveFiles => Readable(n)
  BY DoneIsBuilt DEF RecordInv
<1>2. PICK size \in [Names -> Nat] : SizesRight(size, complete) /\ RecordsRight(size)
  BY <1>1 DEF Sized
<1>3. PICK grown \in [Names -> Nat] : /\ \A m \in complete : grown[m] = size[m]
                                      /\ SizesRight(grown, complete \cup {n})
  BY <1>1, <1>2, SizesGrow
<1>4. \A m \in complete \cup {n} : SuperOf(m) # Null => SuperOf(m) \in complete
  BY <1>1, SupersAreNames DEF Built
<1>5. \A m \in complete \cup {n} : Inherits(m, grown) = Inherits(m, size)
  BY <1>3, <1>4 DEF Inherits
<1>6. ASSUME NEW m \in Names \ {n} PROVE RecordRight(m, grown)'
  <2>1. RecordRight(m, size) /\ class'[m] = class[m] /\ complete \subseteq complete'
    BY <1>2, <1>6 DEF RecordsRight
  <2>2. class[m].status = "LOADED" => m \in complete
    BY <2>1 DEF RecordRight, Loaded
  <2> QED
    BY <1>3, <1>5, <2>1, <2>2, RecordStays
<1>7. RecordRight(n, grown)'
  <2>1. CASE n \notin HaveFiles /\ class'[n].status = "INITIALIZED" /\ class'[n].objectSize = SizeWithout(n)
    BY <2>1 DEF RecordRight, SizeWithout
  <2>2. CASE /\ Readable(n)
             /\ \A i \in 1 .. Len(calls) : calls[i].name = n \/ n \in Reaches(calls[i].name)
             /\ class'[n].status = "LOADED" /\ class[n].super = SuperOf(n) /\ class'[n].super = SuperOf(n)
             /\ class'[n].pool = files[n].constants /\ class'[n].methods = Methods(files[n])
             /\ \E p \in Sortings(files[n]) :
                    /\ class'[n].fields = LayOut(files[n], p, InheritedSize(n))
                    /\ class'[n].objectSize = ObjectSize(files[n], p, InheritedSize(n))
                    /\ class'[n].staticDataSize = StaticDataSize(files[n], p)
    <3>1. InheritedSize(n) = Inherits(n, grown) /\ Inherits(n, grown) \in Nat
      BY <1>2, <1>5, <2>2, AboveIsDone
    <3>2. PICK p \in Sortings(files[n]) :
                    /\ class'[n].fields = LayOut(files[n], p, Inherits(n, grown))
                    /\ class'[n].objectSize = ObjectSize(files[n], p, Inherits(n, grown))
                    /\ class'[n].staticDataSize = StaticDataSize(files[n], p)
      BY <2>2, <3>1
    <3>3. class'[n].objectSize = grown[n]
      <4>1. FieldsTyped(files[n])
        BY <1>1, <2>2, OwnAreFinite
      <4>2. Extent(files[n], p, Len(files[n].fields), FALSE) = Total(n)
        BY <4>1, WholeExtent DEF Total, OwnFields, WideFields
      <4>3. SizeRight(n, grown) /\ n \in HaveFiles
        BY <1>3, <2>2 DEF SizesRight, Readable
      <4> QED
        BY <3>2, <4>2, <4>3 DEF SizeRight, ObjectSize
    <3>4. Readable(n)' = Readable(n) /\ SuperOf(n)' = SuperOf(n) /\ Inherits(n, grown)' = Inherits(n, grown)
      BY SizesStay
    <3>5. LaidOut(n, p, Inherits(n, grown))' /\ p \in Sortings(files[n])'
      BY <3>2, <3>4 DEF LaidOut
    <3>6. Loaded(n, grown)'
      BY <2>2, <3>3, <3>4, <3>5 DEF Loaded
    <3> QED
      BY <2>2, <3>6 DEF RecordRight
  <2> QED
    BY <2>1, <2>2
<1>8. SizesRight(grown, complete)'
  BY <1>3, SizesStay
<1>9. Sized'
  BY <1>6, <1>7, <1>8 DEF Sized, RecordsRight
<1>10. ReadableDone'
  <2>1. \A m : Readable(m)' = Readable(m)
    BY SizesStay
  <2> QED
    BY <1>1, <2>1 DEF ReadableDone
<1> QED
  BY <1>9, <1>10

-----------------------------------------------------------------------------
(* The steps.                                                              *)

LEMMA LastIsHere ==
    ASSUME LoaderInv, calls # <<>>
    PROVE  /\ calls \in Seq(Frame) /\ Len(calls) \in 1 .. Len(calls) /\ Here = calls[Len(calls)]
           /\ Here \in Frame /\ Here.name \in Names /\ ClassesTyped
           /\ \A i \in 1 .. Len(calls) : calls[i].name = Here.name \/ Here.name \in Reaches(calls[i].name)
<1>1. calls \in Seq(Frame) /\ ClassesTyped
  BY DEF LoaderInv, Typed, ClassesTyped
<1>2. Len(calls) \in Nat \ {0} /\ Here = calls[Len(calls)]
  BY <1>1, FrontAndLast DEF Here
<1>3. \A i \in 1 .. Len(calls) : i = Len(calls) \/ i \in 1 .. Len(calls) - 1
  BY <1>2
<1>4. \A i \in 1 .. Len(calls) - 1 : Here.name \in Reaches(calls[i].name)
  BY InCall
<1> QED
  BY <1>1, <1>2, <1>3, <1>4, InCall

LEMMA UnchangedRecords ==
    ASSUME RecordInv, UNCHANGED <<files, class, complete>>
    PROVE  Sized' /\ ReadableDone'
<1>1. Object \in Names
  BY ClassLoaderAssumption DEF HaveFiles
<1>2. Sized'
  BY <1>1, SizedMaking DEF RecordInv
<1>3. ReadableDone'
  <2>1. \A m : Readable(m)' = Readable(m)
    BY SizesStay
  <2> QED
    BY <2>1 DEF ReadableDone, RecordInv
<1> QED
  BY <1>2, <1>3

LEMMA OthersKeepRecords ==
    ASSUME LoaderInv, RecordInv,
           LookupCrashes \/ Lookup \/ LoadArray \/ NoFile \/ RefuseFile \/ CallSuper \/ CallInterface \/ Fail
    PROVE  RecordInv'
<1>1. UNCHANGED <<files, class, complete>>
  BY DEF LookupCrashes, Lookup, LoadArray, NoFile, RefuseFile, CallSuper, CallInterface, Fail,
         OnlyCalls, loadVars, callVars
<1>2. SupersKnown'
  BY OthersKnown DEF RecordInv
<1> QED
  BY <1>1, <1>2, UnchangedRecords DEF RecordInv

\* Primitive and array classes.
LEMMA WithoutFileKeeps ==
    ASSUME LoaderInv, RecordInv, calls # <<>>, files' = files, Return(Here.name),
           Here.name \notin HaveFiles, Parents(Here.name) \subseteq complete,
           NEW super, NEW size, size = SizeWithout(Here.name),
           class' = [class EXCEPT ![Here.name] = WithoutFile(super, size)],
           complete' = complete \cup {Here.name}
    PROVE  RecordInv'
<1> DEFINE n == Here.name
           w == WithoutFile(super, size)
<1>1. w.status = "INITIALIZED" /\ w.objectSize = size
  BY DEF WithoutFile, NoClass
<1>2. class' = [class EXCEPT ![n] = w]
  OBVIOUS
<1> HIDE DEF w
<1>3. class'[n] = w /\ \A m \in Names \ {n} : class'[m] = class[m]
  BY <1>2, LastIsHere DEF ClassesTyped
<1>4. n \in Names
  BY LastIsHere
<1>5. Sized' /\ ReadableDone'
  BY <1>1, <1>3, <1>4, SizedFinish
<1>6. SupersKnown'
  BY <1>3, ReturnKnown DEF Return, RecordInv
<1> QED
  BY <1>5, <1>6 DEF RecordInv

LEMMA ReturnKeepsRecords ==
    ASSUME LoaderInv, RecordInv, calls # <<>>, UNCHANGED <<files, class, complete>>, Return(Null)
    PROVE  RecordInv'
<1>1. SupersKnown'
  BY ReturnKnown DEF RecordInv, Return
<1> QED
  BY <1>1, UnchangedRecords DEF RecordInv

LEMMA LoadPrimitiveRecords ==
    ASSUME LoaderInv, RecordInv, LoadPrimitive
    PROVE  RecordInv'
<1>1. calls # <<>> /\ Here.name \in Primitives /\ files' = files
  BY DEF LoadPrimitive, At, callVars
<1>2. /\ Here.name \notin HaveFiles /\ Parents(Here.name) \subseteq complete
      /\ SizeWithout(Here.name) = 0
  BY <1>1, ClassLoaderAssumption DEF Parents, HaveFiles, SizeWithout
<1>3. CASE /\ Return(Here.name)
           /\ class' = [class EXCEPT ![Here.name] = WithoutFile(Null, 0)]
           /\ complete' = complete \cup {Here.name}
  BY <1>1, <1>2, <1>3, WithoutFileKeeps
<1>4. CASE Return(Null) /\ UNCHANGED <<class, complete>>
  BY <1>1, <1>4, ReturnKeepsRecords
<1> QED
  BY <1>3, <1>4 DEF LoadPrimitive

LEMMA ArrayClassRecords ==
    ASSUME LoaderInv, RecordInv, ArrayClass
    PROVE  RecordInv'
<1>1. At("array") /\ result # NoAnswer /\ files' = files
  BY DEF ArrayClass, callVars
<1>2. /\ calls # <<>> /\ Here.name \in Arrays /\ Here.name \notin HaveFiles /\ Parents(Here.name) = {Object}
      /\ result \notin {Null, NoAnswer} => Object \in complete
  BY <1>1, ObjectReturned
<1>3. SizeWithout(Here.name) = HeaderSize
  BY <1>2 DEF SizeWithout
<1>4. CASE /\ result # Null /\ Return(Here.name)
           /\ class' = [class EXCEPT ![Here.name] = WithoutFile(Object, HeaderSize)]
           /\ complete' = complete \cup {Here.name}
  <2>1. Parents(Here.name) \subseteq complete
    BY <1>1, <1>2, <1>4
  <2> QED
    BY <1>1, <1>2, <1>3, <1>4, <2>1, WithoutFileKeeps
<1>5. CASE Return(Null) /\ UNCHANGED <<class, complete>>
  BY <1>1, <1>2, <1>5, ReturnKeepsRecords
<1> QED
  BY <1>4, <1>5 DEF ArrayClass

LEMMA BeginClassRecords ==
    ASSUME LoaderInv, RecordInv, BeginClass
    PROVE  RecordInv'
<1> DEFINE n == Here.name
           r == [NoClass EXCEPT !.status = "LOADING", !.pool = files[n].constants]
           c == [Here EXCEPT !.at = "super", !.next = 1]
<1>1. /\ calls # <<>> /\ class' = [class EXCEPT ![n] = r] /\ UNCHANGED <<complete, files>>
      /\ calls' = Front(calls) \o <<c>>
  BY DEF BeginClass, AtFile, At, callVars, Goto
<1>2. r.status = "LOADING" /\ r.pool = files[n].constants /\ r.super = Null
  BY DEF NoClass
<1>3. c \in Frame /\ c.name = n /\ c.at = "super"
  BY <1>1, LastIsHere DEF Frame, Points
<1> HIDE DEF r, c
<1>4. class'[n] = r /\ \A m \in Names \ {n} : class'[m] = class[m]
  BY <1>1, LastIsHere DEF ClassesTyped
<1>5. Sized'
  BY <1>1, <1>2, <1>4, LastIsHere, SizedMaking DEF RecordInv
<1>6. KnownAs(c, class')
  BY <1>2, <1>3, <1>4 DEF KnownAs
<1>7. SupersKnown'
  BY <1>1, <1>3, <1>4, <1>6, GoKnown DEF RecordInv
<1>8. ReadableDone'
  <2>1. \A m : Readable(m)' = Readable(m)
    BY <1>1, SizesStay
  <2> QED
    BY <1>1, <2>1 DEF ReadableDone, RecordInv
<1> QED
  BY <1>5, <1>7, <1>8 DEF RecordInv

\* A class in the making gets its superclass, or an interface.
LEMMA ExtendedRecords ==
    ASSUME LoaderInv, RecordInv, calls # <<>>, Here.at \in {"super", "interfaces"}, UNCHANGED <<files, complete>>,
           NEW r, class' = [class EXCEPT ![Here.name] = r],
           r.status = class[Here.name].status, r.pool = class[Here.name].pool,
           r.super = SuperOf(Here.name) \/ (r.super = class[Here.name].super /\ Here.at = "interfaces"),
           NEW next \in Nat, Goto("interfaces", next)
    PROVE  RecordInv'
<1> DEFINE n == Here.name
           c == [Here EXCEPT !.at = "interfaces", !.next = next]
<1>1. calls' = Front(calls) \o <<c>>
  BY DEF Goto
<1>2. c \in Frame /\ c.name = n /\ c.at = "interfaces"
  BY LastIsHere DEF Frame, Points
<1> HIDE DEF c
<1>3. class'[n] = r /\ n \in Names /\ \A m \in Names \ {n} : class'[m] = class[m]
  BY LastIsHere DEF ClassesTyped
<1>4. class[n].status = "LOADING" /\ class[n].pool = files[n].constants
  <2>1. class[n].status = "LOADING"
    BY MakingIsLoading DEF Working
  <2>2. PICK size \in [Names -> Nat] : RecordsRight(size)
    BY DEF RecordInv, Sized
  <2> QED
    BY <1>3, <2>1, <2>2 DEF RecordsRight, RecordRight
<1>5. Sized'
  BY <1>3, <1>4, SizedMaking DEF RecordInv
<1>6. KnownAs(Here, class)
  BY LastIsHere DEF SupersKnown, RecordInv
<1>7. KnownAs(c, class')
  BY <1>2, <1>3, <1>6 DEF KnownAs, Working
<1>8. SupersKnown'
  BY <1>1, <1>2, <1>3, <1>7, GoKnown DEF RecordInv
<1>9. ReadableDone'
  <2>1. \A m : Readable(m)' = Readable(m)
    BY SizesStay
  <2> QED
    BY <2>1 DEF ReadableDone, RecordInv
<1> QED
  BY <1>5, <1>8, <1>9 DEF RecordInv

LEMMA SuperLoadedRecords ==
    ASSUME LoaderInv, RecordInv, SuperLoaded
    PROVE  RecordInv'
<1> DEFINE n == Here.name
           r == [class[n] EXCEPT !.super = result]
<1>1. /\ calls # <<>> /\ Here.at = "super" /\ result \notin {NoAnswer, Null}
      /\ class' = [class EXCEPT ![n].super = result]
      /\ Goto("interfaces", 1) /\ UNCHANGED <<complete, files>>
  BY DEF SuperLoaded, At, callVars
<1>2. DOMAIN class[n] = DOMAIN NoClass /\ class' = [class EXCEPT ![n] = r]
  BY <1>1, LastIsHere DEF ClassesTyped
<1>3. r.status = class[n].status /\ r.pool = class[n].pool /\ r.super = result
  BY <1>2 DEF NoClass
<1>4. result = NameAt(files[n], files[n].super) /\ Readable(n)
  BY <1>1, InCall, InTheMaking DEF Wants, Working
<1>5. result = SuperOf(n)
  <2>1. result # Null /\ Waiting(Here)
    BY <1>1, InCall
  <2>2. files[n].super # 0
    BY <1>1, <2>1 DEF Waiting
  <2> QED
    BY <1>4, <2>2 DEF SuperOf
<1> HIDE DEF r
<1> QED
  BY <1>1, <1>2, <1>3, <1>5, ExtendedRecords
LEMMA InterfaceLoadedRecords ==
    ASSUME LoaderInv, RecordInv, InterfaceLoaded
    PROVE  RecordInv'
<1> DEFINE n == Here.name
           r == [class[n] EXCEPT !.interfaces = Append(class[n].interfaces, result)]
<1>1. /\ calls # <<>> /\ Here.at = "interfaces"
      /\ class' = [class EXCEPT ![n].interfaces = Append(@, result)]
      /\ Goto("interfaces", Here.next + 1) /\ UNCHANGED <<complete, files>>
  BY DEF InterfaceLoaded, At, callVars
<1>2. DOMAIN class[n] = DOMAIN NoClass /\ class' = [class EXCEPT ![n] = r]
  BY <1>1, LastIsHere DEF ClassesTyped
<1>3. r.status = class[n].status /\ r.pool = class[n].pool /\ r.super = class[n].super
  BY <1>2 DEF NoClass
<1>4. Here.next + 1 \in Nat
  BY <1>1, LastIsHere DEF Frame
<1> HIDE DEF r
<1> QED
  BY <1>1, <1>2, <1>3, <1>4, ExtendedRecords

LEMMA ParseMembersRecords ==
    ASSUME LoaderInv, RecordInv, ParseMembers
    PROVE  RecordInv'
<1> DEFINE n == Here.name
           f == files[n]
           inherited == InheritedSize(n)
<1>1. /\ calls # <<>> /\ Here.at = "members" /\ calls' = Front(calls)
      /\ complete' = complete \cup {n} /\ files' = files
  BY DEF ParseMembers, At, Return, callVars
<1>2. PICK p \in Sortings(f) :
          class' = [class EXCEPT ![n].status = "LOADED",
                                 ![n].fields = LayOut(f, p, inherited),
                                 ![n].objectSize = ObjectSize(f, p, inherited),
                                 ![n].staticDataSize = StaticDataSize(f, p),
                                 ![n].methods = Methods(f)]
  BY DEF ParseMembers
<1> DEFINE r == [class[n] EXCEPT !.status = "LOADED",
                                 !.fields = LayOut(f, p, inherited),
                                 !.objectSize = ObjectSize(f, p, inherited),
                                 !.staticDataSize = StaticDataSize(f, p),
                                 !.methods = Methods(f)]
<1>3. n \in Names /\ DOMAIN class[n] = DOMAIN NoClass /\ class' = [class EXCEPT ![n] = r]
  BY <1>1, <1>2, LastIsHere DEF ClassesTyped
<1>4. /\ r.status = "LOADED" /\ r.super = class[n].super /\ r.pool = class[n].pool
      /\ r.fields = LayOut(f, p, inherited) /\ r.objectSize = ObjectSize(f, p, inherited)
      /\ r.staticDataSize = StaticDataSize(f, p) /\ r.methods = Methods(f)
  BY <1>3 DEF NoClass
<1> HIDE DEF r
<1>5. class'[n] = r /\ \A m \in Names \ {n} : class'[m] = class[m]
  BY <1>3, LastIsHere, <1>1 DEF ClassesTyped
<1>6. Readable(n) /\ Parents(n) \subseteq complete /\ n \notin Reaches(n)
  BY <1>1, <1>3, InCall, NotItsAncestor DEF FrameOK, Working
<1>7. class[n].super = SuperOf(n)
  <2>1. KnownAs(Here, class)
    BY <1>1, LastIsHere DEF SupersKnown, RecordInv
  <2> QED
    BY <1>1, <1>6, <2>1 DEF KnownAs, Working
<1>8. class[n].pool = f.constants
  <2>1. class[n].status = "LOADING"
    BY <1>1, MakingIsLoading DEF Working
  <2>2. PICK size \in [Names -> Nat] : RecordsRight(size)
    BY DEF RecordInv, Sized
  <2> QED
    BY <1>3, <2>1, <2>2 DEF RecordsRight, RecordRight
<1>9. \A i \in 1 .. Len(calls) : calls[i].name = n \/ n \in Reaches(calls[i].name)
  BY <1>1, LastIsHere
<1>10. Sized' /\ ReadableDone'
  BY <1>1, <1>3, <1>4, <1>5, <1>6, <1>7, <1>8, <1>9, SizedFinish
<1>11. SupersKnown'
  BY <1>1, <1>5, ReturnKnown DEF RecordInv
<1> QED
  BY <1>10, <1>11 DEF RecordInv

LEMMA OuterRecords ==
    ASSUME LoaderInv, RecordInv, NEW t \in Threads, Lock(t) \/ Unlock(t) \/ \E n \in Needs[t] : Ask(t, n)
    PROVE  RecordInv'
<1>1. UNCHANGED <<files, class, complete>>
  BY DEF Lock, Unlock, Ask, loadVars
<1>2. CASE Unlock(t) \/ \E n \in Needs[t] : Ask(t, n)
  <2>1. calls' = calls
    BY <1>2 DEF Unlock, Ask, loadVars
  <2> QED
    BY <1>1, <2>1, CrashKnown, UnchangedRecords DEF RecordInv
<1>3. CASE Lock(t)
  <2>1. calls' = <<NewCall(asked[t])>>
    BY <1>3 DEF Lock
  <2>2. NewCall(asked[t]).at \notin Working
    BY DEF NewCall, Working
  <2>3. \A i \in 1 .. Len(calls') : KnownAs(calls'[i], class')
    BY <2>1, <2>2 DEF KnownAs
  <2> QED
    BY <1>1, <2>3, SupersStay, UnchangedRecords DEF RecordInv
<1> QED
  BY <1>2, <1>3

LEMMA RecordsInit == Init => RecordInv
<1> SUFFICES ASSUME Init PROVE RecordInv
  OBVIOUS
<1>1. complete = {} /\ calls = <<>> /\ \A n \in Names : class[n].status = "none"
  BY DEF Init, NoClass
<1> DEFINE size == [n \in Names |-> 0]
<1>2. size \in [Names -> Nat] /\ SizesRight(size, complete) /\ RecordsRight(size)
  BY <1>1 DEF SizesRight, RecordsRight, RecordRight
<1> HIDE DEF size
<1>3. Sized
  BY <1>2 DEF Sized
<1>4. SupersKnown
  BY <1>1 DEF SupersKnown
<1> QED
  BY <1>1, <1>3, <1>4 DEF RecordInv, ReadableDone

LEMMA RecordsKeep == LoaderInv /\ RecordInv /\ [Next]_vars => RecordInv'
<1> SUFFICES ASSUME LoaderInv, RecordInv, [Next]_vars PROVE RecordInv'
  OBVIOUS
<1>1. CASE LoadClass0
  BY <1>1, OthersKeepRecords, LoadPrimitiveRecords, ArrayClassRecords, BeginClassRecords, SuperLoadedRecords,
     InterfaceLoadedRecords, ParseMembersRecords DEF LoadClass0
<1>2. CASE \E t \in Threads : Lock(t) \/ Unlock(t) \/ \E n \in Needs[t] : Ask(t, n)
  BY <1>2, OuterRecords
<1>3. CASE UNCHANGED vars
  BY <1>3, CrashKnown, UnchangedRecords DEF vars, loadVars, callVars, RecordInv
<1> QED
  BY <1>1, <1>2, <1>3 DEF Next

-----------------------------------------------------------------------------
(* A class that is loaded was parsed right.                                *)

LEMMA IndexesRight ==
    ASSUME files \in FileSets, NEW n \in Names, Readable(n), class[n].pool = files[n].constants
    PROVE  IndexesKept(n)
<1>1. /\ ReadPool(files[n]) = "read"
      /\ Len(files[n].constants) \in Nat /\ DOMAIN files[n].constants = 1 .. Len(files[n].constants)
  BY FilesAssumption DEF Readable
<1>2. \A j \in DOMAIN files[n].constants : IndexOf(files[n], j) = j
  BY <1>1, IndexesAgree
<1> QED
  BY <1>2 DEF IndexesKept

LEMMA MethodsRight ==
    ASSUME files \in FileSets, NEW n \in Names, Readable(n), class[n].methods = Methods(files[n])
    PROVE  ParametersPlaced(n)
<1> SUFFICES ASSUME NEW k \in DOMAIN files[n].methods
             PROVE  LET m == files[n].methods[k]
                        d == Chars(files[n], m.ref)
                        first == IF m.static THEN 0 ELSE 1
                        wide == {i \in Counted(d) : WideAt(d, i)}
                        taken == first + Cardinality(Counted(d)) + Cardinality(wide)
                    IN  /\ (/\ taken < ParameterModulus
                            /\ \A i \in Counted(d) : d[i] \in {"J", "D"} => WideAt(d, i)) =>
                               class[n].methods[k].numParameters = taken
                        /\ ~m.static => ArgumentType(d, 0, FALSE) = "L"
                        /\ \A i \in Counted(d) :
                               (\A w \in wide : w >= i) =>
                                   ArgumentType(d, first + Cardinality({j \in Counted(d) : j < i}), m.static)
                                       = TypeOf(IF i > 1 /\ d[i - 1] = "[" THEN "[" ELSE d[i])
  BY DEF ParametersPlaced
<1> DEFINE m == files[n].methods[k]
           d == Chars(files[n], m.ref)
           wide == {i \in Counted(d) : WideAt(d, i)}
           taken == (IF m.static THEN 0 ELSE 1) + Cardinality(Counted(d)) + Cardinality(wide)
<1>1. m.static \in BOOLEAN /\ d \in Seq(STRING)
  BY FilesAssumption DEF Readable
<1>2. class[n].methods[k].numParameters = NumParameters(d, m.static) % ParameterModulus
  BY DEF Methods
<1> HIDE DEF d
<1>3. ASSUME taken < ParameterModulus, \A i \in Counted(d) : d[i] \in {"J", "D"} => WideAt(d, i)
      PROVE  class[n].methods[k].numParameters = taken
  <2>1. {i \in Counted(d) : d[i] \in {"J", "D"}} = wide
    BY <1>3 DEF WideAt
  <2>2. NumParameters(d, m.static) = taken
    BY <2>1 DEF NumParameters
  <2>3. taken \in Nat
    <3>1. Counted(d) \in SUBSET (1 .. Len(d)) /\ wide \in SUBSET (1 .. Len(d)) /\ IsFiniteSet(1 .. Len(d))
      BY <1>1, FS_Interval DEF Counted
    <3>2. IsFiniteSet(Counted(d)) /\ IsFiniteSet(wide)
      BY <3>1, FS_Subset
    <3>3. Cardinality(Counted(d)) \in Nat /\ Cardinality(wide) \in Nat
      BY <3>2, FS_CardinalityType
    <3> HIDE DEF wide
    <3> QED
      BY <3>3
  <2> HIDE DEF taken
  <2> QED
    BY <1>2, <1>3, <2>2, <2>3, ClassFileAssumption
<1>4. ArgumentType(d, 0, FALSE) = "L"
  BY DEF ArgumentType
<1>5. \A i \in Counted(d) :
          ArgumentType(d, (IF m.static THEN 0 ELSE 1) + Cardinality({j \in Counted(d) : j < i}), m.static)
              = TypeOf(IF i > 1 /\ d[i - 1] = "[" THEN "[" ELSE d[i])
  BY <1>1, ParametersRight
<1> QED
  BY <1>3, <1>4, <1>5 DEF d

\* The fields of a record are the places of the file's fields.
LEMMA PlaceIs ==
    ASSUME NEW n, NEW p, NEW base, LaidOut(n, p, base), NEW k \in DOMAIN p
    PROVE  /\ k \in DOMAIN class[n].fields
           /\ class[n].fields[k].static = files[n].fields[p[k]].static
           /\ Place(<<n, k>>) = LayOut(files[n], p, base)[k]
           /\ Place(<<n, k>>).size = FieldSize(files[n], p[k])
<1> DEFINE at == LayOut(files[n], p, base)
<1>1. class[n].fields = at
  BY DEF LaidOut
<1>2. DOMAIN at = DOMAIN p /\ at[k].static = files[n].fields[p[k]].static
      /\ at[k].size = FieldSize(files[n], p[k])
  BY DEF LayOut
<1> HIDE DEF at
<1>3. Place(<<n, k>>) = at[k]
  BY <1>1 DEF Place
<1> QED
  BY <1>1, <1>2, <1>3 DEF at

LEMMA FieldsAre ==
    ASSUME NEW n, FieldsTyped(files[n]), NEW p \in Sortings(files[n]), NEW base, LaidOut(n, p, base),
           NEW static
    PROVE  FieldsOf(n, static) = {<<n, k>> : k \in PlacesOf(files[n], p, static)}
<1> DEFINE at == LayOut(files[n], p, base)
<1>1. class[n].fields = at
  BY DEF LaidOut
<1>2. DOMAIN at = DOMAIN p /\ \A k \in DOMAIN p : at[k].static = files[n].fields[p[k]].static
  BY DEF LayOut
<1> HIDE DEF at
<1>3. {j \in DOMAIN class[n].fields : class[n].fields[j].static = static} = PlacesOf(files[n], p, static)
  BY <1>1, <1>2 DEF PlacesOf
<1> QED
  BY <1>3 DEF FieldsOf

LEMMA PlacesIn == \A f, p, static : PlacesOf(f, p, static) \subseteq DOMAIN p
BY DEF PlacesOf

\* Those of a class, from 0.
LEMMA StaticApart ==
    ASSUME NEW n, FieldsTyped(files[n]), NEW p \in Sortings(files[n]), NEW base \in Nat, LaidOut(n, p, base)
    PROVE  Apart(FieldsOf(n, TRUE), 0, class[n].staticDataSize)
<1> DEFINE f == files[n]
           ps == PlacesOf(f, p, TRUE)
           xs == FieldsOf(n, TRUE)
           ws == {x \in xs : Place(x).size = 8}
           N == Len(f.fields)
           all == Extent(f, p, N, TRUE)
<1>1. xs = {<<n, k>> : k \in ps} /\ \A k \in ps : /\ Place(<<n, k>>) = LayOut(f, p, base)[k]
                                                  /\ Place(<<n, k>>).size = FieldSize(f, p[k])
  <2>1. xs = {<<n, k>> : k \in ps}
    BY FieldsAre
  <2>2. ASSUME NEW k \in ps
        PROVE  Place(<<n, k>>) = LayOut(f, p, base)[k] /\ Place(<<n, k>>).size = FieldSize(f, p[k])
    <3>1. k \in DOMAIN p
      BY PlacesIn
    <3> QED
      BY <3>1, PlaceIs
  <2> QED
    BY <2>1, <2>2
<1>2. IsFiniteSet(ps) /\ IsFiniteSet(WidePlaces(f, p, ps))
  BY AsManyPlaces
<1>3. all \in Nat /\ all = Bytes(Cardinality(ps), Cardinality(WidePlaces(f, p, ps)))
  BY WholeExtent
<1>10. all \in Nat
  BY WholeExtent
<1>4. Cardinality(xs) = Cardinality(ps)
  <2> DEFINE g == [k \in ps |-> <<n, k>>]
  <2>1. g \in [ps -> xs] /\ (\A k, l \in ps : g[k] = g[l] => k = l) /\ \A x \in xs : \E k \in ps : g[k] = x
    BY <1>1
  <2> HIDE DEF g, ps, xs
  <2> QED
    BY <1>2, <2>1, SameSize
<1>5. Cardinality(ws) = Cardinality(WidePlaces(f, p, ps))
  <2> DEFINE qs == WidePlaces(f, p, ps)
             g == [k \in qs |-> <<n, k>>]
  <2>1. qs \subseteq ps /\ \A k \in ps : k \in qs <=> FieldSize(f, p[k]) = 8
    BY DEF WidePlaces
  <2>2. ws = {<<n, k>> : k \in qs}
    <3> HIDE DEF ps, xs, qs
    <3> QED
      BY <1>1, <2>1
  <2> HIDE DEF ps, xs, ws
  <2>3. g \in [qs -> ws] /\ (\A k, l \in qs : g[k] = g[l] => k = l) /\ \A x \in ws : \E k \in qs : g[k] = x
    BY <2>2
  <2> HIDE DEF g, qs
  <2>4. IsFiniteSet(qs)
    BY <1>2 DEF qs
  <2>5. Cardinality(ws) = Cardinality(qs)
    BY <2>3, <2>4, SameSize
  <2> QED
    BY <2>5 DEF qs
<1> SUFFICES ASSUME 0 + 4 * Cardinality(xs) + 4 * Cardinality(ws) < SizeModulus
             PROVE  /\ \A x \in xs : /\ 0 <= Place(x).offset
                                     /\ Place(x).offset + Place(x).size <= class[n].staticDataSize
                    /\ \A x, y \in xs : x = y \/ Place(x).offset + Place(x).size <= Place(y).offset
                                              \/ Place(y).offset + Place(y).size <= Place(x).offset
  BY DEF Apart
<1>6. all < SizeModulus /\ SizeModulus \in Nat
  <2> DEFINE c == Cardinality(ps)
             w == Cardinality(WidePlaces(f, p, ps))
  <2>1. c \in Nat /\ w \in Nat /\ all = 4 * c + 4 * w /\ 0 + 4 * c + 4 * w < SizeModulus
    BY <1>2, <1>3, <1>4, <1>5, FS_CardinalityType DEF Bytes
  <2> HIDE DEF c, w, all
  <2> QED
    BY <2>1, ClassFileAssumption
<1>7. class[n].staticDataSize = all
  <2>1. class[n].staticDataSize = all % SizeModulus
    BY DEF LaidOut, StaticDataSize
  <2> HIDE DEF all
  <2>2. all \in 0 .. SizeModulus - 1
    BY <1>10, <1>6
  <2> QED
    BY <1>6, <2>1, <2>2
<1>8. \A k \in ps : /\ Place(<<n, k>>).offset \in Nat /\ Place(<<n, k>>).size \in Nat
                    /\ Place(<<n, k>>).offset + Place(<<n, k>>).size <= all
                    /\ \A l \in ps : k < l =>
                           Place(<<n, k>>).offset + Place(<<n, k>>).size <= Place(<<n, l>>).offset
  <2>1. 0 + all = all
    <3> HIDE DEF all, N
    <3> QED
      BY <1>10
  <2>2. 0 + all < SizeModulus
    BY <1>6, <2>1
  <2> HIDE DEF all
  <2>3. \A k \in ps :
            LET at == LayOut(f, p, base)
            IN  /\ at[k].offset \in Nat /\ at[k].size \in Nat
                /\ at[k].offset + at[k].size <= all
                /\ \A l \in ps : k < l => at[k].offset + at[k].size <= at[l].offset
    BY <2>1, <2>2, PlacesApart DEF all
  <2> QED
    BY <1>1, <2>3
<1>9. \A k, l \in ps : k = l \/ k < l \/ l < k
  <2>1. DOMAIN p = 1 .. N /\ N \in Nat
    BY SortingMoves
  <2>2. \A k \in ps : k \in 1 .. N
    BY <2>1 DEF PlacesOf
  <2> HIDE DEF ps, N
  <2> QED
    BY <2>1, <2>2
<1> HIDE DEF ps, xs, all
<1> QED
  BY <1>1, <1>7, <1>8, <1>9

\* The fields of the object by the records, those of all the classes above.
Order(n, size) == [m \in Up(n) |-> CHOOSE p \in Sortings(files[m]) : LaidOut(m, p, Inherits(m, size))]
ObjectFields(n) == UNION {FieldsOf(m, FALSE) : m \in Up(n)}

\* When all the ancestors of a class are loaded they are its superclasses.
LEMMA AncestorsAreUp ==
    ASSUME LoaderInv, RecordInv, NEW size, RecordsRight(size), NEW n \in Names, n \in Begun,
           \A m \in Ancestry(n) : class[m].status = "LOADED"
    PROVE  Ancestry(n) = Up(n) /\ \A m \in Up(n) : Loaded(m, size)
<1> DEFINE above == [m \in Begun |-> {class[m].super} \ {Null}]
           A == Ancestry(n)
<1>1. files \in FileSets /\ Built(complete) /\ Null \notin Names /\ \A m \in complete : class[m].status # "none"
  BY DoneIsBuilt, SupersAreNames DEF RecordInv, LoaderInv, Finished
<1>2. A \subseteq Begun /\ Begun \subseteq Names
  BY DEF Ancestry, Closure, Begun
<1>3. \A m \in A : Loaded(m, size) /\ m \in Names /\ class[m].super = SuperOf(m) /\ m \in complete
  BY <1>2 DEF RecordsRight, RecordRight, Loaded
<1>4. n \in A
  BY DEF Ancestry, Closure
<1>5. ASSUME NEW k \in A, SuperOf(k) # Null PROVE SuperOf(k) \in A
  <2>1. SuperOf(k) \in Parents(k) /\ k \in complete /\ class[k].super = SuperOf(k) /\ k \in Begun
    BY <1>1, <1>2, <1>3, <1>5, SupersAreNames
  <2>2. SuperOf(k) \in Begun
    BY <1>1, <2>1 DEF Built, Begun
  <2>3. above[k] = {SuperOf(k)}
    BY <1>5, <2>1
  <2>4. \A S \in SUBSET Begun : ({n} \subseteq S /\ \A j \in S : above[j] \subseteq S) => k \in S
    BY DEF Ancestry, Closure
  <2>5. \A S \in SUBSET Begun : ({n} \subseteq S /\ \A j \in S : above[j] \subseteq S) => SuperOf(k) \in S
    BY <2>3, <2>4
  <2> QED
    BY <2>2, <2>5 DEF Ancestry, Closure
<1>6. Up(n) \subseteq A
  <2>1. A \in SUBSET Names
    BY <1>2
  <2> HIDE DEF A
  <2> QED
    BY <1>1, <1>4, <1>5, <2>1, UpIsLeast
<1>7. A \subseteq Up(n)
  <2> DEFINE S == Up(n)
  <2>1. n \in S /\ \A k \in S : SuperOf(k) # Null => SuperOf(k) \in S
    BY <1>1, UpIsLeast
  <2>2. S \in SUBSET Begun /\ \A k \in S : class[k].super = SuperOf(k)
    BY <1>2, <1>3, <1>6
  <2> HIDE DEF S
  <2>3. {n} \subseteq S /\ \A k \in S : above[k] \subseteq S
    BY <2>1, <2>2
  <2>4. A \subseteq S
    BY <2>2, <2>3 DEF Ancestry, Closure
  <2> QED
    BY <2>4 DEF S
<1> QED
  BY <1>3, <1>6, <1>7

LEMMA OrderIs ==
    ASSUME files \in FileSets, NEW size, NEW n \in Names, NEW m \in Up(n), Loaded(m, size)
    PROVE  LET p == Order(n, size)[m]
           IN  /\ Readable(m) /\ FieldsTyped(files[m]) /\ m \in Names
               /\ p \in Sortings(files[m]) /\ LaidOut(m, p, Inherits(m, size))
<1>1. \E p \in Sortings(files[m]) : LaidOut(m, p, Inherits(m, size))
  BY DEF Loaded
<1>2. Readable(m) /\ m \in Names
  BY DEF Loaded, Readable, HaveFiles
<1>3. FieldsTyped(files[m])
  BY <1>2, OwnAreFinite
<1> QED
  BY <1>1, <1>2, <1>3 DEF Order

\* There are as many of them as the files have, so they fit if those do.
LEMMA ObjectFieldsFit ==
    ASSUME files \in FileSets, NEW size, NEW n \in Names, \A m \in Up(n) : Loaded(m, size),
           HeaderSize + 4 * Cardinality(ObjectFields(n))
               + 4 * Cardinality({x \in ObjectFields(n) : Place(x).size = 8}) < SizeModulus
    PROVE  Fits(n) /\ Need(Up(n)) \in Nat
<1> DEFINE U == Up(n)
           P == Order(n, size)
           xs == ObjectFields(n)
           ws == {x \in xs : Place(x).size = 8}
           K == [m \in U |-> PlacesOf(files[m], P[m], FALSE)]
           ys == PairsIn(U, OwnFields)
           zs == PairsIn(U, WideFields)
<1>1. \A m \in U : /\ Readable(m) /\ FieldsTyped(files[m]) /\ m \in Names /\ m \in HaveFiles
                   /\ P[m] \in Sortings(files[m]) /\ LaidOut(m, P[m], Inherits(m, size))
  BY OrderIs DEF Readable
<1>2. IsFiniteSet(U)
  <2>1. U \in SUBSET Names
    BY UpIsLeast
  <2> QED
    BY <2>1, HashMapAssumption, FS_Subset DEF Names
<1> HIDE DEF U, P
<1>3. ASSUME NEW m \in U
      PROVE  /\ \A x : x \in FieldsOf(m, FALSE) <=> \E k \in K[m] : x = <<m, k>>
             /\ \A k \in K[m] : Place(<<m, k>>).size = FieldSize(files[m], P[m][k])
             /\ IsFiniteSet(K[m])
             /\ K[m] = {k \in DOMAIN P[m] : P[m][k] \in OwnFields[m]}
             /\ \A j \in OwnFields[m] : \E k \in DOMAIN P[m] : P[m][k] = j
             /\ WideFields[m] = {j \in OwnFields[m] : FieldSize(files[m], j) = 8}
  <2>1. /\ FieldsTyped(files[m]) /\ m \in Names
        /\ P[m] \in Sortings(files[m]) /\ LaidOut(m, P[m], Inherits(m, size))
    BY <1>1
  <2>2. K[m] = PlacesOf(files[m], P[m], FALSE) /\ OwnFields[m] = FieldsFrom(files[m], FALSE)
        /\ WideFields[m] = Wide(files[m], OwnFields[m])
    BY <2>1 DEF OwnFields, WideFields
  <2> HIDE DEF K
  <2>3. /\ P[m] \in [DOMAIN files[m].fields -> DOMAIN files[m].fields]
        /\ \A k \in DOMAIN files[m].fields : \E i \in DOMAIN P[m] : P[m][i] = k
    BY <2>1, SortingMoves
  <2>4. K[m] = {k \in DOMAIN P[m] : P[m][k] \in OwnFields[m]}
    BY <2>2, <2>3 DEF PlacesOf, FieldsFrom
  <2>5. \A j \in OwnFields[m] : \E k \in DOMAIN P[m] : P[m][k] = j
    BY <2>2, <2>3 DEF FieldsFrom
  <2>6. WideFields[m] = {j \in OwnFields[m] : FieldSize(files[m], j) = 8}
    BY <2>2 DEF Wide
  <2>7. IsFiniteSet(K[m])
    BY <2>1, <2>2, AsManyPlaces
  <2>8. LET ps == PlacesOf(files[m], P[m], FALSE)
        IN  /\ \A x : x \in FieldsOf(m, FALSE) <=> \E k \in ps : x = <<m, k>>
            /\ \A k \in ps : Place(<<m, k>>).size = FieldSize(files[m], P[m][k])
    <3> DEFINE ps == PlacesOf(files[m], P[m], FALSE)
    <3>1. LaidOut(m, P[m], Inherits(m, size))
      BY <2>1
    <3>2. \A x : x \in FieldsOf(m, FALSE) <=> \E k \in ps : x = <<m, k>>
      <4>1. FieldsOf(m, FALSE) = {<<m, k>> : k \in ps}
        BY <2>1, FieldsAre
      <4> HIDE DEF ps
      <4> QED
        BY <4>1
    <3>3. ASSUME NEW k \in ps PROVE Place(<<m, k>>).size = FieldSize(files[m], P[m][k])
      <4>1. k \in DOMAIN P[m]
        BY PlacesIn
      <4> QED
        BY <3>1, <4>1, PlaceIs
    <3> QED
      BY <3>2, <3>3
  <2> QED
    BY <2>2, <2>4, <2>5, <2>6, <2>7, <2>8
<1> HIDE DEF K
<1>4. xs = PairsIn(U, K)
  <2>1. \A x : x \in xs <=> \E m \in U : x \in FieldsOf(m, FALSE)
    BY DEF ObjectFields, U
  <2>2. \A x : x \in PairsIn(U, K) <=> \E m \in U : \E k \in K[m] : x = <<m, k>>
    BY PairIn
  <2>4. \A m \in U : \A x : x \in FieldsOf(m, FALSE) <=> \E k \in K[m] : x = <<m, k>>
    BY <1>3
  <2> HIDE DEF xs
  <2>3. \A x : x \in xs <=> x \in PairsIn(U, K)
    <3>1. ASSUME NEW x \in xs PROVE x \in PairsIn(U, K)
      <4>1. PICK m \in U : x \in FieldsOf(m, FALSE)
        BY <2>1
      <4>2. \E k \in K[m] : x = <<m, k>>
        BY <2>4, <4>1
      <4> QED
        BY <2>2, <4>2
    <3>2. ASSUME NEW x \in PairsIn(U, K) PROVE x \in xs
      <4>1. PICK m \in U : \E k \in K[m] : x = <<m, k>>
        BY <2>2
      <4>2. x \in FieldsOf(m, FALSE)
        BY <2>4, <4>1
      <4> QED
        BY <2>1, <4>2
    <3> QED
      BY <3>1, <3>2
  <2> QED
    BY <2>3
<1>5. IsFiniteSet(xs) /\ IsFiniteSet(ws)
  <2>1. \A m \in U : IsFiniteSet(K[m])
    BY <1>3
  <2>2. IsFiniteSet(xs)
    BY <1>2, <1>4, <2>1, PairsAreFinite
  <2> QED
    BY <2>2, FS_Subset
<1> HIDE DEF xs, ys, zs, ws
<1> DEFINE g == [x \in xs |-> <<x[1], P[x[1]][x[2]]>>]
<1>6. g \in [xs -> ys] /\ \A y \in ys : \E x \in xs : g[x] = y
  <2>1. ASSUME NEW x \in xs PROVE g[x] \in ys
    <3>1. PICK m \in U : \E k \in K[m] : x = <<m, k>>
      BY <1>4, PairIn
    <3>2. PICK k \in K[m] : x = <<m, k>>
      BY <3>1
    <3>3. g[x] = <<m, P[m][k]>> /\ P[m][k] \in OwnFields[m]
      BY <1>3, <3>2
    <3> QED
      BY <3>3, PairIn DEF ys
  <2>2. ASSUME NEW y \in ys PROVE \E x \in xs : g[x] = y
    <3>1. PICK m \in U : \E j \in OwnFields[m] : y = <<m, j>>
      BY PairIn DEF ys
    <3>2. PICK j \in OwnFields[m] : y = <<m, j>>
      BY <3>1
    <3>0. j \in OwnFields[m]
      BY <1>3, <3>2
    <3>3. PICK k \in K[m] : P[m][k] = j
      <4>1. PICK k \in DOMAIN P[m] : P[m][k] = j
        BY <1>3, <3>0
      <4>2. k \in K[m]
        BY <1>3, <3>0, <4>1
      <4> QED
        BY <4>1, <4>2
    <3>4. <<m, k>> \in xs
      BY <1>4, <3>3, PairIn
    <3>5. g[<<m, k>>] = y
      BY <3>2, <3>3, <3>4
    <3> QED
      BY <3>4, <3>5
  <2> QED
    BY <2>1, <2>2
<1> DEFINE h == [x \in ws |-> <<x[1], P[x[1]][x[2]]>>]
<1>7. h \in [ws -> zs] /\ \A y \in zs : \E x \in ws : h[x] = y
  <2>1. ASSUME NEW x \in ws PROVE h[x] \in zs
    <3>0. x \in xs /\ Place(x).size = 8
      BY DEF ws
    <3>1. PICK m \in U : \E k \in K[m] : x = <<m, k>>
      BY <1>4, <3>0, PairIn
    <3>2. PICK k \in K[m] : x = <<m, k>>
      BY <3>1
    <3>3. h[x] = <<m, P[m][k]>>
      BY <3>2
    <3>4. P[m][k] \in WideFields[m]
      <4>1. P[m][k] \in OwnFields[m] /\ FieldSize(files[m], P[m][k]) = 8
        BY <1>3, <3>0, <3>2
      <4>2. WideFields[m] = {j \in OwnFields[m] : FieldSize(files[m], j) = 8}
        BY <1>3
      <4> QED
        BY <4>1, <4>2
    <3> QED
      BY <3>3, <3>4, PairIn DEF zs
  <2>2. ASSUME NEW y \in zs PROVE \E x \in ws : h[x] = y
    <3>1. PICK m \in U : \E j \in WideFields[m] : y = <<m, j>>
      BY PairIn DEF zs
    <3>2. PICK j \in WideFields[m] : y = <<m, j>>
      BY <3>1
    <3>0. j \in OwnFields[m]
      BY <1>3, <3>2
    <3>3. PICK k \in K[m] : P[m][k] = j
      <4>1. PICK k \in DOMAIN P[m] : P[m][k] = j
        BY <1>3, <3>0
      <4>2. k \in K[m]
        BY <1>3, <3>0, <4>1
      <4> QED
        BY <4>1, <4>2
    <3>4. <<m, k>> \in xs
      BY <1>4, <3>3, PairIn
    <3>5. <<m, k>> \in ws
      <4>3. WideFields[m] = {l \in OwnFields[m] : FieldSize(files[m], l) = 8}
        BY <1>3
      <4>1. FieldSize(files[m], j) = 8
        BY <3>2, <4>3
      <4>2. Place(<<m, k>>).size = 8
        BY <1>3, <3>3, <4>1
      <4> QED
        BY <3>4, <4>2 DEF ws
    <3>6. h[<<m, k>>] = y
      BY <3>2, <3>3, <3>5
    <3> QED
      BY <3>5, <3>6
  <2> QED
    BY <2>1, <2>2
<1> HIDE DEF g, h
<1>8. /\ IsFiniteSet(ys) /\ IsFiniteSet(zs)
      /\ Cardinality(ys) <= Cardinality(xs) /\ Cardinality(zs) <= Cardinality(ws)
  <2>1. IsFiniteSet(ys) /\ Cardinality(ys) <= Cardinality(xs)
    BY <1>5, <1>6, NotMore
  <2>2. IsFiniteSet(zs) /\ Cardinality(zs) <= Cardinality(ws)
    BY <1>5, <1>7, NotMore
  <2> QED
    BY <2>1, <2>2
<1> DEFINE a == Cardinality(xs)
           b == Cardinality(ws)
           c == Cardinality(ys)
           d == Cardinality(zs)
<1>9. a \in Nat /\ b \in Nat /\ c \in Nat /\ d \in Nat /\ c <= a /\ d <= b
  BY <1>5, <1>8, FS_CardinalityType
<1>10. HeaderSize + 4 * a + 4 * b < SizeModulus
  BY DEF xs, ws
<1>11. Need(U) = 4 * c + 4 * d
  BY DEF Need, Bytes, ys, zs
<1> HIDE DEF a, b, c, d
<1>12. Need(U) \in Nat /\ HeaderSize + Need(U) < SizeModulus
  BY <1>9, <1>10, <1>11, ClassFileAssumption
<1> QED
  BY <1>1, <1>12 DEF Fits, U

\* The fields of a class begin where those above it end, and end where its objects do.
LEMMA OwnPlaces ==
    ASSUME files \in FileSets, NEW size \in [Names -> Nat], NEW n \in Names, NEW m \in Up(n), Loaded(m, size),
           Fits(n), Need(Up(n)) \in Nat, Stacked(n, size)
    PROVE  /\ size[m] \in Nat /\ size[n] \in Nat /\ Inherits(m, size) \in Nat
           /\ HeaderSize <= Inherits(m, size) /\ size[m] <= size[n]
           /\ \A x \in FieldsOf(m, FALSE) :
                  /\ x[1] = m /\ Place(x).offset \in Nat /\ Place(x).size \in Nat
                  /\ Inherits(m, size) <= Place(x).offset
                  /\ Place(x).offset + Place(x).size <= size[m]
                  /\ \A y \in FieldsOf(m, FALSE) :
                         x = y \/ Place(x).offset + Place(x).size <= Place(y).offset
                               \/ Place(y).offset + Place(y).size <= Place(x).offset
<1> DEFINE f == files[m]
           p == Order(n, size)[m]
           N == Len(f.fields)
           base == Inherits(m, size)
           all == Extent(f, p, N, FALSE)
           ps == PlacesOf(f, p, FALSE)
           at == LayOut(f, p, base)
<1>1. /\ Readable(m) /\ FieldsTyped(f) /\ m \in Names
      /\ p \in Sortings(f) /\ LaidOut(m, p, base)
  BY OrderIs
<1>2. base \in Nat /\ HeaderSize <= base /\ size[m] \in Nat /\ size[n] \in Nat /\ size[m] <= size[n]
      /\ size[m] = base + Total(m) /\ size[n] = HeaderSize + Need(Up(n))
  <2>1. SuperOf(m) # Null => SuperOf(m) \in Names
    BY <1>1, SupersAreNames
  <2>2. base \in Nat
    BY <2>1, ClassFileAssumption DEF Inherits
  <2> QED
    BY <1>1, <2>2 DEF Stacked
<1>3. all = Total(m) /\ all \in Nat
  <2>1. OwnFields[m] = FieldsFrom(f, FALSE) /\ WideFields[m] = Wide(f, OwnFields[m])
    BY <1>1 DEF OwnFields, WideFields
  <2> QED
    <3>1. all \in Nat /\ all = Bytes(Cardinality(FieldsFrom(f, FALSE)), Cardinality(Wide(f, FieldsFrom(f, FALSE))))
      BY <1>1, WholeExtent
    <3>2. Total(m) = Bytes(Cardinality(FieldsFrom(f, FALSE)), Cardinality(Wide(f, FieldsFrom(f, FALSE))))
      BY <2>1 DEF Total
    <3> HIDE DEF all, f
    <3> QED
      BY <3>1, <3>2
<1>4. (IF FALSE THEN 0 ELSE base) + all = size[m] /\ size[m] < SizeModulus
  <2>1. size[n] < SizeModulus
    BY <1>2 DEF Fits
  <2> HIDE DEF base, all
  <2> QED
    BY <1>2, <1>3, <2>1, ClassFileAssumption
<1> HIDE DEF base, all, N, p
<1>5. \A k \in ps : /\ at[k].offset \in Nat /\ at[k].size \in Nat
                    /\ base <= at[k].offset /\ at[k].offset + at[k].size <= size[m]
                    /\ \A l \in ps : k < l => at[k].offset + at[k].size <= at[l].offset
  <2>1. LET from == IF FALSE THEN 0 ELSE base
            end == from + Extent(f, p, Len(f.fields), FALSE)
        IN  end < SizeModulus =>
            \A k \in PlacesOf(f, p, FALSE) :
                /\ at[k].size = FieldSize(f, p[k]) /\ at[k].offset \in Nat /\ at[k].size \in Nat
                /\ from <= at[k].offset /\ at[k].offset + at[k].size <= end
                /\ \A l \in PlacesOf(f, p, FALSE) :
                       k < l => at[k].offset + at[k].size <= at[l].offset
    BY <1>1, <1>2, PlacesApart
  <2>2. (IF FALSE THEN 0 ELSE base) + Extent(f, p, Len(f.fields), FALSE) = size[m]
    BY <1>4 DEF all, N
  <2> HIDE DEF at, ps, f
  <2> QED
    BY <1>4, <2>1, <2>2 DEF ps
<1>6. /\ \A x : x \in FieldsOf(m, FALSE) <=> \E k \in ps : x = <<m, k>>
      /\ \A k \in ps : Place(<<m, k>>) = at[k]
  <2>1. LaidOut(m, p, base)
    BY <1>1
  <2>2. \A x : x \in FieldsOf(m, FALSE) <=> \E k \in ps : x = <<m, k>>
    <3>1. FieldsOf(m, FALSE) = {<<m, k>> : k \in ps}
      BY <1>1, FieldsAre
    <3> HIDE DEF ps
    <3> QED
      BY <3>1
  <2>3. ASSUME NEW k \in ps PROVE Place(<<m, k>>) = at[k]
    <3>1. k \in DOMAIN p
      BY PlacesIn
    <3> QED
      BY <2>1, <3>1, PlaceIs
  <2> QED
    BY <2>2, <2>3
<1>7. \A k, l \in ps : k = l \/ k < l \/ l < k
  <2>1. DOMAIN p = 1 .. N /\ N \in Nat
    BY <1>1, SortingMoves DEF N
  <2>2. \A k \in ps : k \in 1 .. N
    BY <2>1 DEF PlacesOf
  <2> HIDE DEF ps
  <2> QED
    BY <2>1, <2>2
<1> HIDE DEF ps, at
<1>8. \A x \in FieldsOf(m, FALSE) :
          /\ x[1] = m /\ Place(x).offset \in Nat /\ Place(x).size \in Nat
          /\ base <= Place(x).offset
          /\ Place(x).offset + Place(x).size <= size[m]
          /\ \A y \in FieldsOf(m, FALSE) :
                 x = y \/ Place(x).offset + Place(x).size <= Place(y).offset
                       \/ Place(y).offset + Place(y).size <= Place(x).offset
  <2>1. ASSUME NEW x \in FieldsOf(m, FALSE)
        PROVE  \E k \in ps : x = <<m, k>> /\ x[1] = m /\ Place(x) = at[k]
    <3>1. PICK k \in ps : x = <<m, k>>
      BY <1>6
    <3>2. x[1] = m
      BY <3>1
    <3>3. Place(x) = at[k]
      BY <1>6, <3>1
    <3> QED
      BY <3>1, <3>2, <3>3
  <2> TAKE x \in FieldsOf(m, FALSE)
  <2>2. PICK k \in ps : x = <<m, k>> /\ x[1] = m /\ Place(x) = at[k]
    BY <2>1
  <2>3. ASSUME NEW y \in FieldsOf(m, FALSE)
        PROVE  x = y \/ Place(x).offset + Place(x).size <= Place(y).offset
                     \/ Place(y).offset + Place(y).size <= Place(x).offset
    <3>1. PICK l \in ps : y = <<m, l>> /\ y[1] = m /\ Place(y) = at[l]
      BY <2>1
    <3> QED
      BY <1>5, <1>7, <2>2, <3>1
  <2>4. /\ Place(x).offset \in Nat /\ Place(x).size \in Nat
        /\ base <= Place(x).offset /\ Place(x).offset + Place(x).size <= size[m]
    BY <1>5, <2>2
  <2> QED
    BY <2>2, <2>3, <2>4
<1> QED
  BY <1>2, <1>8 DEF base

LEMMA ObjectsApart ==
    ASSUME files \in FileSets, NEW size \in [Names -> Nat], NEW n \in Names,
           \A m \in Up(n) : Loaded(m, size), SizeRight(n, size)
    PROVE  Apart(ObjectFields(n), HeaderSize, size[n])
<1> DEFINE xs == ObjectFields(n)
<1> SUFFICES ASSUME HeaderSize + 4 * Cardinality(xs)
                        + 4 * Cardinality({x \in xs : Place(x).size = 8}) < SizeModulus,
                    NEW x \in xs, NEW y \in xs
             PROVE  /\ HeaderSize <= Place(x).offset /\ Place(x).offset + Place(x).size <= size[n]
                    /\ x = y \/ Place(x).offset + Place(x).size <= Place(y).offset
                             \/ Place(y).offset + Place(y).size <= Place(x).offset
  BY DEF Apart
<1>1. Fits(n) /\ Need(Up(n)) \in Nat
  BY ObjectFieldsFit
<1>2. Stacked(n, size)
  BY <1>1 DEF SizeRight
<1>3. PICK l \in Up(n) : x \in FieldsOf(l, FALSE)
  BY DEF ObjectFields
<1>4. PICK m \in Up(n) : y \in FieldsOf(m, FALSE)
  BY DEF ObjectFields
<1>5. Loaded(l, size) /\ Loaded(m, size)
  OBVIOUS
<1>6. /\ size[l] \in Nat /\ size[n] \in Nat /\ Inherits(l, size) \in Nat
      /\ HeaderSize <= Inherits(l, size) /\ size[l] <= size[n]
      /\ Place(x).offset \in Nat /\ Place(x).size \in Nat
      /\ Inherits(l, size) <= Place(x).offset
      /\ Place(x).offset + Place(x).size <= size[l]
      /\ l = m => (x = y \/ Place(x).offset + Place(x).size <= Place(y).offset
                         \/ Place(y).offset + Place(y).size <= Place(x).offset)
  BY <1>1, <1>2, <1>3, <1>4, <1>5, OwnPlaces
<1>7. /\ size[m] \in Nat /\ Inherits(m, size) \in Nat
      /\ Place(y).offset \in Nat /\ Place(y).size \in Nat
      /\ Inherits(m, size) <= Place(y).offset
      /\ Place(y).offset + Place(y).size <= size[m]
  BY <1>1, <1>2, <1>4, <1>5, OwnPlaces
<1>8. l = m \/ size[l] <= Inherits(m, size) \/ size[m] <= Inherits(l, size)
  BY <1>2 DEF Stacked
<1>9. HeaderSize \in Nat
  BY ClassFileAssumption
<1> DEFINE a == Place(x).offset
           b == Place(x).size
           c == Place(y).offset
           d == Place(y).size
<1> HIDE DEF a, b, c, d, xs
<1> QED
  BY <1>6, <1>7, <1>8, <1>9 DEF a, b, c, d
-----------------------------------------------------------------------------
LEMMA LoadedIsRight ==
    ASSUME LoaderInv, RecordInv, NEW n \in HaveFiles, class[n].status = "LOADED"
    PROVE  FieldsApart(n) /\ IndexesKept(n) /\ ParametersPlaced(n)
<1>1. PICK size \in [Names -> Nat] : SizesRight(size, complete) /\ RecordsRight(size)
  BY DEF RecordInv, Sized
<1>2. files \in FileSets /\ n \in Names
  BY DoneIsBuilt DEF RecordInv, HaveFiles
<1>3. Loaded(n, size) /\ class[n].pool = files[n].constants
  BY <1>1, <1>2 DEF RecordsRight, RecordRight
<1>4. /\ n \in complete /\ Readable(n) /\ class[n].methods = Methods(files[n])
      /\ class[n].objectSize = size[n] /\ SizeRight(n, size)
  BY <1>1, <1>3 DEF Loaded, SizesRight
<1>5. IndexesKept(n) /\ ParametersPlaced(n)
  BY <1>2, <1>3, <1>4, IndexesRight, MethodsRight
<1>6. Apart(FieldsOf(n, TRUE), 0, class[n].staticDataSize)
  <2>1. PICK p \in Sortings(files[n]) : LaidOut(n, p, Inherits(n, size))
    BY <1>3 DEF Loaded
  <2>2. FieldsTyped(files[n]) /\ Inherits(n, size) \in Nat
    BY <1>2, <1>4, OwnAreFinite, SupersAreNames, ClassFileAssumption DEF Inherits
  <2> QED
    BY <2>1, <2>2, StaticApart
<1>7. ASSUME \A m \in Ancestry(n) : class[m].status = "LOADED"
      PROVE  Apart(UNION {FieldsOf(m, FALSE) : m \in Ancestry(n)}, HeaderSize, class[n].objectSize)
  <2>1. n \in Begun
    BY <1>2 DEF Begun
  <2>2. Ancestry(n) = Up(n) /\ \A m \in Up(n) : Loaded(m, size)
    BY <1>1, <1>2, <1>7, <2>1, AncestorsAreUp
  <2>3. Apart(ObjectFields(n), HeaderSize, size[n])
    BY <1>2, <1>4, <2>2, ObjectsApart
  <2> QED
    BY <1>4, <2>2, <2>3 DEF ObjectFields
<1> QED
  BY <1>5, <1>6, <1>7 DEF FieldsApart

(***************************************************************************)
(* What is made of a class file that is accepted is right, for any set of  *)
(* files, any number of threads and any order of loads and failures: the   *)
(* constants keep their indexes; the fields of an object and those of a    *)
(* class share no byte, unless they need more than their sizes can say, an *)
(* array class is among the ancestors or one is just being loaded again; a *)
(* method has the local variables its parameters take, arrays of long or   *)
(* double aside; and a parameter that no wide one comes before has its     *)
(* type (parseConstantPool, parseClassFile, dataTypes.c).                  *)
(***************************************************************************)
THEOREM ClassesAreParsedRight == Spec => []ParsedRight
<1>1. Init => RecordInv
  BY RecordsInit
<1>2. LoaderInv /\ RecordInv /\ [Next]_vars => RecordInv'
  BY RecordsKeep
<1>3. LoaderInv /\ RecordInv => ParsedRight
  BY LoadedIsRight DEF ParsedRight
<1> QED
  BY <1>1, <1>2, <1>3, LoaderInvariant, PTL DEF Spec
=============================================================================
