--------------------------- MODULE DiscoveryProofs ---------------------------
(***************************************************************************)
(* The invariants of module Discovery, proved for every set of hosts,      *)
(* every set of policies and every bound on the kernel's changes.          *)
(***************************************************************************)
EXTENDS Discovery, HalProofs, FiniteSetTheorems, SequenceTheorems, FunctionTheorems

-----------------------------------------------------------------------------
(* Sorting: Ranked(S, rank) is the elements of S, each once, upward.       *)

(* Of two elements, the one of lower rank has fewer below it. *)
LEMMA FewerBelow ==
  ASSUME NEW S, IsFiniteSet(S), NEW rank, \A x \in S : rank[x] \in Nat,
         NEW x \in S, NEW y \in S, rank[x] < rank[y]
  PROVE  Cardinality({z \in S : rank[z] < rank[x]}) < Cardinality({z \in S : rank[z] < rank[y]})
<1> DEFINE B(w) == {z \in S : rank[z] < rank[w]}
<1>1. B(x) \subseteq B(y) /\ x \in B(y) /\ x \notin B(x)
  OBVIOUS
<1>2. IsFiniteSet(B(y)) /\ B(x) \in SUBSET B(y)
  BY <1>1, FS_Subset
<1> HIDE DEF B
<1>3. IsFiniteSet(B(x)) /\ Cardinality(B(x)) <= Cardinality(B(y)) /\ Cardinality(B(x)) # Cardinality(B(y))
  BY <1>1, <1>2, FS_Subset
<1>4. Cardinality(B(x)) \in Nat /\ Cardinality(B(y)) \in Nat
  BY <1>2, <1>3, FS_CardinalityType
<1>5. Cardinality(B(x)) < Cardinality(B(y))
  BY <1>3, <1>4
<1> QED BY <1>5 DEF B

(* An element has fewer below it than there are elements. *)
LEMMA BelowIsProper ==
  ASSUME NEW S, IsFiniteSet(S), NEW rank, \A x \in S : rank[x] \in Nat, NEW x \in S
  PROVE  Cardinality({z \in S : rank[z] < rank[x]}) \in 0 .. Cardinality(S) - 1
<1> DEFINE B == {z \in S : rank[z] < rank[x]}
<1>1. B \in SUBSET S /\ x \notin B
  OBVIOUS
<1> HIDE DEF B
<1>2. B # S
  BY <1>1
<1>3. IsFiniteSet(B) /\ Cardinality(B) <= Cardinality(S) /\ Cardinality(B) # Cardinality(S)
  BY <1>1, <1>2, FS_Subset
<1>4. Cardinality(B) \in Nat /\ Cardinality(S) \in Nat
  BY <1>3, FS_CardinalityType
<1>5. Cardinality(B) \in 0 .. Cardinality(S) - 1
  BY <1>3, <1>4
<1> QED BY <1>5 DEF B

(* The ranks are spread over 1 .. Cardinality(S) without gaps. *)
LEMMA PlacesAreTaken ==
  ASSUME NEW S, IsFiniteSet(S), NEW rank, \A x \in S : rank[x] \in Nat,
         \A x, y \in S : rank[x] = rank[y] => x = y,
         NEW n \in 1 .. Cardinality(S)
  PROVE  \E x \in S : Cardinality({z \in S : rank[z] < rank[x]}) = n - 1
<1>1. Cardinality(S) \in Nat
  BY FS_CardinalityType
<1>2. PICK below : below = [x \in S |-> Cardinality({z \in S : rank[z] < rank[x]})]
  OBVIOUS
<1>3. below \in [S -> 0 .. Cardinality(S) - 1]
  BY <1>2, BelowIsProper
<1>4. ASSUME NEW x \in S, NEW y \in S, below[x] = below[y]
      PROVE  x = y
  <2>1. \A v, w \in S : rank[v] < rank[w] => below[v] < below[w]
    BY <1>2, FewerBelow
  <2>2. rank[x] \in Nat /\ rank[y] \in Nat /\ below[x] \in Int /\ below[y] \in Int
    BY <1>3, <1>1
  <2>3. rank[x] = rank[y]
    BY <1>4, <2>1, <2>2
  <2> QED BY <2>3
<1>5. below \in Injection(S, 0 .. Cardinality(S) - 1)
  BY <1>3, <1>4, Fun_IsInj
<1>6. /\ IsFiniteSet(0 .. Cardinality(S) - 1)
      /\ Cardinality(0 .. Cardinality(S) - 1) = Cardinality(S)
  <2>1. 0 \in Int /\ Cardinality(S) - 1 \in Int
    BY <1>1
  <2>2. /\ IsFiniteSet(0 .. Cardinality(S) - 1)
        /\ Cardinality(0 .. Cardinality(S) - 1)
             = IF 0 > Cardinality(S) - 1 THEN 0 ELSE Cardinality(S) - 1 - 0 + 1
    BY <2>1, FS_Interval, Zenon
  <2> QED BY <1>1, <2>2
<1>7. below \in Surjection(S, 0 .. Cardinality(S) - 1)
  BY <1>5, <1>6, FS_Injection
<1>8. n - 1 \in 0 .. Cardinality(S) - 1
  BY <1>1
<1>9. PICK x \in S : below[x] = n - 1
  <2>1. \A t \in 0 .. Cardinality(S) - 1 : \E x \in S : below[x] = t
    BY <1>7, Fun_SurjectionProperties
  <2> QED BY <1>8, <2>1
<1> QED BY <1>2, <1>9

(* read_dir's entries.sort() (sysfs.rs:63) and discover_policies' sort_by_key *)
(* (topology.rs:88) keep every element, once, and put the lesser before.      *)
LEMMA RankedSorts ==
  ASSUME NEW S, IsFiniteSet(S), NEW rank, \A x \in S : rank[x] \in Nat,
         \A x, y \in S : rank[x] = rank[y] => x = y
  PROVE  /\ Cardinality(S) \in Nat
         /\ Ranked(S, rank) \in [1 .. Cardinality(S) -> S]
         /\ Ranked(S, rank) \in Seq(S)
         /\ Len(Ranked(S, rank)) = Cardinality(S)
         /\ IsInjective(Ranked(S, rank))
         /\ Range(Ranked(S, rank)) = S
         /\ \A m, n \in 1 .. Cardinality(S) :
              m < n => rank[Ranked(S, rank)[m]] < rank[Ranked(S, rank)[n]]
<1>1. Cardinality(S) \in Nat
  BY FS_CardinalityType
<1>2. PICK r : r = Ranked(S, rank)
  OBVIOUS
<1>3. PICK below : below = [x \in S |-> Cardinality({z \in S : rank[z] < rank[x]})]
  OBVIOUS
<1>4. \A n \in 1 .. Cardinality(S) : r[n] \in S /\ below[r[n]] = n - 1
  <2> TAKE n \in 1 .. Cardinality(S)
  <2>1. \E x \in S : Cardinality({z \in S : rank[z] < rank[x]}) = n - 1
    BY PlacesAreTaken
  <2>2. r[n] = CHOOSE x \in S : Cardinality({z \in S : rank[z] < rank[x]}) = n - 1
    BY <1>2 DEF Ranked
  <2> QED BY <2>1, <2>2, <1>3
<1>5. \A v, w \in S : rank[v] < rank[w] => below[v] < below[w]
  BY <1>3, FewerBelow
<1>6. r \in [1 .. Cardinality(S) -> S]
  BY <1>2, <1>4 DEF Ranked
<1>7. r \in Seq(S) /\ Len(r) = Cardinality(S) /\ DOMAIN r = 1 .. Cardinality(S)
  BY <1>1, <1>6
<1>8. r \in Injection(1 .. Cardinality(S), S)
  <2>1. \A m, n \in 1 .. Cardinality(S) : r[m] = r[n] => m = n
    BY <1>4, <1>1
  <2> QED BY <1>6, <2>1, Fun_IsInj
<1>9. r \in Surjection(1 .. Cardinality(S), S)
  BY <1>1, <1>8, FS_Injection, FS_Interval
<1>10. \A m, n \in 1 .. Cardinality(S) : m < n => rank[r[m]] < rank[r[n]]
  <2> SUFFICES ASSUME NEW m \in 1 .. Cardinality(S), NEW n \in 1 .. Cardinality(S), m < n
               PROVE  rank[r[m]] < rank[r[n]]
    OBVIOUS
  <2>1. r[m] \in S /\ r[n] \in S /\ below[r[m]] = m - 1 /\ below[r[n]] = n - 1
    BY <1>4
  <2>3. rank[r[m]] \in Nat /\ rank[r[n]] \in Nat
    BY <2>1
  <2>4. ~ (rank[r[n]] < rank[r[m]]) /\ rank[r[n]] # rank[r[m]]
    BY <2>1, <1>5, <1>1
  <2> QED BY <2>3, <2>4
<1>11. IsInjective(r)
  BY <1>7, <1>8, Fun_InjectionProperties DEF IsInjective
<1>12. Range(r) = S
  BY <1>9, Fun_SurjectionProperties
<1> QED BY <1>1, <1>2, <1>6, <1>7, <1>10, <1>11, <1>12

-----------------------------------------------------------------------------
(* The list of policies found, and the directories still to be visited.    *)

Entries == [id : PolicyIds, policy : CpuPolicy]

(* A list of policies and the list of their numbers go together. *)
LEMMA IdsType ==
  ASSUME NEW ps \in Seq(Entries)
  PROVE  /\ Ids(ps) \in Seq(PolicyIds)
         /\ Len(Ids(ps)) = Len(ps)
         /\ DOMAIN Ids(ps) = 1 .. Len(ps) /\ DOMAIN ps = 1 .. Len(ps) /\ Len(ps) \in Nat
         /\ \A n \in 1 .. Len(ps) : Ids(ps)[n] = ps[n].id /\ ps[n] \in Entries
<1>1. ps \in [1 .. Len(ps) -> Entries] /\ Len(ps) \in Nat /\ DOMAIN ps = 1 .. Len(ps)
  OBVIOUS
<1>2. \A n \in 1 .. Len(ps) : ps[n].id \in PolicyIds
  BY <1>1 DEF Entries
<1>3. Ids(ps) = [n \in 1 .. Len(ps) |-> ps[n].id]
  BY <1>1 DEF Ids
<1>4. Ids(ps) \in [1 .. Len(ps) -> PolicyIds]
  BY <1>2, <1>3
<1>5. Ids(ps) \in Seq(PolicyIds) /\ Len(Ids(ps)) = Len(ps)
  BY <1>1, <1>4
<1> QED BY <1>1, <1>3, <1>4, <1>5

(* Reading a policy moves its number from one list to the other. *)
LEMMA VisitedOrToVisit ==
  ASSUME NEW ps \in Seq(Entries), NEW t \in Seq(PolicyIds), t # <<>>,
         NEW e \in Entries, e.id = Head(t)
  PROVE  /\ Append(ps, e) \in Seq(Entries)
         /\ Ids(Append(ps, e)) = Append(Ids(ps), Head(t))
         /\ Ids(Append(ps, e)) \o Tail(t) = Ids(ps) \o t
<1>1. Append(ps, e) \in Seq(Entries)
  OBVIOUS
<1>2. Ids(Append(ps, e)) = Append(Ids(ps), Head(t))
  <2>1. /\ Ids(Append(ps, e)) \in Seq(PolicyIds)
        /\ Len(Ids(Append(ps, e))) = Len(ps) + 1
        /\ \A n \in 1 .. Len(ps) + 1 : Ids(Append(ps, e))[n] = Append(ps, e)[n].id
    <3>1. Len(Append(ps, e)) = Len(ps) + 1
      OBVIOUS
    <3> QED BY <1>1, <3>1, IdsType
  <2>2. /\ Append(Ids(ps), Head(t)) \in Seq(PolicyIds)
        /\ Len(Append(Ids(ps), Head(t))) = Len(ps) + 1
        /\ \A n \in 1 .. Len(ps) + 1 :
             Append(Ids(ps), Head(t))[n] = IF n <= Len(ps) THEN ps[n].id ELSE Head(t)
    BY IdsType
  <2>3. \A n \in 1 .. Len(ps) + 1 : Append(ps, e)[n] = IF n <= Len(ps) THEN ps[n] ELSE e
    OBVIOUS
  <2>4. \A n \in 1 .. Len(ps) + 1 : Ids(Append(ps, e))[n] = Append(Ids(ps), Head(t))[n]
    BY <2>1, <2>2, <2>3
  <2> QED BY <2>1, <2>2, <2>4, SeqEqual
<1>3. Append(Ids(ps), Head(t)) \o Tail(t) = Ids(ps) \o t
  <2>1. PICK s : s = Ids(ps) /\ s \in Seq(PolicyIds)
    BY IdsType
  <2>2. Append(s, Head(t)) \o Tail(t) = s \o t
    BY <2>1
  <2> QED BY <2>1, <2>2
<1> QED BY <1>1, <1>2, <1>3

(* The elements of a list are finitely many. *)
LEMMA RangeOfList ==
  ASSUME NEW S, NEW s \in Seq(S)
  PROVE  /\ IsFiniteSet(Range(s)) /\ Range(s) \subseteq S
         /\ Range(s) = {s[n] : n \in 1 .. Len(s)}
         /\ s = <<>> <=> Range(s) = {}
<1>1. Len(s) \in Nat /\ s \in [1 .. Len(s) -> S] /\ DOMAIN s = 1 .. Len(s)
  OBVIOUS
<1>2. s \in Surjection(1 .. Len(s), Range(s)) /\ Range(s) \subseteq S
  BY <1>1, Fun_RangeProperties
<1>3. IsFiniteSet(1 .. Len(s))
  BY <1>1, FS_Interval
<1>4. IsFiniteSet(Range(s))
  BY <1>2, <1>3, FS_Surjection
<1>5. Range(s) = {s[n] : n \in 1 .. Len(s)}
  BY <1>1 DEF Range
<1>6. s = <<>> <=> Range(s) = {}
  <2>1. s = <<>> <=> Len(s) = 0
    OBVIOUS
  <2>2. Len(s) # 0 => s[1] \in Range(s)
    BY <1>1, <1>5
  <2>3. Len(s) = 0 => Range(s) = {}
    BY <1>5
  <2> QED BY <2>1, <2>2, <2>3
<1> QED BY <1>2, <1>4, <1>5, <1>6

(* Sorting by number (topology.rs:88) keeps every policy, once, upward. *)
LEMMA SortedByIdSorts ==
  ASSUME NEW ps, IsFound(ps)
  PROVE  /\ IsFound(SortedById(ps))
         /\ Range(SortedById(ps)) = Range(ps)
         /\ Upward(SortedById(ps))
         /\ SortedById(ps) = <<>> <=> ps = <<>>
<1> DEFINE rank == [p \in Range(ps) |-> p.id]
<1>1. /\ ps \in Seq(Entries) /\ Len(ps) \in Nat /\ DOMAIN ps = 1 .. Len(ps)
      /\ DOMAIN Ids(ps) = 1 .. Len(ps) /\ \A n \in 1 .. Len(ps) : Ids(ps)[n] = ps[n].id
      /\ IsInjective(Ids(ps))
  BY IdsType DEF IsFound, Entries
<1>2. /\ IsFiniteSet(Range(ps)) /\ Range(ps) \subseteq Entries
      /\ Range(ps) = {ps[n] : n \in 1 .. Len(ps)}
      /\ ps = <<>> <=> Range(ps) = {}
  BY <1>1, RangeOfList
<1>3. \A p \in Range(ps) : rank[p] = p.id /\ rank[p] \in Nat
  BY <1>2, PolicyIdsAssumption DEF Entries
<1>4. \A p, q \in Range(ps) : rank[p] = rank[q] => p = q
  <2> SUFFICES ASSUME NEW m \in 1 .. Len(ps), NEW n \in 1 .. Len(ps), ps[m].id = ps[n].id
               PROVE  ps[m] = ps[n]
    BY <1>2
  <2> QED BY <1>1 DEF IsInjective
<1> HIDE DEF rank
<1>5. PICK r : r = Ranked(Range(ps), rank)
  OBVIOUS
<1>6. /\ r \in Seq(Range(ps)) /\ IsInjective(r) /\ Range(r) = Range(ps)
      /\ \A m, n \in 1 .. Len(r) : m < n => rank[r[m]] < rank[r[n]]
  BY <1>2, <1>3, <1>4, <1>5, RankedSorts
<1>7. /\ r \in Seq(Entries) /\ DOMAIN r = 1 .. Len(r) /\ Len(r) \in Nat
      /\ \A n \in 1 .. Len(r) : r[n] \in Range(ps)
  BY <1>2, <1>6, SeqMonotonic, ElementOfSeq
<1>8. \A n \in 1 .. Len(r) : rank[r[n]] = r[n].id /\ r[n].id \in Nat
  BY <1>3, <1>7
<1>9. Upward(r)
  BY <1>6, <1>7, <1>8 DEF Upward
<1>10. IsInjective(Ids(r))
  <2>1. DOMAIN Ids(r) = 1 .. Len(r) /\ \A n \in 1 .. Len(r) : Ids(r)[n] = r[n].id
    BY <1>7, IdsType
  <2> QED BY <1>4, <1>6, <1>7, <1>8, <2>1 DEF IsInjective
<1>11. r = <<>> <=> ps = <<>>
  BY <1>2, <1>6, <1>7, RangeOfList
<1>12. SortedById(ps) = r
  BY <1>5 DEF SortedById, rank
<1> QED BY <1>6, <1>7, <1>9, <1>10, <1>11, <1>12 DEF IsFound, Entries

(* What a discovery of one host is to find, and what detect_backend makes  *)
(* of it (mod.rs:71-96): that of module Hal.                               *)
LEMMA SortedOfSorts ==
  ASSUME NEW h \in Hosts
  PROVE  /\ IsFound(SortedOf(h))
         /\ Range(SortedOf(h)) = AllOf(h)
         /\ Upward(SortedOf(h))
         /\ SortedOf(h) = <<>> <=> DOMAIN h.policies = {}
<1> DEFINE D    == DOMAIN h.policies
           rank == [p \in AllOf(h) |-> p.id]
<1>1. /\ D \subseteq PolicyIds /\ IsFiniteSet(D)
      /\ \A i \in D : h.policies[i] \in Policy /\ Discovered(h.policies[i]) \in CpuPolicy
  <2>1. D \subseteq PolicyIds /\ \A i \in D : h.policies[i] \in Policy
    BY HostsAssumption DEF IsHost
  <2>2. \A p \in Policy : Discovered(p) \in CpuPolicy
    BY DEF Policy, CpuPolicy, Discovered
  <2> QED BY <2>1, <2>2, PathsAssumption, FS_Subset
<1>2. IsFiniteSet(AllOf(h))
  <2> DEFINE f == [i \in D |-> [id |-> i, policy |-> Discovered(h.policies[i])]]
  <2>1. f \in [D -> AllOf(h)] /\ \A p \in AllOf(h) : \E i \in D : f[i] = p
    BY DEF AllOf
  <2>2. f \in Surjection(D, AllOf(h))
    BY <2>1, Fun_IsSurj
  <2> QED BY <1>1, <2>2, FS_Surjection
<1>3. /\ AllOf(h) \subseteq Entries
      /\ \A p \in AllOf(h) : rank[p] = p.id /\ p.id \in Nat
      /\ \A p, q \in AllOf(h) : rank[p] = rank[q] => p = q
  <2>1. \A p \in AllOf(h) : /\ p.id \in D /\ p = [id |-> p.id, policy |-> Discovered(h.policies[p.id])]
    BY DEF AllOf
  <2>2. \A p \in AllOf(h) : rank[p] = p.id
    OBVIOUS
  <2> HIDE DEF rank
  <2>3. AllOf(h) \subseteq Entries
    BY <1>1, <2>1 DEF Entries
  <2>4. \A p \in AllOf(h) : p.id \in Nat
    BY <1>1, <2>1, PolicyIdsAssumption
  <2>5. \A p, q \in AllOf(h) : p.id = q.id => p = q
    BY <2>1
  <2> QED BY <2>2, <2>3, <2>4, <2>5
<1> HIDE DEF rank
<1>4. PICK r : r = Ranked(AllOf(h), rank)
  OBVIOUS
<1>5. /\ r \in Seq(AllOf(h)) /\ IsInjective(r) /\ Range(r) = AllOf(h)
      /\ \A m, n \in 1 .. Len(r) : m < n => rank[r[m]] < rank[r[n]]
  BY <1>2, <1>3, <1>4, RankedSorts
<1>6. /\ r \in Seq(Entries) /\ DOMAIN r = 1 .. Len(r) /\ Len(r) \in Nat
      /\ \A n \in 1 .. Len(r) : r[n] \in AllOf(h)
  BY <1>3, <1>5, SeqMonotonic, ElementOfSeq
<1>7. \A n \in 1 .. Len(r) : rank[r[n]] = r[n].id /\ r[n].id \in Nat
  BY <1>3, <1>6
<1>8. Upward(r)
  BY <1>5, <1>6, <1>7 DEF Upward
<1>9. IsInjective(Ids(r))
  <2>1. DOMAIN Ids(r) = 1 .. Len(r) /\ \A n \in 1 .. Len(r) : Ids(r)[n] = r[n].id
    BY <1>6, IdsType
  <2> QED BY <1>3, <1>5, <1>6, <1>7, <2>1 DEF IsInjective
<1>10. r = <<>> <=> D = {}
  <2>1. AllOf(h) = {} <=> D = {}
    BY DEF AllOf
  <2> QED BY <1>5, <1>6, <2>1, RangeOfList
<1>11. SortedOf(h) = r
  BY <1>4 DEF SortedOf, rank
<1> QED BY <1>5, <1>6, <1>8, <1>9, <1>10, <1>11 DEF IsFound, Entries

(* The sorted list of a host's policies holds what module Hal discovers. *)
LEMMA SortedOfMatches ==
  ASSUME NEW h \in Hosts
  PROVE  Matches(SortedOf(h), DiscoverPolicies(h))
<1>1. Range(SortedOf(h)) = AllOf(h) /\ Upward(SortedOf(h))
  BY SortedOfSorts
<1>2. {<<SortedOf(h)[i].id, SortedOf(h)[i].policy>> : i \in DOMAIN SortedOf(h)}
        = {<<p.id, p.policy>> : p \in AllOf(h)}
  BY <1>1 DEF Range
<1>3. {<<p.id, p.policy>> : p \in AllOf(h)}
        = {<<i, Discovered(h.policies[i])>> : i \in DOMAIN h.policies}
  <2>1. \A p \in AllOf(h) : p.id \in DOMAIN h.policies /\ p.policy = Discovered(h.policies[p.id])
    BY DEF AllOf
  <2>2. \A i \in DOMAIN h.policies :
          \E p \in AllOf(h) : p.id = i /\ p.policy = Discovered(h.policies[i])
    <3> TAKE i \in DOMAIN h.policies
    <3>1. [id |-> i, policy |-> Discovered(h.policies[i])] \in AllOf(h)
      BY DEF AllOf
    <3> QED BY <3>1
  <2> QED BY <2>1, <2>2
<1>4. {<<i, DiscoverPolicies(h)[i]>> : i \in DOMAIN DiscoverPolicies(h)}
        = {<<i, Discovered(h.policies[i])>> : i \in DOMAIN h.policies}
  BY DEF DiscoverPolicies
<1> QED BY <1>1, <1>2, <1>3, <1>4 DEF Matches

(* The first of the sorted list is the policy of the lowest number. *)
LEMMA HeadIsFirst ==
  ASSUME NEW h \in Hosts, DOMAIN h.policies # {}
  PROVE  /\ SortedOf(h) # <<>>
         /\ First(DOMAIN h.policies) \in DOMAIN h.policies
         /\ Head(SortedOf(h)).id = First(DOMAIN h.policies)
         /\ Head(SortedOf(h)).policy = Discovered(h.policies[First(DOMAIN h.policies)])
<1> DEFINE s == SortedOf(h)
<1>1. /\ s # <<>> /\ s \in Seq(Entries) /\ DOMAIN s = 1 .. Len(s) /\ Len(s) \in Nat
      /\ Range(s) = AllOf(h) /\ Upward(s)
  <2>1. s # <<>> /\ s \in Seq(Entries) /\ Range(s) = AllOf(h) /\ Upward(s)
    BY SortedOfSorts DEF IsFound, Entries
  <2> HIDE DEF s
  <2> QED BY <2>1
<1> HIDE DEF s
<1>2. 1 \in 1 .. Len(s) /\ Head(s) = s[1] /\ s[1] \in AllOf(h)
  BY <1>1 DEF Range
<1>3. \A n \in 1 .. Len(s) : s[n].id \in Nat
  <2>1. \A n \in 1 .. Len(s) : s[n] \in Entries
    BY <1>1, ElementOfSeq
  <2> QED BY <2>1, PolicyIdsAssumption DEF Entries
<1>4. \A p \in AllOf(h) : s[1].id <= p.id
  <2> SUFFICES ASSUME NEW n \in 1 .. Len(s)
               PROVE  s[1].id <= s[n].id
    BY <1>1 DEF Range
  <2> QED BY <1>1, <1>2, <1>3 DEF Upward
<1>5. \A i \in DOMAIN h.policies : s[1].id <= i
  <2> SUFFICES ASSUME NEW i \in DOMAIN h.policies
               PROVE  \E p \in AllOf(h) : p.id = i
    BY <1>4
  <2>1. [id |-> i, policy |-> Discovered(h.policies[i])] \in AllOf(h)
    BY DEF AllOf
  <2> QED BY <2>1
<1>6. s[1].id \in DOMAIN h.policies /\ s[1].policy = Discovered(h.policies[s[1].id])
  BY <1>2 DEF AllOf
<1>7. DOMAIN h.policies \subseteq PolicyIds
  BY HostsAssumption DEF IsHost
<1>8. /\ First(DOMAIN h.policies) \in DOMAIN h.policies
      /\ \A j \in DOMAIN h.policies : First(DOMAIN h.policies) <= j
  BY <1>7, FirstIsLeast
<1>9. First(DOMAIN h.policies) = s[1].id
  <2>1. s[1].id <= First(DOMAIN h.policies) /\ First(DOMAIN h.policies) <= s[1].id
    BY <1>5, <1>6, <1>8
  <2>2. s[1].id \in Nat /\ First(DOMAIN h.policies) \in Nat
    BY <1>6, <1>7, <1>8, PolicyIdsAssumption
  <2> QED BY <2>1, <2>2
<1> QED BY <1>1, <1>2, <1>6, <1>8, <1>9 DEF s

(* Detection from the sorted list chooses the backend that module Hal      *)
(* chooses from the host.                                                  *)
LEMMA DetectIsExact ==
  ASSUME NEW h \in Hosts
  PROVE  Detect(SortedOf(h)) = DetectBackend(h).kind
<1> DEFINE ps == DiscoverPolicies(h)
<1>1. DOMAIN ps = DOMAIN h.policies /\ \A i \in DOMAIN ps : ps[i] = Discovered(h.policies[i])
  BY DEF DiscoverPolicies
<1>2. CASE DOMAIN h.policies = {}
  BY <1>1, <1>2, SortedOfSorts DEF Detect, DetectBackend, DetectKind
<1>3. CASE DOMAIN h.policies # {}
  <2> HIDE DEF ps
  <2>1. SortedOf(h) # <<>> /\ ps[First(DOMAIN ps)] = Head(SortedOf(h)).policy
    BY <1>1, <1>3, HeadIsFirst
  <2>2. Detect(SortedOf(h)) = DetectKind(ps)
    BY <1>1, <1>3, <2>1 DEF Detect, DetectKind
  <2> QED BY <2>2 DEF DetectBackend, ps
<1> QED BY <1>2, <1>3

-----------------------------------------------------------------------------
(* What the kernel showed. *)

(* A file that is gone reads as one that is empty. *)
LEMMA ShownType ==
  ASSUME host \in Hosts
  PROVE  Shown \in CpuPolicy
<1>1. \A i \in DOMAIN host.policies : host.policies[i] \in Policy
  BY HostsAssumption DEF IsHost
<1>2. \A p \in Policy : Discovered(p) \in CpuPolicy
  BY DEF Policy, CpuPolicy, Discovered
<1>3. NoEntry \in CpuPolicy
  BY DEF NoEntry, CpuPolicy
<1> QED BY <1>1, <1>2, <1>3 DEF Shown

(* A read of a file, or of its absence, is of the host shown now. *)
LEMMA ReadIsShown ==
  ASSUME host \in seen, NEW policy
  PROVE  /\ policy.driver = Shown.driver => DriverShown(Head(todo), policy)
         /\ policy.hasEpp = Shown.hasEpp => EppShown(Head(todo), policy)
         /\ policy.epps = Shown.epps /\ policy.hasEpp => PreferencesShown(Head(todo), policy)
         /\ policy.governors = Shown.governors => GovernorsShown(Head(todo), policy)
<1>1. CASE Head(todo) \in DOMAIN host.policies
  <2>1. host \in Having(Head(todo))
    BY <1>1 DEF Having
  <2>2. Shown = Discovered(host.policies[Head(todo)])
    BY <1>1 DEF Shown
  <2> QED BY <2>1, <2>2 DEF Discovered, DriverShown, EppShown, PreferencesShown, GovernorsShown
<1>2. CASE Head(todo) \notin DOMAIN host.policies
  <2>1. Having(Head(todo)) # seen
    BY <1>2 DEF Having
  <2>2. Shown.driver = {} /\ Shown.hasEpp = FALSE /\ Shown.epps = {} /\ Shown.governors = {}
    BY <1>2 DEF Shown, NoEntry
  <2> QED BY <2>1, <2>2 DEF DriverShown, EppShown, PreferencesShown, GovernorsShown
<1> QED BY <1>1, <1>2

(* What was shown once was shown. *)
LEMMA ShownStays ==
  ASSUME seen \subseteq seen', NEW i, NEW policy
  PROVE  /\ DriverShown(i, policy) => DriverShown(i, policy)'
         /\ EppShown(i, policy) => EppShown(i, policy)'
         /\ PreferencesShown(i, policy) => PreferencesShown(i, policy)'
         /\ GovernorsShown(i, policy) => GovernorsShown(i, policy)'
<1>1. Having(i) \subseteq Having(i)'
  BY DEF Having
<1>2. Having(i) # seen => Having(i)' # seen'
  BY DEF Having
<1> QED BY <1>1, <1>2 DEF DriverShown, EppShown, PreferencesShown, GovernorsShown

-----------------------------------------------------------------------------
(* IInv is inductive: one lemma for every action of Next. *)

(* Before the first command nothing has been read. *)
LEMMA InitIInv == Init => IInv
<1> SUFFICES ASSUME Init PROVE IInv
  OBVIOUS
<1>1. /\ pc = "idle" /\ seen = {} /\ erred = FALSE /\ exit = "success" /\ printed = FALSE
      /\ todo = <<>> /\ found = <<>> /\ listed = <<>>
  BY DEF Init, Blank
<1>2. IsFound(<<>>) /\ IsInjective(<<>>) /\ Ids(<<>>) = <<>>
  BY DEF IsFound, IsInjective, Ids
<1>3. TypeOK
  <2>1. NoEntry \in CpuPolicy
    BY DEF NoEntry, CpuPolicy
  <2>2. host \in Hosts /\ epp \in [PolicyIds -> Contents \cup {Unreadable}] /\ command \in {"agent", "read", "probe"}
    BY DEF Init
  <2>3. entry \in CpuPolicy /\ kind = Undetected /\ current = "none"
    BY <2>1 DEF Init, Blank
  <2>4. budget \in 0 .. MaxDisturbances
    BY BudgetAssumption DEF Init
  <2>5. printed \in BOOLEAN /\ erred \in BOOLEAN /\ todo \in Seq(PolicyIds) /\ IsInjective(todo)
    <3>1. printed \in BOOLEAN /\ erred \in BOOLEAN
      BY <1>1
    <3>2. <<>> \in Seq(PolicyIds)
      BY EmptySeq
    <3> QED BY <1>1, <1>2, <3>1, <3>2, Zenon
  <2>6. seen \subseteq Hosts /\ IsFound(found) /\ IsFound(listed)
    BY <1>1, <1>2
  <2> QED BY <1>1, <2>2, <2>3, <2>4, <2>5, <2>6 DEF TypeOK
<1>4. ControlIsSound
  BY <1>1 DEF ControlIsSound, InPolicy
<1>5. NoPolicyTwice
  BY <1>1, <1>2 DEF NoPolicyTwice
<1>6. FilesWereShown /\ EntryWasShown /\ ErredFindsNothing /\ QuietSoFar /\ ExitIsAccountedFor
  BY <1>1 DEF FilesWereShown, EntryWasShown, ErredFindsNothing, QuietSoFar, ExitIsAccountedFor,
              InPolicy, Quiet
<1> QED BY <1>3, <1>4, <1>5, <1>6 DEF IInv

(* One lemma per action from here on. A command begins with nothing read   *)
(* and the present host as the only one seen.                              *)
LEMMA BeginKeeps == ASSUME IInv, NEW c \in {"agent", "read", "probe"}, Begin(c) PROVE IInv'
<1>1. /\ pc' = "root" /\ seen' = {host} /\ erred' = FALSE /\ exit' = "success" /\ printed' = FALSE
      /\ todo' = <<>> /\ found' = <<>> /\ listed' = <<>> /\ host' = host
  BY DEF Begin
<1>2. IsFound(<<>>) /\ IsInjective(<<>>) /\ Ids(<<>>) = <<>>
  BY DEF IsFound, IsInjective, Ids
<1>3. TypeOK'
  <2>1. NoEntry \in CpuPolicy
    BY DEF NoEntry, CpuPolicy
  <2>2. /\ host \in Hosts /\ epp \in [PolicyIds -> Contents \cup {Unreadable}] /\ epp' = epp
        /\ budget \in 0 .. MaxDisturbances /\ budget' = budget
    BY DEF IInv, TypeOK, Begin
  <2>3. command' = c /\ entry' \in CpuPolicy /\ kind' = Undetected /\ current' = "none"
    BY <2>1 DEF Begin
  <2>4. printed' \in BOOLEAN /\ erred' \in BOOLEAN /\ todo' \in Seq(PolicyIds) /\ IsInjective(todo')
    <3>1. printed' \in BOOLEAN /\ erred' \in BOOLEAN
      BY <1>1
    <3>2. <<>> \in Seq(PolicyIds)
      BY EmptySeq
    <3> QED BY <1>1, <1>2, <3>1, <3>2, Zenon
  <2>5. seen' \subseteq Hosts /\ IsFound(found') /\ IsFound(listed')
    BY <1>1, <1>2, <2>2
  <2> QED BY <1>1, <2>2, <2>3, <2>4, <2>5 DEF TypeOK
<1>4. ControlIsSound'
  BY <1>1 DEF ControlIsSound, InPolicy
<1>5. NoPolicyTwice'
  BY <1>1, <1>2 DEF NoPolicyTwice
<1>6. (FilesWereShown /\ EntryWasShown /\ ErredFindsNothing /\ QuietSoFar /\ ExitIsAccountedFor)'
  BY <1>1 DEF FilesWereShown, EntryWasShown, ErredFindsNothing, QuietSoFar, ExitIsAccountedFor,
              InPolicy, Quiet
<1> QED BY <1>3, <1>4, <1>5, <1>6 DEF IInv

(* FilesWereShown and ExitIsAccountedFor where the files found are the same. *)
LEMMA SameFilesShown ==
  ASSUME FilesWereShown, seen \subseteq seen', found' = found
  PROVE  FilesWereShown'
<1>1. \A n \in DOMAIN found : ShownOnce(found[n].id, found[n].policy)'
  <2> TAKE n \in DOMAIN found
  <2>1. ShownOnce(found[n].id, found[n].policy)
    BY DEF FilesWereShown
  <2> DEFINE i == found[n].id
             p == found[n].policy
  <2>2. ASSUME NEW j, NEW q, ShownOnce(j, q) PROVE ShownOnce(j, q)'
    BY <2>2, ShownStays DEF ShownOnce
  <2> QED BY <2>1, <2>2
<1> QED BY <1>1 DEF FilesWereShown

LEMMA FindRootKeeps == ASSUME IInv, FindRoot PROVE IInv'
<1>1. /\ pc = "root" /\ pc' \in {"list", "sort"} /\ (pc' = "sort" => DOMAIN host.policies = {})
      /\ UNCHANGED <<host, epp, command, seen, budget, todo, entry, found>>
      /\ UNCHANGED <<listed, printed, kind, current, exit, erred>>
  BY DEF FindRoot, Access, results
<1>2. /\ todo = <<>> /\ found = <<>> /\ host \in seen /\ exit # "failure" /\ ~ erred
  BY <1>1 DEF IInv, ControlIsSound, InPolicy, ErredFindsNothing
<1>3. TypeOK'
  BY <1>1 DEF IInv, TypeOK
<1>4. ControlIsSound'
  BY <1>1, <1>2 DEF ControlIsSound, InPolicy
<1>5. NoPolicyTwice'
  BY <1>1 DEF IInv, NoPolicyTwice, Ids
<1>6. FilesWereShown'
  BY <1>1, SameFilesShown DEF IInv
<1>7. (EntryWasShown /\ ErredFindsNothing /\ ExitIsAccountedFor)'
  BY <1>1, <1>2 DEF EntryWasShown, ErredFindsNothing, ExitIsAccountedFor, InPolicy
<1>8. QuietSoFar'
  <2>1. Range(Ids(<<>>)) = {} /\ Range(<<>>) = {}
    BY DEF Range, Ids
  <2>2. Quiet' => (printed => listed = SortedOf(host))'
    BY <1>1 DEF IInv, QuietSoFar, Quiet, SortedOf, AllOf
  <2> QED BY <1>1, <1>2, <2>1, <2>2 DEF QuietSoFar, InPolicy
<1> QED BY <1>3, <1>4, <1>5, <1>6, <1>7, <1>8 DEF IInv

LEMMA ListPoliciesKeeps == ASSUME IInv, ListPolicies PROVE IInv'
<1>1. /\ pc = "list" /\ todo' = Ranked(DOMAIN host.policies, PathRank)
      /\ pc' = IF todo' = <<>> THEN "sort" ELSE "driver"
      /\ UNCHANGED <<host, epp, command, seen, budget, entry, found>>
      /\ UNCHANGED <<listed, printed, kind, current, exit, erred>>
  BY DEF ListPolicies, Access, results
<1>2. /\ todo = <<>> /\ found = <<>> /\ host \in seen /\ exit # "failure" /\ ~ erred
  BY <1>1 DEF IInv, ControlIsSound, InPolicy, ErredFindsNothing
<1>3. /\ todo' \in Seq(PolicyIds) /\ IsInjective(todo') /\ Range(todo') = DOMAIN host.policies
  <2> DEFINE D == DOMAIN host.policies
  <2>1. D \subseteq PolicyIds
    BY HostsAssumption DEF IsHost, IInv, TypeOK
  <2>2. IsFiniteSet(D) /\ \A i \in D : PathRank[i] \in Nat
    BY <2>1, PathsAssumption, FS_Subset
  <2>3. \A i, j \in D : PathRank[i] = PathRank[j] => i = j
    BY <2>1, PathsAssumption DEF IsInjective
  <2> HIDE DEF D
  <2>4. Ranked(D, PathRank) \in Seq(D) /\ IsInjective(Ranked(D, PathRank)) /\ Range(Ranked(D, PathRank)) = D
    BY <2>2, <2>3, RankedSorts
  <2> QED BY <1>1, <2>1, <2>4, SeqMonotonic DEF D
<1>4. TypeOK'
  <2>1. pc' \in {"sort", "driver"}
    BY <1>1
  <2> QED BY <1>1, <1>3, <2>1 DEF IInv, TypeOK
<1>5. ControlIsSound'
  BY <1>1, <1>2 DEF ControlIsSound, InPolicy
<1>6. NoPolicyTwice'
  <2>1. Ids(found') = <<>>
    BY <1>1, <1>2 DEF Ids
  <2>2. <<>> \o todo' = todo'
    BY <1>3, ConcatEmptySeq
  <2> QED BY <1>3, <2>1, <2>2 DEF NoPolicyTwice
<1>7. FilesWereShown'
  BY <1>1, SameFilesShown DEF IInv
<1>8. (EntryWasShown /\ ErredFindsNothing /\ ExitIsAccountedFor)'
  BY <1>1, <1>2 DEF EntryWasShown, ErredFindsNothing, ExitIsAccountedFor, InPolicy
<1>9. QuietSoFar'
  <2>1. Range(Ids(<<>>)) = {}
    BY DEF Range, Ids
  <2>2. Quiet' => (printed => listed = SortedOf(host))'
    BY <1>1 DEF IInv, QuietSoFar, Quiet, SortedOf, AllOf
  <2>3. pc' \in {"sort", "driver"} /\ found' = <<>> /\ Range(todo') = DOMAIN host'.policies
    BY <1>1, <1>2, <1>3
  <2> QED BY <2>1, <2>2, <2>3 DEF QuietSoFar, InPolicy
<1> QED BY <1>4, <1>5, <1>6, <1>7, <1>8, <1>9 DEF IInv

LEMMA ListFailsKeeps == ASSUME IInv, ListFails PROVE IInv'
<1>1. /\ pc = "list" /\ budget > 0 /\ budget' = budget - 1 /\ erred' = TRUE
      /\ IF command = "probe" /\ ~ printed
         THEN pc' = "done" /\ exit' = "failure"
         ELSE pc' = "sort" /\ exit' = exit
      /\ UNCHANGED <<host, epp, command, todo, entry, found, listed, printed, kind, current, seen>>
  BY DEF ListFails, Disturb
<1>2. /\ todo = <<>> /\ found = <<>> /\ host \in seen /\ exit # "failure"
  BY <1>1 DEF IInv, ControlIsSound, InPolicy
<1>3. TypeOK'
  <2>1. erred' \in BOOLEAN
    BY <1>1
  <2>2. budget' \in 0 .. MaxDisturbances
    BY <1>1, BudgetAssumption DEF IInv, TypeOK
  <2>3. pc' \in {"done", "sort"} /\ exit' \in {"success", "failure"}
    BY <1>1 DEF IInv, TypeOK
  <2> QED BY <1>1, <2>1, <2>2, <2>3 DEF IInv, TypeOK
<1>4. ControlIsSound'
  BY <1>1, <1>2 DEF ControlIsSound, InPolicy
<1>5. NoPolicyTwice'
  BY <1>1 DEF IInv, NoPolicyTwice, Ids
<1>6. FilesWereShown'
  BY <1>1, SameFilesShown DEF IInv
<1>7. (EntryWasShown /\ ErredFindsNothing /\ QuietSoFar /\ ExitIsAccountedFor)'
  BY <1>1, <1>2 DEF EntryWasShown, ErredFindsNothing, QuietSoFar, Quiet, ExitIsAccountedFor, InPolicy
<1> QED BY <1>3, <1>4, <1>5, <1>6, <1>7 DEF IInv

(* In a quiet discovery the policy being visited is there. *)
LEMMA QuietShown ==
  ASSUME IInv, pc \in InPolicy
  PROVE  /\ todo # <<>> /\ todo \in Seq(PolicyIds) /\ Head(todo) \in PolicyIds
         /\ host \in seen /\ exit # "failure" /\ ~ erred
         /\ Quiet => /\ Head(todo) \in DOMAIN host.policies
                     /\ Shown = Discovered(host.policies[Head(todo)])
<1>1. todo # <<>> /\ todo \in Seq(PolicyIds) /\ host \in seen /\ exit # "failure" /\ ~ erred
  BY DEF IInv, ControlIsSound, ErredFindsNothing, InPolicy, TypeOK
<1>2. Head(todo) \in PolicyIds /\ Head(todo) \in Range(todo)
  <2>1. Len(todo) \in Nat /\ Len(todo) # 0 /\ Head(todo) = todo[1] /\ DOMAIN todo = 1 .. Len(todo)
    BY <1>1
  <2> QED BY <1>1, <2>1 DEF Range
<1>3. Quiet => Head(todo) \in DOMAIN host.policies
  BY <1>2 DEF IInv, QuietSoFar
<1> QED BY <1>1, <1>2, <1>3 DEF Shown

(* What three of the four reads of a policy have in common: they change    *)
(* the entry and go on to another read of the same policy.                 *)
LEMMA EntryStepKeeps ==
  ASSUME IInv, pc \in InPolicy, pc' \in InPolicy, entry' \in CpuPolicy,
         UNCHANGED <<host, epp, command, seen, budget, todo, found>>,
         UNCHANGED <<listed, printed, kind, current, exit, erred>>
  PROVE  (TypeOK /\ ControlIsSound /\ NoPolicyTwice /\ FilesWereShown /\ ErredFindsNothing
            /\ ExitIsAccountedFor)'
<1>1. /\ todo # <<>> /\ host \in seen /\ exit # "failure" /\ ~ erred
  BY QuietShown
<1>2. TypeOK'
  BY DEF IInv, TypeOK, InPolicy
<1>3. ControlIsSound'
  BY <1>1 DEF IInv, ControlIsSound, InPolicy
<1>4. NoPolicyTwice'
  BY DEF IInv, NoPolicyTwice, Ids
<1>5. FilesWereShown'
  BY SameFilesShown DEF IInv
<1>6. (ErredFindsNothing /\ ExitIsAccountedFor)'
  BY <1>1 DEF ErredFindsNothing, ExitIsAccountedFor, InPolicy
<1> QED BY <1>2, <1>3, <1>4, <1>5, <1>6

LEMMA ReadDriverKeeps == ASSUME IInv, ReadDriver PROVE IInv'
<1>1. /\ pc = "driver" /\ pc' = "epp" /\ entry' = [entry EXCEPT !.driver = Shown.driver]
      /\ UNCHANGED <<host, epp, command, seen, budget, todo, found>>
      /\ UNCHANGED <<listed, printed, kind, current, exit, erred>>
  BY DEF ReadDriver, Access, results
<1>2. pc \in InPolicy /\ pc' \in InPolicy
  BY <1>1 DEF InPolicy
<1>3. entry' \in CpuPolicy /\ entry'.driver = Shown.driver
  <2>1. entry \in CpuPolicy /\ Shown \in CpuPolicy
    BY ShownType DEF IInv, TypeOK
  <2> QED BY <1>1, <2>1 DEF CpuPolicy
<1>4. DriverShown(Head(todo), entry)'
  <2>1. DriverShown(Head(todo), entry')
    BY <1>2, <1>3, QuietShown, ReadIsShown
  <2> QED BY <1>1, <2>1 DEF DriverShown, Having
<1>5. EntryWasShown'
  BY <1>1, <1>4 DEF EntryWasShown
<1>6. QuietSoFar'
  BY <1>1, <1>2, <1>3, QuietShown DEF IInv, QuietSoFar, Quiet, SortedOf, AllOf, InPolicy
<1> QED BY <1>1, <1>2, <1>3, <1>5, <1>6, EntryStepKeeps DEF IInv

LEMMA LookingForEppKeeps == ASSUME IInv, LookForEpp PROVE IInv'
<1>1. /\ pc = "epp" /\ pc' = IF Shown.hasEpp THEN "preferences" ELSE "governors"
      /\ entry' = [entry EXCEPT !.hasEpp = Shown.hasEpp, !.epps = {}]
      /\ UNCHANGED <<host, epp, command, seen, budget, todo, found>>
      /\ UNCHANGED <<listed, printed, kind, current, exit, erred>>
  BY DEF LookForEpp, Access, results
<1>2. pc \in InPolicy /\ pc' \in InPolicy
  BY <1>1 DEF InPolicy
<1>3. /\ entry' \in CpuPolicy /\ entry'.driver = entry.driver
      /\ entry'.hasEpp = Shown.hasEpp /\ entry'.epps = {}
  <2>1. entry \in CpuPolicy /\ Shown \in CpuPolicy
    BY ShownType DEF IInv, TypeOK
  <2> QED BY <1>1, <2>1 DEF CpuPolicy
<1>4. /\ DriverShown(Head(todo), entry') /\ EppShown(Head(todo), entry')
      /\ PreferencesShown(Head(todo), entry')
  <2>1. DriverShown(Head(todo), entry)
    BY <1>1, <1>2 DEF IInv, EntryWasShown, InPolicy
  <2>2. DriverShown(Head(todo), entry')
    BY <1>3, <2>1 DEF DriverShown
  <2>3. EppShown(Head(todo), entry')
    BY <1>2, <1>3, QuietShown, ReadIsShown
  <2>4. PreferencesShown(Head(todo), entry')
    BY <1>3 DEF PreferencesShown
  <2> QED BY <2>2, <2>3, <2>4
<1>5. EntryWasShown'
  <2>1. (/\ DriverShown(Head(todo), entry) /\ EppShown(Head(todo), entry)
         /\ PreferencesShown(Head(todo), entry))'
    BY <1>1, <1>4 DEF DriverShown, EppShown, PreferencesShown, Having
  <2>2. pc' = "preferences" => entry'.hasEpp /\ entry'.epps = {}
    BY <1>1, <1>3
  <2> QED BY <2>1, <2>2 DEF EntryWasShown
<1>6. QuietSoFar'
  <2>1. Quiet /\ pc' = "governors" => Discovered(host.policies[Head(todo)]).epps = {}
    BY <1>1, <1>2, QuietShown DEF Discovered
  <2> QED BY <1>1, <1>2, <1>3, <2>1, QuietShown DEF IInv, QuietSoFar, Quiet, SortedOf, AllOf, InPolicy
<1> QED BY <1>1, <1>2, <1>3, <1>5, <1>6, EntryStepKeeps DEF IInv

LEMMA ReadPreferencesKeeps == ASSUME IInv, ReadPreferences PROVE IInv'
<1>1. /\ pc = "preferences" /\ pc' = "governors" /\ entry' = [entry EXCEPT !.epps = Shown.epps]
      /\ UNCHANGED <<host, epp, command, seen, budget, todo, found>>
      /\ UNCHANGED <<listed, printed, kind, current, exit, erred>>
  BY DEF ReadPreferences, Access, results
<1>2. pc \in InPolicy /\ pc' \in InPolicy
  BY <1>1 DEF InPolicy
<1>3. /\ entry' \in CpuPolicy /\ entry'.driver = entry.driver
      /\ entry'.hasEpp = entry.hasEpp /\ entry'.epps = Shown.epps /\ entry.hasEpp
  <2>1. entry \in CpuPolicy /\ Shown \in CpuPolicy /\ entry.hasEpp
    BY <1>1, ShownType DEF IInv, TypeOK, EntryWasShown
  <2> QED BY <1>1, <2>1 DEF CpuPolicy
<1>4. /\ DriverShown(Head(todo), entry') /\ EppShown(Head(todo), entry')
      /\ PreferencesShown(Head(todo), entry')
  <2>1. DriverShown(Head(todo), entry) /\ EppShown(Head(todo), entry)
    BY <1>1, <1>2 DEF IInv, EntryWasShown, InPolicy
  <2>2. DriverShown(Head(todo), entry') /\ EppShown(Head(todo), entry')
    BY <1>3, <2>1 DEF DriverShown, EppShown
  <2>3. PreferencesShown(Head(todo), entry')
    BY <1>2, <1>3, QuietShown, ReadIsShown
  <2> QED BY <2>2, <2>3
<1>5. EntryWasShown'
  <2>1. (/\ DriverShown(Head(todo), entry) /\ EppShown(Head(todo), entry)
         /\ PreferencesShown(Head(todo), entry))'
    BY <1>1, <1>4 DEF DriverShown, EppShown, PreferencesShown, Having
  <2> QED BY <1>1, <2>1 DEF EntryWasShown
<1>6. QuietSoFar'
  BY <1>1, <1>2, <1>3, QuietShown DEF IInv, QuietSoFar, Quiet, SortedOf, AllOf, InPolicy
<1> QED BY <1>1, <1>2, <1>3, <1>5, <1>6, EntryStepKeeps DEF IInv

LEMMA ReadGovernorsKeeps == ASSUME IInv, ReadGovernors PROVE IInv'
<1> DEFINE read == [id |-> Head(todo), policy |-> entry']
<1>1. /\ pc = "governors" /\ entry' = [entry EXCEPT !.governors = Shown.governors]
      /\ found' = Append(found, read) /\ todo' = Tail(todo)
      /\ pc' = IF todo' = <<>> THEN "sort" ELSE "driver"
      /\ UNCHANGED <<host, epp, command, seen, budget>>
      /\ UNCHANGED <<listed, printed, kind, current, exit, erred>>
  BY DEF ReadGovernors, Access, results
<1>2. pc \in InPolicy
  BY <1>1 DEF InPolicy
<1>3. /\ entry' \in CpuPolicy /\ entry'.driver = entry.driver /\ entry'.hasEpp = entry.hasEpp
      /\ entry'.epps = entry.epps /\ entry'.governors = Shown.governors
  <2>1. entry \in CpuPolicy /\ Shown \in CpuPolicy
    BY ShownType DEF IInv, TypeOK
  <2> QED BY <1>1, <2>1 DEF CpuPolicy
<1>4. /\ todo # <<>> /\ todo \in Seq(PolicyIds) /\ Head(todo) \in PolicyIds
      /\ host \in seen /\ exit # "failure" /\ ~ erred
  BY <1>2, QuietShown
<1>5. /\ found \in Seq(Entries) /\ read \in Entries /\ read.id = Head(todo) /\ read.policy = entry'
  BY <1>3, <1>4 DEF IInv, TypeOK, IsFound, Entries
<1> HIDE DEF read
<1>6. /\ found' \in Seq(Entries) /\ Ids(found') = Append(Ids(found), Head(todo))
      /\ Ids(found') \o todo' = Ids(found) \o todo /\ todo' \in Seq(PolicyIds)
  <2>1. /\ Append(found, read) \in Seq(Entries)
        /\ Ids(Append(found, read)) = Append(Ids(found), Head(todo))
        /\ Ids(Append(found, read)) \o Tail(todo) = Ids(found) \o todo
    BY <1>4, <1>5, VisitedOrToVisit
  <2>2. Tail(todo) \in Seq(PolicyIds)
    BY <1>4
  <2>3. Ids(found') = Ids(Append(found, read))
    BY <1>1 DEF Ids
  <2> QED BY <1>1, <2>1, <2>2, <2>3
<1>7. NoPolicyTwice'
  <2>1. IsInjective(Ids(found') \o todo')
    BY <1>6 DEF IInv, NoPolicyTwice
  <2> QED BY <2>1 DEF NoPolicyTwice, Ids
<1>8. IsInjective(Ids(found')) /\ IsInjective(todo')
  <2>1. PICK s : s = Ids(found') /\ s \in Seq(PolicyIds)
    BY <1>6, IdsType
  <2>2. IsInjective(s \o todo')
    BY <1>6, <2>1 DEF IInv, NoPolicyTwice
  <2>3. /\ DOMAIN s = 1 .. Len(s) /\ DOMAIN todo' = 1 .. Len(todo')
        /\ Len(s) \in Nat /\ Len(todo') \in Nat
        /\ DOMAIN (s \o todo') = 1 .. Len(s) + Len(todo')
        /\ \A n \in 1 .. Len(s) : (s \o todo')[n] = s[n]
        /\ \A n \in 1 .. Len(todo') : (s \o todo')[Len(s) + n] = todo'[n]
    BY <1>6, <2>1
  <2>4. IsInjective(s)
    BY <2>2, <2>3 DEF IsInjective
  <2>5. IsInjective(todo')
    <3> SUFFICES ASSUME NEW m \in 1 .. Len(todo'), NEW n \in 1 .. Len(todo'), todo'[m] = todo'[n]
                 PROVE  m = n
      BY <2>3 DEF IsInjective
    <3>1. /\ Len(s) + m \in 1 .. Len(s) + Len(todo') /\ Len(s) + n \in 1 .. Len(s) + Len(todo')
          /\ (s \o todo')[Len(s) + m] = (s \o todo')[Len(s) + n]
      BY <2>3
    <3>2. Len(s) + m = Len(s) + n
      BY <2>2, <2>3, <3>1 DEF IsInjective
    <3> QED BY <2>3, <3>2
  <2> QED BY <2>1, <2>4, <2>5
<1>9. TypeOK'
  <2>1. IsFound(found') /\ IsFound(listed')
    BY <1>1, <1>6, <1>8 DEF IInv, TypeOK, IsFound, Entries
  <2>2. pc' \in {"sort", "driver"}
    BY <1>1
  <2> QED BY <1>1, <1>3, <1>6, <1>8, <2>1, <2>2 DEF IInv, TypeOK
<1>10. ControlIsSound'
  BY <1>1, <1>4 DEF ControlIsSound, InPolicy
<1>11. FilesWereShown'
  <2>1. GovernorsShown(Head(todo), entry')
    BY <1>3, <1>4, ReadIsShown
  <2>2. /\ DriverShown(Head(todo), entry) /\ EppShown(Head(todo), entry)
        /\ PreferencesShown(Head(todo), entry)
    BY <1>1, <1>2 DEF IInv, EntryWasShown, InPolicy
  <2>3. /\ DriverShown(Head(todo), entry') /\ EppShown(Head(todo), entry')
        /\ PreferencesShown(Head(todo), entry')
    BY <1>3, <2>2 DEF DriverShown, EppShown, PreferencesShown
  <2>4. ShownOnce(read.id, read.policy)
    BY <1>5, <2>1, <2>3 DEF ShownOnce
  <2>5. \A n \in DOMAIN found' : \/ n \in DOMAIN found /\ found'[n] = found[n]
                                 \/ found'[n] = read
    BY <1>1, <1>5
  <2>6. \A n \in DOMAIN found' : ShownOnce(found'[n].id, found'[n].policy)
    BY <2>4, <2>5 DEF IInv, FilesWereShown
  <2>7. ASSUME NEW i, NEW p, ShownOnce(i, p) PROVE ShownOnce(i, p)'
    BY <1>1, <2>7, ShownStays DEF ShownOnce
  <2> QED BY <2>6, <2>7 DEF FilesWereShown
<1>12. (EntryWasShown /\ ErredFindsNothing /\ ExitIsAccountedFor)'
  BY <1>1, <1>4 DEF EntryWasShown, ErredFindsNothing, ExitIsAccountedFor, InPolicy
<1>13. QuietSoFar'
  <2> SUFFICES ASSUME Quiet' PROVE QuietSoFar'
    BY DEF QuietSoFar
  <2>1. Quiet
    BY <1>1 DEF Quiet
  <2>2. Range(Ids(found')) \cup Range(todo') = DOMAIN host.policies
    <3>1. PICK s : s = Ids(found') /\ s \in Seq(PolicyIds)
      BY <1>6, IdsType
    <3>2. PICK u : u = Ids(found) /\ u \in Seq(PolicyIds)
      BY <1>5, IdsType
    <3>3. Range(s) \cup Range(todo') = Range(s \o todo')
      <4>1. PICK t : t = todo' /\ t \in Seq(PolicyIds)
        BY <1>6
      <4>2. Range(s \o t) = Range(s) \cup Range(t)
        BY <3>1, <4>1, RangeConcatenation
      <4> QED BY <4>1, <4>2
    <3>4. Range(u) \cup Range(todo) = Range(u \o todo)
      BY <1>4, <3>2, RangeConcatenation
    <3> QED BY <1>2, <1>6, <2>1, <3>1, <3>2, <3>3, <3>4 DEF IInv, QuietSoFar
  <2>3. entry' = Discovered(host.policies[Head(todo)])
    <3>1. Shown = Discovered(host.policies[Head(todo)]) /\ Shown \in CpuPolicy
      BY <1>2, <2>1, QuietShown, ShownType DEF IInv, TypeOK
    <3>2. entry.driver = Shown.driver /\ entry.hasEpp = Shown.hasEpp /\ entry.epps = Shown.epps
      BY <1>1, <1>2, <2>1, <3>1 DEF IInv, QuietSoFar, InPolicy
    <3>3. entry' = Shown
      BY <1>3, <3>1, <3>2 DEF CpuPolicy
    <3> QED BY <3>1, <3>3
  <2>4. \A n \in DOMAIN found' : found'[n].policy = Discovered(host.policies[found'[n].id])
    <3>1. \A n \in DOMAIN found' : \/ n \in DOMAIN found /\ found'[n] = found[n]
                                   \/ found'[n] = read
      BY <1>1, <1>5
    <3> QED BY <1>2, <1>5, <2>1, <2>3, <3>1 DEF IInv, QuietSoFar
  <2>5. (printed => listed = SortedOf(host))'
    BY <1>1, <2>1 DEF IInv, QuietSoFar, SortedOf, AllOf
  <2>6. pc' \in {"sort", "driver"}
    BY <1>1
  <2>7. (/\ Range(Ids(found)) \cup Range(todo) = DOMAIN host.policies
         /\ \A n \in DOMAIN found : found[n].policy = Discovered(host.policies[found[n].id]))'
    BY <1>1, <2>2, <2>4 DEF Ids, Range
  <2> QED BY <2>5, <2>6, <2>7 DEF QuietSoFar, InPolicy
<1> QED BY <1>7, <1>9, <1>10, <1>11, <1>12, <1>13 DEF IInv

(* What the visits read of an undisturbed host, sorted, is what there was. *)
LEMMA SortIsExact ==
  ASSUME IInv, pc = "sort", Quiet
  PROVE  SortedById(found) = SortedOf(host)
<1>1. /\ todo = <<>> /\ found \in Seq(Entries)
      /\ Range(Ids(found)) \cup Range(todo) = DOMAIN host.policies
      /\ \A n \in DOMAIN found : found[n].policy = Discovered(host.policies[found[n].id])
  BY DEF IInv, ControlIsSound, InPolicy, TypeOK, IsFound, Entries, QuietSoFar
<1>2. Range(Ids(found)) = DOMAIN host.policies
  BY <1>1 DEF Range
<1>3. /\ DOMAIN found = 1 .. Len(found) /\ DOMAIN Ids(found) = 1 .. Len(found)
      /\ \A n \in 1 .. Len(found) :
           /\ Ids(found)[n] = found[n].id
           /\ found[n] = [id |-> found[n].id, policy |-> found[n].policy]
  BY <1>1, IdsType DEF Entries
<1>4. \A n \in 1 .. Len(found) : found[n] \in AllOf(host)
  BY <1>1, <1>2, <1>3 DEF AllOf, Range
<1>5. ASSUME NEW p \in AllOf(host) PROVE \E n \in 1 .. Len(found) : found[n] = p
  <2>1. PICK i \in DOMAIN host.policies : p = [id |-> i, policy |-> Discovered(host.policies[i])]
    BY <1>5 DEF AllOf
  <2>2. PICK n \in 1 .. Len(found) : found[n].id = i
    BY <1>2, <1>3, <2>1 DEF Range
  <2> QED BY <1>1, <1>3, <2>1, <2>2
<1>6. Range(found) = AllOf(host)
  BY <1>3, <1>4, <1>5 DEF Range
<1> QED BY <1>6 DEF SortedById, SortedOf

LEMMA PrintPoliciesKeeps == ASSUME IInv, PrintPolicies PROVE IInv'
<1>1. /\ pc = "sort" /\ command = "probe" /\ ~ printed /\ listed' = SortedById(found)
      /\ printed' = TRUE /\ pc' = "root" /\ found' = <<>> /\ entry' = NoEntry
      /\ UNCHANGED <<host, epp, command, seen, budget, todo, kind, current, exit, erred>>
  BY DEF PrintPolicies, Access
<1>2. /\ todo = <<>> /\ host \in seen /\ exit # "failure" /\ ~ erred
  BY <1>1 DEF IInv, ControlIsSound, InPolicy, ErredFindsNothing
<1>3. IsFound(<<>>) /\ Ids(<<>>) = <<>> /\ IsInjective(<<>>)
  BY DEF IsFound, IsInjective, Ids
<1>4. TypeOK'
  <2>1. IsFound(listed') /\ IsFound(found')
    BY <1>1, <1>3, SortedByIdSorts DEF IInv, TypeOK
  <2>2. entry' \in CpuPolicy
    BY <1>1 DEF NoEntry, CpuPolicy
  <2>3. printed' \in BOOLEAN
    BY <1>1
  <2> QED BY <1>1, <2>1, <2>2, <2>3 DEF IInv, TypeOK
<1>5. ControlIsSound'
  BY <1>1, <1>2 DEF ControlIsSound, InPolicy
<1>6. NoPolicyTwice'
  BY <1>1, <1>2, <1>3 DEF NoPolicyTwice
<1>7. (FilesWereShown /\ EntryWasShown /\ ErredFindsNothing /\ ExitIsAccountedFor)'
  BY <1>1, <1>2 DEF FilesWereShown, EntryWasShown, ErredFindsNothing, ExitIsAccountedFor, InPolicy
<1>8. QuietSoFar'
  <2>1. Quiet => listed' = SortedOf(host)
    BY <1>1, SortIsExact
  <2> QED BY <1>1, <2>1 DEF QuietSoFar, Quiet, SortedOf, AllOf, InPolicy
<1> QED BY <1>4, <1>5, <1>6, <1>7, <1>8 DEF IInv

LEMMA DetectBackendOfFoundKeeps == ASSUME IInv, DetectBackendOfFound PROVE IInv'
<1>1. /\ pc = "sort" /\ (command = "probe" => printed) /\ found' = SortedById(found)
      /\ kind' = Detect(found') /\ pc' = IF command = "agent" THEN "done" ELSE "current"
      /\ UNCHANGED <<host, epp, command, seen, budget, todo, entry, listed, printed, current, exit, erred>>
  BY DEF DetectBackendOfFound, Access
<1>2. /\ todo = <<>> /\ host \in seen /\ exit # "failure" /\ (erred => found = <<>>)
  BY <1>1 DEF IInv, ControlIsSound, InPolicy, ErredFindsNothing
<1>3. /\ IsFound(found') /\ Range(found') = Range(found) /\ (found' = <<>> <=> found = <<>>)
  BY <1>1, SortedByIdSorts DEF IInv, TypeOK
<1>4. pc' \in {"done", "current"}
  BY <1>1
<1>5. TypeOK'
  <2>1. kind' \in BackendKinds
    BY <1>1 DEF Detect, VendorKind, BackendKinds, EppKinds
  <2> QED BY <1>1, <1>3, <1>4, <2>1 DEF IInv, TypeOK
<1>6. ControlIsSound'
  BY <1>1, <1>2, <1>4 DEF ControlIsSound, InPolicy
<1>7. NoPolicyTwice'
  <2>1. PICK s : s = Ids(found') /\ s \in Seq(PolicyIds) /\ IsInjective(s)
    BY <1>3, IdsType DEF IsFound, Entries
  <2>2. s \o <<>> = s
    BY <2>1, ConcatEmptySeq
  <2>3. IsInjective(Ids(found') \o todo')
    BY <1>1, <1>2, <2>1, <2>2
  <2> QED BY <2>3 DEF NoPolicyTwice, Ids
<1>8. FilesWereShown'
  <2>1. \A n \in DOMAIN found' : \E m \in DOMAIN found : found'[n] = found[m]
    BY <1>3 DEF Range
  <2>2. \A n \in DOMAIN found' : ShownOnce(found'[n].id, found'[n].policy)
    BY <2>1 DEF IInv, FilesWereShown
  <2>3. ASSUME NEW i, NEW p, ShownOnce(i, p) PROVE ShownOnce(i, p)'
    BY <1>1, <2>3, ShownStays DEF ShownOnce
  <2> QED BY <2>2, <2>3 DEF FilesWereShown
<1>9. EntryWasShown' /\ ExitIsAccountedFor'
  BY <1>1, <1>2, <1>4 DEF EntryWasShown, ExitIsAccountedFor, InPolicy
<1>10. ErredFindsNothing'
  BY <1>1, <1>2, <1>3, <1>4 DEF ErredFindsNothing, Detect
<1>11. QuietSoFar'
  <2> SUFFICES ASSUME Quiet PROVE QuietSoFar'
    BY <1>1 DEF QuietSoFar, Quiet
  <2>1. found' = SortedOf(host)
    BY <1>1, SortIsExact
  <2>2. kind' = DetectBackend(host).kind
    BY <1>1, <2>1, DetectIsExact DEF IInv, TypeOK
  <2>3. (found = SortedOf(host))' /\ (kind = DetectBackend(host).kind)'
    BY <1>1, <2>1, <2>2 DEF SortedOf, AllOf
  <2>4. (printed => listed = SortedOf(host))'
    BY <1>1 DEF IInv, QuietSoFar, SortedOf, AllOf
  <2> QED BY <1>1, <1>4, <2>3, <2>4 DEF QuietSoFar, InPolicy
<1> QED BY <1>5, <1>6, <1>7, <1>8, <1>9, <1>10, <1>11 DEF IInv

(* On an undisturbed host current (epp.rs:82) opens the file of the        *)
(* lowest-numbered policy, which is there: only its reading can fail.      *)
LEMMA QuietCurrentIsExact ==
  ASSUME IInv, pc = "current", Quiet
  PROVE  CurrentNow = CurrentOf(host)
<1>1. /\ found = SortedOf(host) /\ kind = DetectBackend(host).kind /\ host \in Hosts
  BY DEF IInv, QuietSoFar, TypeOK
<1>2. CASE kind \notin EppKinds
  BY <1>1, <1>2 DEF CurrentNow, CurrentOf
<1>3. CASE kind \in EppKinds
  <2>1. kind = Detect(found)
    BY <1>1, DetectIsExact
  <2>2. found # <<>> /\ Head(found).policy.hasEpp
    BY <1>3, <2>1 DEF Detect, EppKinds
  <2>3. DOMAIN host.policies # {}
    BY <1>1, <2>2, SortedOfSorts
  <2> DEFINE i == First(DOMAIN host.policies)
  <2>4. i \in DOMAIN host.policies /\ Head(found).id = i /\ Head(found).policy = Discovered(host.policies[i])
    BY <1>1, <2>3, HeadIsFirst
  <2>5. host.policies[i].hasEpp
    BY <2>2, <2>4 DEF Discovered
  <2>6. CurrentNow = Reading(epp[i])
    BY <1>3, <2>4, <2>5 DEF CurrentNow
  <2>7. CurrentOf(host) = Reading(epp[i])
    BY <1>1, <1>3 DEF CurrentOf
  <2> QED BY <2>6, <2>7
<1> QED BY <1>2, <1>3

LEMMA ReadCurrentKeeps == ASSUME IInv, ReadCurrent PROVE IInv'
<1>1. /\ pc = "current" /\ current' = CurrentNow /\ pc' = "done"
      /\ exit' = IF command = "read" /\ current' = "error" THEN "failure" ELSE "success"
      /\ UNCHANGED <<host, epp, command, seen, budget, todo, entry, found, listed, printed, kind, erred>>
  BY DEF ReadCurrent, Access
<1>2. todo = <<>> /\ host \in seen
  BY <1>1 DEF IInv, ControlIsSound, InPolicy
<1>3. TypeOK'
  <2>1. current' \in Profiles \cup {"none", "error"}
    BY <1>1 DEF CurrentNow, Reading
  <2>2. exit' \in {"success", "failure"}
    BY <1>1
  <2> QED BY <1>1, <2>1, <2>2 DEF IInv, TypeOK
<1>4. ControlIsSound'
  BY <1>1, <1>2 DEF ControlIsSound, InPolicy
<1>5. NoPolicyTwice'
  BY <1>1 DEF IInv, NoPolicyTwice, Ids
<1>6. FilesWereShown'
  BY <1>1, SameFilesShown DEF IInv
<1>7. EntryWasShown' /\ ErredFindsNothing'
  BY <1>1 DEF IInv, EntryWasShown, ErredFindsNothing, InPolicy
<1>8. QuietSoFar'
  BY <1>1 DEF IInv, QuietSoFar, Quiet, SortedOf, AllOf, InPolicy
<1>9. ExitIsAccountedFor'
  <2>1. CurrentOf(host)' = CurrentOf(host) /\ (Quiet' <=> Quiet)
    BY <1>1 DEF CurrentOf, Quiet
  <2>2. Quiet => current' = CurrentOf(host)
    BY <1>1, QuietCurrentIsExact
  <2>3. erred => current' # "error"
    BY <1>1 DEF IInv, ErredFindsNothing, CurrentNow, EppKinds
  <2>4. exit' = "failure" <=> command = "read" /\ current' = "error"
    BY <1>1
  <2>5. exit' = "failure" => command = "read" /\ (seen # {host} \/ CurrentOf(host) = "error")
    BY <2>2, <2>3, <2>4 DEF Quiet
  <2> QED BY <1>1, <2>1, <2>2, <2>4, <2>5 DEF ExitIsAccountedFor
<1> QED BY <1>3, <1>4, <1>5, <1>6, <1>7, <1>8, <1>9 DEF IInv

(* The kernel moving ends the quiet, and hides none of what was shown. *)
LEMMA KernelChangeKeeps == ASSUME IInv, NEW h \in Hosts, KernelChange(h) PROVE IInv'
<1>1. /\ h # host /\ budget > 0 /\ budget' = budget - 1 /\ host' = h /\ seen' = seen \cup {h}
      /\ UNCHANGED <<epp, command, pc, todo, entry, found, listed, printed, kind, current, exit, erred>>
  BY DEF KernelChange, Disturb, results
<1>2. TypeOK'
  <2>1. budget' \in 0 .. MaxDisturbances
    BY <1>1, BudgetAssumption DEF IInv, TypeOK
  <2>2. host' \in Hosts /\ seen' \subseteq Hosts
    BY <1>1 DEF IInv, TypeOK
  <2> QED BY <1>1, <2>1, <2>2 DEF IInv, TypeOK
<1>3. ControlIsSound'
  BY <1>1 DEF IInv, ControlIsSound
<1>4. NoPolicyTwice'
  BY <1>1 DEF IInv, NoPolicyTwice, Ids
<1>5. FilesWereShown'
  BY <1>1, SameFilesShown DEF IInv
<1>6. EntryWasShown'
  <2>1. seen \subseteq seen'
    BY <1>1
  <2>2. /\ DriverShown(Head(todo), entry) => DriverShown(Head(todo), entry)'
        /\ EppShown(Head(todo), entry) => EppShown(Head(todo), entry)'
        /\ PreferencesShown(Head(todo), entry) => PreferencesShown(Head(todo), entry)'
    <3>1. ASSUME NEW i, NEW p
          PROVE  /\ DriverShown(i, p) => DriverShown(i, p)'
                 /\ EppShown(i, p) => EppShown(i, p)'
                 /\ PreferencesShown(i, p) => PreferencesShown(i, p)'
      BY <2>1, ShownStays
    <3> QED BY <1>1, <3>1
  <2> QED BY <1>1, <2>2 DEF IInv, EntryWasShown
<1>7. ErredFindsNothing'
  BY <1>1 DEF IInv, ErredFindsNothing
<1>8. QuietSoFar'
  <2>1. CASE pc = "idle"
    BY <1>1, <2>1 DEF IInv, ControlIsSound, QuietSoFar, InPolicy
  <2>2. CASE pc # "idle"
    BY <1>1, <2>2 DEF IInv, ControlIsSound, QuietSoFar, Quiet
  <2> QED BY <2>1, <2>2
<1>9. ExitIsAccountedFor'
  <2>1. pc = "done" => ~ Quiet' /\ seen' # {host'}
    BY <1>1 DEF IInv, ControlIsSound, Quiet
  <2> QED BY <1>1, <2>1 DEF IInv, ExitIsAccountedFor
<1> QED BY <1>2, <1>3, <1>4, <1>5, <1>6, <1>7, <1>8, <1>9 DEF IInv

LEMMA StutterKeeps == ASSUME IInv, UNCHANGED vars PROVE IInv'
<1>1. /\ UNCHANGED <<host, epp, command, pc, todo, entry, found, seen, budget>>
      /\ UNCHANGED <<listed, printed, kind, current, exit, erred>>
  BY DEF vars, results
<1>2. (TypeOK /\ ControlIsSound /\ ErredFindsNothing /\ ExitIsAccountedFor)'
  BY <1>1 DEF IInv, TypeOK, ControlIsSound, ErredFindsNothing, ExitIsAccountedFor, CurrentOf, Quiet
<1>3. (NoPolicyTwice /\ QuietSoFar)'
  BY <1>1 DEF IInv, NoPolicyTwice, QuietSoFar, Quiet, Ids, SortedOf, AllOf
<1>4. (FilesWereShown /\ EntryWasShown)'
  BY <1>1 DEF IInv, FilesWereShown, EntryWasShown, ShownOnce, DriverShown, EppShown,
              PreferencesShown, GovernorsShown, Having
<1> QED BY <1>2, <1>3, <1>4 DEF IInv

-----------------------------------------------------------------------------
(* The theorems. *)

(* Every reachable state of a discovery satisfies the inductive invariant: *)
(* no directory of discover_policies (topology.rs:46) is visited twice,    *)
(* what was read was shown, and while the kernel keeps still what was read *)
(* and what is still to be visited are together what there is.             *)
THEOREM Invariance == Spec => []IInv
<1>1. Init => IInv
  BY InitIInv
<1>2. IInv /\ [Next]_vars => IInv'
  <2> SUFFICES ASSUME IInv, [Next]_vars PROVE IInv'
    OBVIOUS
  <2>1. ASSUME NEW c \in {"agent", "read", "probe"}, Begin(c) PROVE IInv'
    BY <2>1, BeginKeeps
  <2>2. CASE FindRoot
    BY <2>2, FindRootKeeps
  <2>3. CASE ListPolicies
    BY <2>3, ListPoliciesKeeps
  <2>4. CASE ListFails
    BY <2>4, ListFailsKeeps
  <2>5. CASE ReadDriver
    BY <2>5, ReadDriverKeeps
  <2>6. CASE LookForEpp
    BY <2>6, LookingForEppKeeps
  <2>7. CASE ReadPreferences
    BY <2>7, ReadPreferencesKeeps
  <2>8. CASE ReadGovernors
    BY <2>8, ReadGovernorsKeeps
  <2>9. CASE PrintPolicies
    BY <2>9, PrintPoliciesKeeps
  <2>10. CASE DetectBackendOfFound
    BY <2>10, DetectBackendOfFoundKeeps
  <2>11. CASE ReadCurrent
    BY <2>11, ReadCurrentKeeps
  <2>12. ASSUME NEW h \in Hosts, KernelChange(h) PROVE IInv'
    BY <2>12, KernelChangeKeeps
  <2>13. CASE UNCHANGED vars
    BY <2>13, StutterKeeps
  <2> QED
    BY <2>1, <2>2, <2>3, <2>4, <2>5, <2>6, <2>7, <2>8, <2>9, <2>10, <2>11, <2>12, <2>13 DEF Next
<1> QED BY <1>1, <1>2, PTL DEF Spec

(* The variables keep their types; of every list no two policies have the  *)
(* same number.                                                            *)
THEOREM TypeCorrect == Spec => []TypeOK
<1>1. IInv => TypeOK
  BY DEF IInv
<1> QED BY <1>1, Invariance, PTL

(* Undisturbed, discover_policies and detect_backend find, file by file,   *)
(* what module Hal says in one step, whatever the policies of the host and *)
(* the order of their paths.                                               *)
THEOREM QuietIsExact == Spec => []QuietDiscoveryIsExact
<1>1. IInv => QuietDiscoveryIsExact
  <2> SUFFICES ASSUME IInv, pc \in {"current", "done"}, Quiet
               PROVE  /\ kind = DetectBackend(host).kind
                      /\ Matches(found, DiscoverPolicies(host))
                      /\ command = "probe" => listed = found
    BY DEF QuietDiscoveryIsExact
  <2>1. /\ found = SortedOf(host) /\ kind = DetectBackend(host).kind
        /\ command = "probe" => printed
        /\ printed => listed = SortedOf(host)
    BY DEF IInv, QuietSoFar
  <2>2. Matches(SortedOf(host), DiscoverPolicies(host))
    BY SortedOfMatches DEF IInv, TypeOK
  <2> QED BY <2>1, <2>2
<1> QED BY <1>1, Invariance, PTL

(* However often the kernel changes, of each file discovery keeps what one *)
(* of the hosts showed there (topology.rs:58-86).                          *)
THEOREM FilesShown == Spec => []FilesWereShown
<1>1. IInv => FilesWereShown
  BY DEF IInv
<1> QED BY <1>1, Invariance, PTL

(* Undisturbed, pstate-cli reports what the lowest-numbered policy holds,  *)
(* and read fails exactly when that file cannot be read (epp.rs:82-98,     *)
(* main.rs:151-168); otherwise read fails only because the kernel changed  *)
(* under it and probe only because it could not list the policies          *)
(* (main.rs:51-58).                                                        *)
THEOREM ExitAccountedFor == Spec => []ExitIsAccountedFor
<1>1. IInv => ExitIsAccountedFor
  BY DEF IInv
<1> QED BY <1>1, Invariance, PTL
=============================================================================
