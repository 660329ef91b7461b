-------------------------- MODULE RunHistoryProofs --------------------------
(***************************************************************************)
(* Proofs about RunHistory.tla, for any tests, suites, ordering aspects    *)
(* and chain of runs: last passes are genuine, RESUME keeps what has       *)
(* passed, CHECK skips only what is proven, and the chain of stable sorts  *)
(* is the lexicographic order of its aspects.                              *)
(*                                                                         *)
(* HistoryInv is inductive.  Its heart is PassInv: the records of the last *)
(* run in which a test passed are about its last execution that passed,    *)
(* whether they are the originals or copies; QueueInv makes it work, for   *)
(* only a test without a process in this run is ever started, and          *)
(* FingerprintInv ties a fingerprint to the program a test ran on.  The    *)
(* other properties are about a preparation, and only a preparation leads  *)
(* to a prepared run.                                                      *)
(*                                                                         *)
(* The chain is a fold, whose recursive function is shown to exist for     *)
(* lists of any length by induction over a set of numbers.                 *)
(***************************************************************************)
EXTENDS MCRecords, TLAPS, FiniteSetTheorems, SequenceTheorems

-----------------------------------------------------------------------------
(* Numbers                                                                  *)

(* A set of numbers has a least member.                                     *)
LEMMA LeastNumber ==
  ASSUME NEW T \in SUBSET Nat, T # {}
  PROVE  \E m \in T : \A k \in T : m =< k
<1>1. PICK m \in T : \A k \in T : <<k, m>> \notin OpToRel(<, Nat)
  BY NatLessThanWellFounded, WFMin
<1>2. \A k \in T : ~(k < m)
  BY <1>1 DEF OpToRel
<1>. QED
  BY <1>2

(* A bounded one has a greatest.                                            *)
LEMMA GreatestNumber ==
  ASSUME NEW T \in SUBSET Nat, T # {}, NEW n \in Nat, \A k \in T : k =< n
  PROVE  \E m \in T : \A k \in T : k =< m
<1>. DEFINE U == {n - k : k \in T}
<1>1. U \in SUBSET Nat /\ U # {}
  <2>1. ASSUME NEW k \in T PROVE n - k \in Nat
    <3>1. k \in Nat /\ k =< n
      OBVIOUS
    <3>. QED
      BY <3>1
  <2>. QED
    BY <2>1
<1>2. PICK u \in U : \A k \in U : u =< k
  BY <1>1, LeastNumber
<1>3. PICK m \in T : u = n - m
  BY <1>2
<1>4. ASSUME NEW k \in T PROVE k =< m
  <2>1. u =< n - k
    BY <1>2
  <2>. QED
    BY <1>3, <2>1
<1>. QED
  BY <1>4

-----------------------------------------------------------------------------
(* Sorting                                                                  *)

(* i is to come before j.                                                   *)
Before(key, i, j) ==
  \/ key[i][1] < key[j][1]
  \/ key[i][1] = key[j][1] /\ key[i][2] < key[j][2]
  \/ key[i] = key[j] /\ i < j

(* sorted() returns each number once, and in the order of the keys.         *)
LEMMA SortedByIsSorted ==
  ASSUME NEW S \in SUBSET Int, IsFiniteSet(S), NEW key, \A i \in S : key[i] \in Int \X Int
  PROVE  /\ Cardinality(S) \in Nat
         /\ SortedBy(S, key) \in [1..Cardinality(S) -> S]
         /\ \A i \in S : \E k \in 1..Cardinality(S) : SortedBy(S, key)[k] = i
         /\ \A k, l \in 1..Cardinality(S) :
              k < l => Before(key, SortedBy(S, key)[k], SortedBy(S, key)[l])
<1>. DEFINE n == Cardinality(S)
            Ahead(i) == {j \in S : Before(key, j, i)}
            place == [i \in S |-> 1 + Cardinality(Ahead(i))]
<1>0. n \in Nat
  BY FS_CardinalityType
<1>1. SortedBy(S, key) = [k \in 1..n |-> CHOOSE i \in S : 1 + Cardinality(Ahead(i)) = k]
  BY DEF SortedBy, Before
<1>b. \A i \in S : i \in Int /\ key[i][1] \in Int /\ key[i][2] \in Int
  OBVIOUS
<1>2. \A i, j, k \in S : Before(key, i, j) /\ Before(key, j, k) => Before(key, i, k)
  <2>. SUFFICES ASSUME NEW i \in S, NEW j \in S, NEW k \in S, Before(key, i, j), Before(key, j, k)
                PROVE  Before(key, i, k)
    OBVIOUS
  <2>. QED
    BY <1>b DEF Before
<1>3. \A i, j \in S : i # j => Before(key, i, j) \/ Before(key, j, i)
  <2>. SUFFICES ASSUME NEW i \in S, NEW j \in S, i # j PROVE Before(key, i, j) \/ Before(key, j, i)
    OBVIOUS
  <2>1. \A a, b \in Int \X Int : a[1] = b[1] /\ a[2] = b[2] => a = b
    OBVIOUS
  <2>2. /\ i \in Int /\ j \in Int
        /\ key[i][1] \in Int /\ key[i][2] \in Int /\ key[j][1] \in Int /\ key[j][2] \in Int
    OBVIOUS
  <2>. QED BY <2>1, <2>2 DEF Before
<1>4. \A i \in S : ~ Before(key, i, i)
  BY <1>b DEF Before
<1>a. \A i, j : j \in Ahead(i) <=> j \in S /\ Before(key, j, i)
  OBVIOUS
<1>. HIDE DEF Ahead
<1>5. ASSUME NEW i \in S PROVE IsFiniteSet(Ahead(i)) /\ Cardinality(Ahead(i)) \in 0..(n - 1)
  <2>1. Ahead(i) \in SUBSET (S \ {i})
    BY <1>4, <1>a
  <2>2. IsFiniteSet(S \ {i}) /\ Cardinality(S \ {i}) = n - 1
    BY FS_RemoveElement
  <2>3. IsFiniteSet(Ahead(i)) /\ Cardinality(Ahead(i)) =< n - 1
    BY <2>1, <2>2, FS_Subset
  <2>. QED
    BY <2>3, <1>0, FS_CardinalityType
<1>6. ASSUME NEW i \in S, NEW j \in S, Before(key, i, j)
      PROVE  Cardinality(Ahead(i)) < Cardinality(Ahead(j))
  <2>1. Ahead(i) \cup {i} \in SUBSET Ahead(j)
    BY <1>2, <1>6, <1>a
  <2>2. i \notin Ahead(i)
    BY <1>4, <1>a
  <2>3. Cardinality(Ahead(i) \cup {i}) = Cardinality(Ahead(i)) + 1
    BY <1>5, <2>2, FS_AddElement
  <2>4. Cardinality(Ahead(i) \cup {i}) =< Cardinality(Ahead(j))
    BY <1>5, <2>1, FS_Subset
  <2>. QED
    BY <1>5, <2>3, <2>4
<1>7. \A i \in S : place[i] \in 1..n /\ place[i] = 1 + Cardinality(Ahead(i))
  <2>1. ASSUME NEW i \in S PROVE place[i] = 1 + Cardinality(Ahead(i))
    OBVIOUS
  <2>. QED
    BY <1>0, <1>5, <2>1
<1>8. \A i, j \in S : Before(key, i, j) => place[i] < place[j]
  <2>. SUFFICES ASSUME NEW i \in S, NEW j \in S, Before(key, i, j) PROVE place[i] < place[j]
    OBVIOUS
  <2>1. Cardinality(Ahead(i)) \in Int /\ Cardinality(Ahead(j)) \in Int
    BY <1>0, <1>5
  <2>. QED
    BY <2>1, <1>6, <1>7
<1>9. \A i, j \in S : place[i] = place[j] => i = j
  BY <1>3, <1>7, <1>8
<1>10. place \in Surjection(S, 1..n)
  <2>1. place \in [S -> 1..n]
    BY <1>7
  <2>2. place \in Injection(S, 1..n)
    BY <2>1, <1>9 DEF Injection, IsInjective
  <2>3. IsFiniteSet(1..n) /\ Cardinality(1..n) = n
    BY <1>0, FS_Interval
  <2>. QED
    BY <2>2, <2>3, FS_Injection
<1>. DEFINE s == SortedBy(S, key)
<1>11. s = [k \in 1..n |-> CHOOSE i \in S : place[i] = k]
  BY <1>1, <1>7
<1>. HIDE DEF place, s
<1>12. \A k \in 1..n : s[k] \in S /\ place[s[k]] = k
  BY <1>10, <1>11 DEF Surjection
<1>13. s \in [1..n -> S]
  BY <1>11, <1>12
<1>14. \A i \in S : \E k \in 1..n : s[k] = i
  BY <1>7, <1>9, <1>12
<1>15. ASSUME NEW k \in 1..n, NEW l \in 1..n, k < l PROVE Before(key, s[k], s[l])
  <2>1. s[k] \in S /\ s[l] \in S /\ place[s[k]] = k /\ place[s[l]] = l
    BY <1>12
  <2>2. k \in Int /\ l \in Int
    BY <1>0
  <2>3. ~ Before(key, s[l], s[k])
    <3>1. Before(key, s[l], s[k]) => place[s[l]] < place[s[k]]
      BY <2>1, <1>8
    <3>2. ~ (place[s[l]] < place[s[k]])
      BY <2>1, <2>2, <1>15
    <3>. QED
      BY <3>1, <3>2
  <2>4. s[k] # s[l]
    BY <2>1, <2>2, <1>15
  <2>. QED
    BY <2>1, <2>3, <2>4, <1>3
<1>. QED
  BY <1>0, <1>13, <1>14, <1>15 DEF s
-----------------------------------------------------------------------------
(* Induction over numbers, for a set instead of a predicate.                *)
LEMMA SetInduction ==
  ASSUME NEW S, 0 \in S, \A n \in Nat : n \in S => n + 1 \in S
  PROVE  Nat \subseteq S
<1>. SUFFICES ASSUME Nat \ S # {} PROVE FALSE
  OBVIOUS
<1>1. PICK m \in Nat \ S : \A k \in Nat \ S : m =< k
  BY LeastNumber
<1>2. m # 0 /\ m - 1 \in Nat /\ m = (m - 1) + 1
  BY <1>1
<1>3. m - 1 \in S
  BY <1>1, <1>2
<1>. QED
  BY <1>1, <1>2, <1>3

-----------------------------------------------------------------------------
(* The chain of sorts                                                       *)

(* One link of the chain.                                                   *)
Link(aspect, list, ctx) == StableSort(list, [t \in Tests |-> Key(aspect, t, ctx)])

(* The position a fold takes first.                                         *)
Lowest(s) == CHOOSE x \in s : \A y \in s : x =< y

(* What the fold computes for a set of positions, given what it computes    *)
(* for the sets without their lowest.                                       *)
Folded(aspects, base, ctx, f, s) ==
  IF s = {} THEN base ELSE Link(aspects[Lowest(s)], f[s \ {Lowest(s)}], ctx)

(* f is the fold over the subsets of D.                                     *)
IsFold(aspects, base, ctx, f, D) == f = [s \in SUBSET D |-> Folded(aspects, base, ctx, f, s)]

(* The chain of sorts is such a fold, over the positions of the aspects.    *)
LEMMA FoldOfChain ==
  ASSUME NEW tests, NEW aspects, NEW ctx
  PROVE  ApplyOrderingAspects(tests, aspects, ctx) =
           (CHOOSE f : IsFold(aspects, Alphabetical(tests), ctx, f, DOMAIN aspects))[DOMAIN aspects]
BY DEF ApplyOrderingAspects, FoldRight, MapThenFoldSet, IsFold, Folded, Link, Lowest, Min

(* A set of positions has a lowest.                                         *)
LEMMA LowestIsLowest ==
  ASSUME NEW s \in SUBSET Nat, s # {}
  PROVE  Lowest(s) \in s /\ \A y \in s : Lowest(s) =< y
BY LeastNumber DEF Lowest

(* The fold is well defined: from the last position to the first.           *)
LEMMA FoldExists ==
  ASSUME NEW aspects, NEW base, NEW ctx, NEW n \in Nat
  PROVE  \E f : IsFold(aspects, base, ctx, f, 1..n)
<1>. DEFINE Has == {m \in Nat : m =< n => \E f : IsFold(aspects, base, ctx, f, ((n + 1) - m)..n)}
<1>1. 0 \in Has
  <2>. DEFINE f == [s \in SUBSET {} |-> base]
  <2>1. f = [s \in SUBSET {} |-> Folded(aspects, base, ctx, f, s)]
    BY DEF Folded
  <2>2. ((n + 1) - 0)..n = {}
    OBVIOUS
  <2>. HIDE DEF f
  <2>3. IsFold(aspects, base, ctx, f, ((n + 1) - 0)..n)
    BY <2>1, <2>2 DEF IsFold
  <2>. QED
    BY <2>3
<1>2. ASSUME NEW m \in Nat, m \in Has, m + 1 =< n
      PROVE  \E g : IsFold(aspects, base, ctx, g, ((n + 1) - (m + 1))..n)
  <2>. DEFINE low == (n + 1) - (m + 1)
              D == low..n
              E == ((n + 1) - m)..n
  <2>0. low \in Nat /\ \A y \in D : y \in Nat /\ low =< y /\ y =< n
    <3>1. low \in Nat
      BY <1>2
    <3>. QED
      BY <3>1
  <2>1. PICK f : IsFold(aspects, base, ctx, f, E)
    BY <1>2
  <2>. DEFINE g == [s \in SUBSET D |-> Folded(aspects, base, ctx, f, s)]
  <2>2. ASSUME NEW s \in SUBSET D, s # {} PROVE s \ {Lowest(s)} \in SUBSET E
    <3>1. s \in SUBSET Nat
      BY <2>0
    <3>2. Lowest(s) \in s /\ \A y \in s : Lowest(s) =< y
      BY <2>2, <3>1, LowestIsLowest
    <3>3. ASSUME NEW y \in s \ {Lowest(s)} PROVE y \in E
      <4>1. y \in Nat /\ Lowest(s) \in Nat /\ low =< Lowest(s) /\ y =< n /\ Lowest(s) =< y
        BY <2>0, <3>2
      <4>. QED
        BY <4>1, <3>3, <2>0
    <3>. QED
      BY <3>3
  <2>3. \A s \in SUBSET E : s \in SUBSET D
    OBVIOUS
  <2>4. \A s \in SUBSET E : g[s] = f[s]
    BY <2>1, <2>3 DEF IsFold
  <2>5. ASSUME NEW s \in SUBSET D
        PROVE  Folded(aspects, base, ctx, f, s) = Folded(aspects, base, ctx, g, s)
    <3>. HIDE DEF g
    <3>. QED
      BY <2>2, <2>4 DEF Folded
  <2>6. g = [s \in SUBSET D |-> Folded(aspects, base, ctx, g, s)]
    <3>1. g = [s \in SUBSET D |-> Folded(aspects, base, ctx, f, s)]
      OBVIOUS
    <3>. HIDE DEF g
    <3>. QED
      BY <2>5, <3>1
  <2>7. IsFold(aspects, base, ctx, g, D)
    BY <2>6 DEF IsFold
  <2>. QED
    BY <2>7
<1>3. \A m \in Nat : m \in Has => m + 1 \in Has
  BY <1>2
<1>. HIDE DEF Has
<1>4. n \in Has
  BY <1>1, <1>3, SetInduction
<1>5. (n + 1) - n = 1
  OBVIOUS
<1>. QED
  BY <1>4, <1>5 DEF Has
-----------------------------------------------------------------------------
(* A list with all the members of a set.                                    *)
Lists(list, S) ==
  /\ list \in [1..Cardinality(S) -> S]
  /\ \A t \in S : \E k \in 1..Cardinality(S) : list[k] = t

(* x and y have the same keys in these aspects.                             *)
SameKeys(aspects, ctx, from, upto, x, y) ==
  \A q \in from..upto : Key(aspects[q], x, ctx) = Key(aspects[q], y, ctx)

(* x comes before y by the aspects from the kth on.                         *)
Precedes(aspects, ctx, k, x, y) ==
  \/ SingletonKey(x) < SingletonKey(y)
  \/ /\ SingletonKey(x) = SingletonKey(y)
     /\ \/ \E m \in k..Len(aspects) : /\ Key(aspects[m], x, ctx) < Key(aspects[m], y, ctx)
                                      /\ SameKeys(aspects, ctx, k, m - 1, x, y)
        \/ SameKeys(aspects, ctx, k, Len(aspects), x, y) /\ x < y

(* A list in that order.                                                    *)
Ordered(aspects, ctx, k, list) ==
  \A i, j \in DOMAIN list : i < j => Precedes(aspects, ctx, k, list[i], list[j])

(* Singleton or not is 1 or 0.                                              *)
LEMMA SingletonKeyIsInt == \A t : SingletonKey(t) \in Int
BY DEF SingletonKey

(* Sorted by an aspect, ties in the order they were in.                     *)
StablySorted(a, ctx, list, new) ==
  \A i, j \in DOMAIN new : i < j =>
    \/ SingletonKey(new[i]) < SingletonKey(new[j])
    \/ /\ SingletonKey(new[i]) = SingletonKey(new[j])
       /\ \/ Key(a, new[i], ctx) < Key(a, new[j], ctx)
          \/ /\ Key(a, new[i], ctx) = Key(a, new[j], ctx)
             /\ \E p, q \in DOMAIN list : p < q /\ new[i] = list[p] /\ new[j] = list[q]

(* A link of the chain keeps the members, and ties in their order.          *)
LEMMA LinkIsStable ==
  ASSUME NEW S \in SUBSET Tests, NEW list, Lists(list, S), NEW a, NEW ctx,
         \A t \in Tests : Key(a, t, ctx) \in Int
  PROVE  Lists(Link(a, list, ctx), S) /\ StablySorted(a, ctx, list, Link(a, list, ctx))
<1>. DEFINE n == Cardinality(S)
            D == 1..n
            key == [i \in D |-> <<SingletonKey(list[i]), [t \in Tests |-> Key(a, t, ctx)][list[i]]>>]
            p == SortedBy(D, key)
            new == Link(a, list, ctx)
<1>0. n \in Nat /\ IsFiniteSet(S)
  BY HistoryConstantsOK, FS_Subset, FS_CardinalityType
<1>1. DOMAIN list = D /\ list \in [D -> S]
  BY DEF Lists
<1>2. \A i \in D : key[i] = <<SingletonKey(list[i]), Key(a, list[i], ctx)>>
  BY <1>1
<1>3. \A i \in D : key[i] \in Int \X Int
  BY <1>1, <1>2, SingletonKeyIsInt
<1>4. D \in SUBSET Int /\ IsFiniteSet(D) /\ Cardinality(D) = n
  BY <1>0, FS_Interval
<1>5. new = [k \in D |-> list[p[k]]]
  BY <1>1 DEF Link, StableSort
<1>. HIDE DEF key, p, new
<1>6. /\ p \in [D -> D]
      /\ \A i \in D : \E k \in D : p[k] = i
      /\ \A k, l \in D : k < l => Before(key, p[k], p[l])
  <2>. HIDE DEF D, n
  <2>1. /\ p \in [1..Cardinality(D) -> D]
        /\ \A i \in D : \E k \in 1..Cardinality(D) : p[k] = i
        /\ \A k, l \in 1..Cardinality(D) : k < l => Before(key, p[k], p[l])
    <3>. HIDE DEF key
    <3>1. /\ SortedBy(D, key) \in [1..Cardinality(D) -> D]
          /\ \A i \in D : \E k \in 1..Cardinality(D) : SortedBy(D, key)[k] = i
          /\ \A k, l \in 1..Cardinality(D) :
               k < l => Before(key, SortedBy(D, key)[k], SortedBy(D, key)[l])
      BY <1>3, <1>4, SortedByIsSorted
    <3>. QED
      BY <3>1 DEF p
  <2>2. 1..Cardinality(D) = D
    BY <1>4 DEF D
  <2>. QED
    BY <2>1, <2>2
<1>7. Lists(new, S)
  <2>1. new \in [D -> S]
    BY <1>1, <1>5, <1>6
  <2>2. ASSUME NEW t \in S PROVE \E k \in D : new[k] = t
    <3>1. PICK i \in D : list[i] = t
      BY DEF Lists
    <3>2. PICK k \in D : p[k] = i
      BY <1>6
    <3>. QED
      BY <1>5, <3>1, <3>2
  <2>. QED
    BY <2>1, <2>2 DEF Lists
<1>8. ASSUME NEW i \in DOMAIN new, NEW j \in DOMAIN new, i < j
      PROVE  \/ SingletonKey(new[i]) < SingletonKey(new[j])
             \/ /\ SingletonKey(new[i]) = SingletonKey(new[j])
                /\ \/ Key(a, new[i], ctx) < Key(a, new[j], ctx)
                   \/ /\ Key(a, new[i], ctx) = Key(a, new[j], ctx)
                      /\ \E x, y \in DOMAIN list : x < y /\ new[i] = list[x] /\ new[j] = list[y]
  <2>1. i \in D /\ j \in D /\ new[i] = list[p[i]] /\ new[j] = list[p[j]]
    BY <1>5
  <2>2. /\ key[p[i]][1] = SingletonKey(new[i]) /\ key[p[i]][2] = Key(a, new[i], ctx)
        /\ key[p[j]][1] = SingletonKey(new[j]) /\ key[p[j]][2] = Key(a, new[j], ctx)
    <3>1. p[i] \in D /\ p[j] \in D
      BY <1>6, <2>1
    <3>2. /\ key[p[i]] = <<SingletonKey(list[p[i]]), Key(a, list[p[i]], ctx)>>
          /\ key[p[j]] = <<SingletonKey(list[p[j]]), Key(a, list[p[j]], ctx)>>
      BY <1>2, <3>1
    <3>. QED
      BY <2>1, <3>2
  <2>3. Before(key, p[i], p[j])
    BY <1>6, <1>8, <2>1
  <2>4. p[i] \in DOMAIN list /\ p[j] \in DOMAIN list
    BY <1>1, <1>6, <2>1
  <2>. QED
    BY <2>1, <2>2, <2>3, <2>4 DEF Before
<1>. QED
  BY <1>7, <1>8 DEF StablySorted, new

(* The chain starts with the names in order: that of no aspect at all.      *)
LEMMA NameOrder ==
  ASSUME NEW S \in SUBSET Tests, NEW ctx, NEW aspects \in Seq(Aspects)
  PROVE  Lists(Alphabetical(S), S) /\ Ordered(aspects, ctx, Len(aspects) + 1, Alphabetical(S))
<1>. DEFINE key == [t \in S |-> <<SingletonKey(t), t>>]
            list == Alphabetical(S)
<1>1. S \in SUBSET Int /\ IsFiniteSet(S)
  <2>1. Tests \subseteq Nat /\ IsFiniteSet(Tests)
    BY HistoryConstantsOK
  <2>2. IsFiniteSet(S)
    BY <2>1, FS_Subset
  <2>. QED
    BY <2>1, <2>2
<1>2. \A t \in S : key[t] \in Int \X Int /\ key[t][1] = SingletonKey(t) /\ key[t][2] = t
  BY <1>1, SingletonKeyIsInt
<1>3. list = SortedBy(S, key)
  BY DEF Alphabetical
<1>. HIDE DEF key, list
<1>4. /\ list \in [1..Cardinality(S) -> S]
      /\ \A t \in S : \E k \in 1..Cardinality(S) : list[k] = t
      /\ \A k, l \in 1..Cardinality(S) : k < l => Before(key, list[k], list[l])
  BY <1>1, <1>2, <1>3, SortedByIsSorted
<1>5. Lists(list, S)
  BY <1>4 DEF Lists
<1>6. ASSUME NEW i \in DOMAIN list, NEW j \in DOMAIN list, i < j
      PROVE  Precedes(aspects, ctx, Len(aspects) + 1, list[i], list[j])
  <2>1. Before(key, list[i], list[j]) /\ list[i] \in S /\ list[j] \in S
    BY <1>4, <1>6
  <2>2. \/ SingletonKey(list[i]) < SingletonKey(list[j])
        \/ SingletonKey(list[i]) = SingletonKey(list[j]) /\ list[i] < list[j]
    BY <1>1, <1>2, <2>1 DEF Before
  <2>3. Len(aspects) \in Nat
    OBVIOUS
  <2>4. (Len(aspects) + 1)..Len(aspects) = {}
    BY <2>3
  <2>5. SameKeys(aspects, ctx, Len(aspects) + 1, Len(aspects), list[i], list[j])
    BY <2>4 DEF SameKeys
  <2>. QED
    BY <2>2, <2>5 DEF Precedes
<1>. QED
  BY <1>5, <1>6 DEF list, Ordered

(* A link for the kth aspect after those from the next on.                  *)
LEMMA LinkExtends ==
  ASSUME NEW S \in SUBSET Tests, NEW list, Lists(list, S), NEW ctx, NEW aspects \in Seq(Aspects),
         NEW k \in 1..Len(aspects), \A t \in Tests, a \in Aspects : Key(a, t, ctx) \in Int,
         Ordered(aspects, ctx, k + 1, list)
  PROVE  Lists(Link(aspects[k], list, ctx), S) /\ Ordered(aspects, ctx, k, Link(aspects[k], list, ctx))
<1>. DEFINE a == aspects[k]
            n == Len(aspects)
            new == Link(a, list, ctx)
<1>0. n \in Nat /\ k \in 1..n /\ a \in Aspects
  OBVIOUS
<1>1. \A t \in Tests : Key(a, t, ctx) \in Int
  BY <1>0
<1>. HIDE DEF a
<1>2. Lists(new, S) /\ StablySorted(a, ctx, list, new)
  BY <1>1, LinkIsStable
<1>. HIDE DEF new
<1>3. ASSUME NEW i \in DOMAIN new, NEW j \in DOMAIN new, i < j
      PROVE  Precedes(aspects, ctx, k, new[i], new[j])
  <2>. DEFINE x == new[i]
              y == new[j]
  <2>. HIDE DEF x, y, n
  <2>1. SingletonKey(x) < SingletonKey(y) => Precedes(aspects, ctx, k, x, y)
    BY DEF Precedes
  <2>2. ASSUME SingletonKey(x) = SingletonKey(y), Key(a, x, ctx) < Key(a, y, ctx)
        PROVE  Precedes(aspects, ctx, k, x, y)
    <3>1. SameKeys(aspects, ctx, k, k - 1, x, y)
      <4>1. k..(k - 1) = {}
        BY <1>0
      <4>. QED
        BY <4>1 DEF SameKeys
    <3>2. k \in k..Len(aspects)
      BY <1>0 DEF n
    <3>. QED
      BY <2>2, <3>1, <3>2 DEF Precedes, a
  <2>3. ASSUME SingletonKey(x) = SingletonKey(y), Key(a, x, ctx) = Key(a, y, ctx),
               NEW p \in DOMAIN list, NEW q \in DOMAIN list, p < q, x = list[p], y = list[q]
        PROVE  Precedes(aspects, ctx, k, x, y)
    <3>1. Precedes(aspects, ctx, k + 1, x, y)
      BY <2>3 DEF Ordered
    <3>2. \A m \in k..n : SameKeys(aspects, ctx, k + 1, m, x, y) => SameKeys(aspects, ctx, k, m, x, y)
      <4>. SUFFICES ASSUME NEW m \in k..n, SameKeys(aspects, ctx, k + 1, m, x, y), NEW r \in k..m
                    PROVE  Key(aspects[r], x, ctx) = Key(aspects[r], y, ctx)
        BY DEF SameKeys
      <4>1. r = k \/ r \in (k + 1)..m
        BY <1>0
      <4>. QED
        BY <2>3, <4>1 DEF SameKeys, a
    <3>3. ~ (SingletonKey(x) < SingletonKey(y))
      BY <2>3, SingletonKeyIsInt
    <3>4. CASE SameKeys(aspects, ctx, k + 1, Len(aspects), x, y) /\ x < y
      <4>1. SameKeys(aspects, ctx, k, Len(aspects), x, y)
        BY <1>0, <3>2, <3>4 DEF n
      <4>. QED
        BY <2>3, <3>4, <4>1 DEF Precedes
    <3>5. CASE \E m \in (k + 1)..Len(aspects) : /\ Key(aspects[m], x, ctx) < Key(aspects[m], y, ctx)
                                                /\ SameKeys(aspects, ctx, k + 1, m - 1, x, y)
      <4>1. PICK m \in (k + 1)..Len(aspects) : /\ Key(aspects[m], x, ctx) < Key(aspects[m], y, ctx)
                                               /\ SameKeys(aspects, ctx, k + 1, m - 1, x, y)
        BY <3>5
      <4>2. m \in k..Len(aspects) /\ m - 1 \in k..n
        BY <1>0 DEF n
      <4>3. SameKeys(aspects, ctx, k, m - 1, x, y)
        BY <3>2, <4>1, <4>2
      <4>. QED
        BY <2>3, <4>1, <4>2, <4>3 DEF Precedes
    <3>. QED
      BY <3>1, <3>3, <3>4, <3>5 DEF Precedes
  <2>. QED
    BY <1>2, <1>3, <2>1, <2>2, <2>3 DEF x, y, StablySorted
<1>. QED
  BY <1>2, <1>3 DEF Ordered, new, a

(* A chain of stable sorts, the last of them by the aspect that counts      *)
(* most, is the lexicographic order.                                        *)
LEMMA ChainIsLexicographic ==
  ASSUME NEW S \in SUBSET Tests, NEW ctx, NEW aspects \in Seq(Aspects),
         \A t \in Tests, a \in Aspects : Key(a, t, ctx) \in Int
  PROVE  LET order == ApplyOrderingAspects(S, aspects, ctx) IN
         Lists(order, S) /\ Ordered(aspects, ctx, 1, order)
<1>. DEFINE n == Len(aspects)
            base == Alphabetical(S)
            f == CHOOSE g : IsFold(aspects, base, ctx, g, 1..n)
            Good(list, k) == Lists(list, S) /\ Ordered(aspects, ctx, k, list)
            Right == {m \in Nat : m =< n => Good(f[((n + 1) - m)..n], (n + 1) - m)}
<1>0. n \in Nat /\ DOMAIN aspects = 1..n
  OBVIOUS
<1>1. IsFold(aspects, base, ctx, f, 1..n)
  <2>. HIDE DEF n, base
  <2>. QED
    BY <1>0, FoldExists
<1>2. ApplyOrderingAspects(S, aspects, ctx) = f[1..n]
  BY <1>0, FoldOfChain
<1>3. \A s \in SUBSET (1..n) : f[s] = Folded(aspects, base, ctx, f, s)
  <2>. HIDE DEF f, n, base
  <2>. QED
    BY <1>1 DEF IsFold
<1>. HIDE DEF f
<1>4. 0 \in Right
  <2>1. ((n + 1) - 0)..n = {} /\ (n + 1) - 0 = n + 1
    BY <1>0
  <2>2. f[{}] = base
    BY <1>3 DEF Folded
  <2>. QED
    BY <2>1, <2>2, NameOrder
<1>5. ASSUME NEW m \in Nat, m \in Right, m + 1 =< n
      PROVE  Good(f[((n + 1) - (m + 1))..n], (n + 1) - (m + 1))
  <2>. DEFINE k == (n + 1) - (m + 1)
  <2>1. k \in 1..n /\ k + 1 = (n + 1) - m
    BY <1>0, <1>5
  <2>2. Good(f[(k + 1)..n], k + 1)
    BY <1>0, <1>5, <2>1
  <2>. HIDE DEF k, n
  <2>3. Lowest(k..n) = k
    <3>1. k..n \in SUBSET Nat /\ k \in k..n
      BY <1>0, <2>1
    <3>2. Lowest(k..n) \in k..n /\ Lowest(k..n) =< k
      BY <3>1, LowestIsLowest
    <3>. QED
      BY <1>0, <2>1, <3>2
  <2>4. (k..n) \ {k} = (k + 1)..n
    BY <1>0, <2>1
  <2>5. k..n \in SUBSET (1..n) /\ k..n # {}
    <3>1. k \in k..n
      BY <1>0, <2>1
    <3>2. k..n \in SUBSET (1..n)
      BY <1>0, <2>1
    <3>. QED
      BY <3>1, <3>2
  <2>6. f[k..n] = Link(aspects[k], f[(k + 1)..n], ctx)
    BY <1>3, <2>3, <2>4, <2>5 DEF Folded
  <2>7. Good(f[k..n], k)
    BY <2>1, <2>2, <2>6, LinkExtends DEF n
  <2>. QED
    BY <2>7 DEF k
<1>6. \A m \in Nat : m \in Right => m + 1 \in Right
  BY <1>5
<1>. HIDE DEF Right
<1>7. n \in Right
  BY <1>0, <1>4, <1>6, SetInduction
<1>8. (n + 1) - n = 1
  BY <1>0
<1>. QED
  BY <1>0, <1>2, <1>7, <1>8 DEF Right
-----------------------------------------------------------------------------
(* The invariant                                                            *)

(* What a fingerprint may be.                                               *)
Fingerprints == Nat \X {"clean", "dirty"}

(* The records.                                                             *)
Record ==
  [run : Nat, name : Tests, pid : BOOLEAN,
   code : {"NONE", "OK", "FAILED", "TERMINATED", "STOPPED"}, ts : Nat, fp : Fingerprints, on : Nat]

(* The types.                                                               *)
TypeInv ==
  /\ rows \in Seq(Record) /\ now \in Nat /\ guid \in 0..MaxRuns
  /\ tree \in [now : 1..MaxTree, head : 1..MaxTree, dirty : BOOLEAN]
  /\ phase \in {"idle", "prepared", "running"}
  /\ queue \in Seq(Tests)
  /\ genuine \in [Tests -> {<<>>} \cup (Nat \X (Nat \ {0}))]

(* What is planned is planned for the program as it is.                     *)
PlanInv ==
  phase # "idle" =>
    /\ guid >= 1 /\ plan.order \in Seq(Tests)
    /\ plan.on = tree.now /\ plan.fp = Fingerprint
    /\ tree.dirty => DirtyRuns

(* No record is of a run to come, and who passed has run.                   *)
RunsInv ==
  /\ \A i \in DOMAIN rows : rows[i].run =< guid
  /\ \A i \in DOMAIN rows : rows[i].code = "OK" => rows[i].pid

(* If only clean trees are tested, a fingerprint tells what was tested; and *)
(* if nobody resumes regardless, all records of a run have the same.        *)
FingerprintInv ==
  /\ ~ tree.dirty => tree.now = tree.head
  /\ ~ DirtyRuns => \A i \in DOMAIN rows : rows[i].code = "OK" => rows[i].fp = <<rows[i].on, "clean">>
  /\ "resume" \notin modes =>
       /\ \A i, j \in DOMAIN rows : rows[i].run = rows[j].run => rows[i].fp = rows[j].fp
       /\ phase # "idle" => \A i \in DOMAIN rows : rows[i].run = guid => rows[i].fp = plan.fp

(* Nothing is in the list twice.                                            *)
NoRepeats(list) == \A i, j \in DOMAIN list : list[i] = list[j] => i = j

(* What is still to be started is there once, and was not started before.   *)
QueueInv ==
  /\ phase = "prepared" =>
       /\ NoRepeats(plan.order)
       /\ \A i \in DOMAIN rows, k \in DOMAIN plan.order :
            rows[i].run = guid => rows[i].name # plan.order[k]
  /\ phase = "running" =>
       /\ NoRepeats(queue)
       /\ \A i \in DOMAIN rows, k \in DOMAIN queue :
            rows[i].run = guid /\ rows[i].pid => rows[i].name # queue[k]

(* The ith record is a pass of t.                                           *)
Passed(i, t) == i \in DOMAIN rows /\ rows[i].name = t /\ rows[i].code = "OK"
(* The ith record says that t had a process in run r.                       *)
Started(i, t, r) == i \in DOMAIN rows /\ rows[i].name = t /\ rows[i].run = r /\ rows[i].pid

(* The records of the last run in which a test passed are about its last    *)
(* execution that passed, original or copied.                               *)
PassInv(t) ==
  /\ genuine[t] = <<>> => \A i : ~ Passed(i, t)
  /\ genuine[t] # <<>> => \E i : Passed(i, t)
  /\ \A p : Passed(p, t) /\ (\A j : Passed(j, t) => rows[j].run =< rows[p].run) =>
       /\ rows[p].ts = genuine[t][1] + genuine[t][2]
       /\ \E i : Started(i, t, rows[p].run) /\ rows[i].ts = genuine[t][1]
       /\ \A i : Started(i, t, rows[p].run) => genuine[t][1] =< rows[i].ts

(* The inductive invariant.                                                 *)
HistoryInv ==
  TypeInv /\ PlanInv /\ RunsInv /\ FingerprintInv /\ QueueInv /\ \A t \in Tests : PassInv(t)


(* Node ids are numbers.                                                    *)
LEMMA TestsAreNumbers == \A t \in Tests : t \in Nat /\ t \in Int
BY HistoryConstantsOK

(* The table has grown by some records.                                     *)
Grown(old, add, new) ==
  /\ \A i \in DOMAIN old : i \in DOMAIN new /\ new[i] = old[i]
  /\ \A i \in DOMAIN new : \/ i \in DOMAIN old /\ new[i] = old[i]
                           \/ \E k \in DOMAIN add : new[i] = add[k]
  /\ \A k \in DOMAIN add : \E i \in DOMAIN new : new[i] = add[k]

(* A concatenation has the records of both, and no others.                  *)
LEMMA Appended ==
  ASSUME NEW old \in Seq(Record), NEW add \in Seq(Record), NEW new, new = old \o add
  PROVE  new \in Seq(Record) /\ Grown(old, add, new)
<1>1. Len(old) \in Nat /\ Len(add) \in Nat /\ DOMAIN old = 1..Len(old) /\ DOMAIN add = 1..Len(add)
  OBVIOUS
<1>2. new \in Seq(Record) /\ DOMAIN new = 1..(Len(old) + Len(add))
  OBVIOUS
<1>3. \A i \in 1..(Len(old) + Len(add)) : new[i] = IF i =< Len(old) THEN old[i] ELSE add[i - Len(old)]
  OBVIOUS
<1>4. \A i \in DOMAIN old : i \in DOMAIN new /\ new[i] = old[i]
  BY <1>1, <1>2, <1>3
<1>5. ASSUME NEW i \in DOMAIN new
      PROVE  \/ i \in DOMAIN old /\ new[i] = old[i]
             \/ \E k \in DOMAIN add : new[i] = add[k]
  <2>1. CASE i =< Len(old)
    BY <1>1, <1>2, <1>3, <2>1
  <2>2. CASE ~ (i =< Len(old))
    <3>1. i - Len(old) \in DOMAIN add
      BY <1>1, <1>2, <2>2
    <3>. QED
      BY <1>2, <1>3, <2>2, <3>1
  <2>. QED
    BY <2>1, <2>2
<1>6. ASSUME NEW k \in DOMAIN add PROVE \E i \in DOMAIN new : new[i] = add[k]
  <2>1. Len(old) + k \in DOMAIN new /\ ~ (Len(old) + k =< Len(old)) /\ (Len(old) + k) - Len(old) = k
    BY <1>1, <1>2
  <2>2. new[Len(old) + k] = add[k]
    BY <1>2, <1>3, <2>1
  <2>. QED
    BY <2>1, <2>2
<1>. QED
  BY <1>2, <1>4, <1>5, <1>6 DEF Grown

(* What a copy has of its original: everything but the run.                 *)
IsCopy(x, y, r) ==
  /\ x.run = r /\ x.name = y.name /\ x.pid = y.pid /\ x.code = y.code
  /\ x.ts = y.ts /\ x.fp = y.fp /\ x.on = y.on

(* The records of the skipped tests are copied, and no others.              *)
LEMMA CopiesAreExact ==
  ASSUME rows \in Seq(Record), NEW prior \in SUBSET (DOMAIN rows), NEW skipped, NEW r \in Nat
  PROVE  LET add == CarriedOver(prior, skipped, r) IN
         /\ add \in Seq(Record)
         /\ \A k \in DOMAIN add : \E i \in prior : rows[i].name \in skipped /\ IsCopy(add[k], rows[i], r)
         /\ \A i \in prior : rows[i].name \in skipped => \E k \in DOMAIN add : IsCopy(add[k], rows[i], r)
<1>. DEFINE mine == {i \in prior : rows[i].name \in skipped}
            key == [i \in mine |-> <<rows[i].name, i>>]
            order == SortedBy(mine, key)
            n == Cardinality(mine)
            add == CarriedOver(prior, skipped, r)
<1>1. mine \in SUBSET Int /\ IsFiniteSet(mine)
  <2>1. DOMAIN rows = 1..Len(rows) /\ Len(rows) \in Nat
    OBVIOUS
  <2>2. IsFiniteSet(DOMAIN rows)
    BY <2>1, FS_Interval
  <2>3. mine \in SUBSET (DOMAIN rows)
    OBVIOUS
  <2>4. IsFiniteSet(mine)
    BY <2>2, <2>3, FS_Subset
  <2>. QED
    BY <2>1, <2>3, <2>4
<1>2. \A i \in DOMAIN rows : rows[i] \in Record
  OBVIOUS
<1>3. \A i \in mine : key[i] \in Int \X Int
  <2>. SUFFICES ASSUME NEW i \in mine PROVE key[i] \in Int \X Int
    OBVIOUS
  <2>1. rows[i].name \in Int
    <3>1. rows[i].name \in Tests
      BY <1>2 DEF Record
    <3>. QED
      BY <3>1, TestsAreNumbers
  <2>2. key[i] = <<rows[i].name, i>> /\ i \in Int
    BY <1>1
  <2>. QED
    BY <2>1, <2>2
<1>4. /\ n \in Nat /\ order \in [1..n -> mine]
      /\ \A i \in mine : \E k \in 1..n : order[k] = i
  <2>. HIDE DEF mine, key
  <2>. QED
    BY <1>1, <1>3, SortedByIsSorted
<1>5. add = [k \in 1..n |-> [rows[order[k]] EXCEPT !.run = r]]
  <2>1. add = [k \in DOMAIN order |-> [rows[order[k]] EXCEPT !.run = r]]
    BY DEF CarriedOver
  <2>. QED
    BY <1>4, <2>1
<1>. HIDE DEF order, add, n
<1>6. ASSUME NEW k \in 1..n PROVE add[k] \in Record /\ IsCopy(add[k], rows[order[k]], r)
  <2>1. order[k] \in mine /\ order[k] \in DOMAIN rows
    BY <1>4
  <2>2. rows[order[k]] \in Record
    BY <1>2, <2>1
  <2>3. add[k] = [rows[order[k]] EXCEPT !.run = r]
    BY <1>5
  <2>. QED
    BY <2>2, <2>3 DEF Record, IsCopy
<1>7. add \in Seq(Record) /\ DOMAIN add = 1..n
  <2>1. add \in [1..n -> Record]
    BY <1>5, <1>6
  <2>. QED
    BY <1>4, <2>1
<1>8. \A k \in DOMAIN add : \E i \in prior : rows[i].name \in skipped /\ IsCopy(add[k], rows[i], r)
  BY <1>4, <1>6, <1>7
<1>9. ASSUME NEW i \in prior, rows[i].name \in skipped
      PROVE  \E k \in DOMAIN add : IsCopy(add[k], rows[i], r)
  <2>1. i \in mine
    BY <1>9
  <2>2. PICK k \in 1..n : order[k] = i
    BY <1>4, <2>1
  <2>. QED
    BY <1>6, <1>7, <2>2
<1>. QED
  BY <1>7, <1>8, <1>9 DEF add


(* Records that are no pass of a test, nor of an execution in a run in      *)
(* which it has passed, change nothing about its last pass.                 *)
LEMMA PassStays ==
  ASSUME rows \in Seq(Record), NEW u \in Tests, PassInv(u),
         NEW add \in Seq(Record), Grown(rows, add, rows'), genuine'[u] = genuine[u],
         \A k \in DOMAIN add : add[k].name = u =>
           /\ add[k].code # "OK"
           /\ add[k].pid => \A i : Passed(i, u) => rows[i].run # add[k].run
  PROVE  PassInv(u)'
<1>1. /\ \A i \in DOMAIN rows : i \in DOMAIN rows' /\ rows'[i] = rows[i]
      /\ \A i \in DOMAIN rows' : \/ i \in DOMAIN rows /\ rows'[i] = rows[i]
                                 \/ \E k \in DOMAIN add : rows'[i] = add[k]
  BY DEF Grown
<1>2. \A i : Passed(i, u)' <=> Passed(i, u)
  BY <1>1 DEF Passed
<1>3. \A i : Passed(i, u) => rows'[i] = rows[i]
  BY <1>1 DEF Passed
<1>4. \A i, p : Passed(p, u) => (Started(i, u, rows[p].run)' <=> Started(i, u, rows[p].run))
  <2>. SUFFICES ASSUME NEW i, NEW p, Passed(p, u)
                PROVE  Started(i, u, rows[p].run)' <=> Started(i, u, rows[p].run)
    OBVIOUS
  <2>1. rows'[p].run = rows[p].run
    BY <1>3
  <2>2. Started(i, u, rows[p].run) => Started(i, u, rows[p].run)'
    BY <1>1, <2>1 DEF Started
  <2>3. ASSUME Started(i, u, rows[p].run)' PROVE Started(i, u, rows[p].run)
    <3>1. i \in DOMAIN rows' /\ rows'[i].name = u /\ rows'[i].run = rows[p].run /\ rows'[i].pid
      BY <2>1, <2>3 DEF Started
    <3>2. CASE i \in DOMAIN rows /\ rows'[i] = rows[i]
      BY <3>1, <3>2 DEF Started
    <3>3. CASE \E k \in DOMAIN add : rows'[i] = add[k]
      BY <3>1, <3>3
    <3>. QED
      BY <1>1, <3>1, <3>2, <3>3
  <2>. QED
    BY <2>2, <2>3
<1>5. \A i, p : Started(i, u, rows[p].run) => rows'[i] = rows[i]
  BY <1>1 DEF Started
<1>6. genuine'[u] = <<>> => \A i : ~ Passed(i, u)'
  BY <1>2 DEF PassInv
<1>7. genuine'[u] # <<>> => \E i : Passed(i, u)'
  BY <1>2 DEF PassInv
<1>8. ASSUME NEW p, Passed(p, u)', \A j : Passed(j, u)' => rows'[j].run =< rows'[p].run
      PROVE  /\ rows'[p].ts = genuine'[u][1] + genuine'[u][2]
             /\ \E i : Started(i, u, rows[p].run)' /\ rows'[i].ts = genuine'[u][1]
             /\ \A i : Started(i, u, rows[p].run)' => genuine'[u][1] =< rows'[i].ts
             /\ rows'[p].run = rows[p].run
  <2>1. Passed(p, u) /\ \A j : Passed(j, u) => rows[j].run =< rows[p].run
    BY <1>2, <1>3, <1>8
  <2>2. /\ rows[p].ts = genuine[u][1] + genuine[u][2]
        /\ \E i : Started(i, u, rows[p].run) /\ rows[i].ts = genuine[u][1]
        /\ \A i : Started(i, u, rows[p].run) => genuine[u][1] =< rows[i].ts
    BY <2>1 DEF PassInv
  <2>. QED
    BY <1>3, <1>4, <1>5, <2>1, <2>2
<1>. QED
  BY <1>6, <1>7, <1>8 DEF PassInv

(* A test had no process in a run, and passed in none after it.             *)
NoneIn(u, r) ==
  /\ \A i : Passed(i, u) => rows[i].run < r
  /\ \A i : ~ Started(i, u, r)

(* It runs and passes.                                                      *)
AddsPass(add, u, r, begun, took) ==
  /\ \E k \in DOMAIN add : add[k].name = u /\ add[k].code = "OK"
  /\ \A k \in DOMAIN add :
       add[k].name = u /\ add[k].code = "OK" => add[k].run = r /\ add[k].ts = begun + took
  /\ \E k \in DOMAIN add :
       add[k].name = u /\ add[k].run = r /\ add[k].pid /\ add[k].ts = begun
  /\ \A k \in DOMAIN add : add[k].name = u /\ add[k].pid => begun =< add[k].ts

(* The records of a test that passes, in a run in which it had no process.  *)
LEMMA PassIsNew ==
  ASSUME rows \in Seq(Record), NEW u \in Tests, NEW r \in Nat, NEW begun \in Nat, NEW took \in Nat,
         NEW add \in Seq(Record), Grown(rows, add, rows'), genuine'[u] = <<begun, took>>,
         NoneIn(u, r), AddsPass(add, u, r, begun, took)
  PROVE  PassInv(u)'
<1>1. /\ \A i \in DOMAIN rows : i \in DOMAIN rows' /\ rows'[i] = rows[i]
      /\ \A i \in DOMAIN rows' : \/ i \in DOMAIN rows /\ rows'[i] = rows[i]
                                 \/ \E k \in DOMAIN add : rows'[i] = add[k]
      /\ \A k \in DOMAIN add : \E i \in DOMAIN rows' : rows'[i] = add[k]
  BY DEF Grown
<1>2. \E i : Passed(i, u)' /\ rows'[i].run = r
  <2>1. PICK k \in DOMAIN add : add[k].name = u /\ add[k].code = "OK"
    BY DEF AddsPass
  <2>2. PICK i \in DOMAIN rows' : rows'[i] = add[k]
    BY <1>1
  <2>3. add[k].run = r
    BY <2>1 DEF AddsPass
  <2>. QED
    BY <2>1, <2>2, <2>3 DEF Passed
<1>3. genuine'[u] # <<>> /\ genuine'[u][1] = begun /\ genuine'[u][2] = took
  OBVIOUS
<1>4. ASSUME NEW p, Passed(p, u)', \A j : Passed(j, u)' => rows'[j].run =< rows'[p].run
      PROVE  /\ rows'[p].ts = genuine'[u][1] + genuine'[u][2]
             /\ \E i : Started(i, u, rows[p].run)' /\ rows'[i].ts = genuine'[u][1]
             /\ \A i : Started(i, u, rows[p].run)' => genuine'[u][1] =< rows'[i].ts
  <2>0. r =< rows'[p].run
    BY <1>2, <1>4
  <2>1. ~ (p \in DOMAIN rows /\ rows'[p] = rows[p])
    <3>. SUFFICES ASSUME p \in DOMAIN rows, rows'[p] = rows[p] PROVE FALSE
      OBVIOUS
    <3>1. rows[p].run < r
      BY <1>4 DEF Passed, NoneIn
    <3>2. rows[p].run \in Nat
      <4>1. rows[p] \in Record
        OBVIOUS
      <4>. QED
        BY <4>1 DEF Record
    <3>. QED
      BY <2>0, <3>1, <3>2
  <2>2. PICK k \in DOMAIN add : rows'[p] = add[k]
    BY <1>1, <1>4, <2>1 DEF Passed
  <2>3. rows'[p].run = r /\ rows'[p].ts = begun + took
    BY <1>4, <2>2 DEF Passed, AddsPass
  <2>4. \E i : Started(i, u, rows[p].run)' /\ rows'[i].ts = begun
    <3>1. PICK m \in DOMAIN add : /\ add[m].name = u /\ add[m].run = r /\ add[m].pid
                                  /\ add[m].ts = begun
      BY DEF AddsPass
    <3>2. PICK i \in DOMAIN rows' : rows'[i] = add[m]
      BY <1>1
    <3>. QED
      BY <2>3, <3>1, <3>2 DEF Started
  <2>5. ASSUME NEW i, Started(i, u, rows[p].run)' PROVE begun =< rows'[i].ts
    <3>1. i \in DOMAIN rows' /\ rows'[i].name = u /\ rows'[i].run = r /\ rows'[i].pid
      BY <2>3, <2>5 DEF Started
    <3>2. ~ (i \in DOMAIN rows /\ rows'[i] = rows[i])
      BY <3>1 DEF Started, NoneIn
    <3>. QED
      BY <1>1, <3>1, <3>2 DEF AddsPass
  <2>. QED
    BY <1>3, <2>3, <2>4, <2>5
<1>. QED
  BY <1>2, <1>3, <1>4 DEF PassInv

(* The records of the last run.                                             *)
IsLastRun(prior) ==
  /\ prior \subseteq DOMAIN rows
  /\ \A i \in prior, j \in DOMAIN rows :
       rows[j].run =< rows[i].run /\ (rows[j].run = rows[i].run => j \in prior)

(* The new records are copies of those, and all of u's are copied.          *)
AddsCopies(add, prior, u, r) ==
  /\ \A k \in DOMAIN add : \E i \in prior : IsCopy(add[k], rows[i], r)
  /\ \A i \in prior : rows[i].name = u => \E k \in DOMAIN add : IsCopy(add[k], rows[i], r)

(* The records of the last run of all, in which the test passed, copied to  *)
(* a new run.                                                               *)
LEMMA PassIsCopied ==
  ASSUME rows \in Seq(Record), NEW u \in Tests, PassInv(u), NEW r \in Nat,
         NEW add \in Seq(Record), Grown(rows, add, rows'), genuine'[u] = genuine[u],
         NEW prior, IsLastRun(prior), \A i \in DOMAIN rows : rows[i].run < r,
         AddsCopies(add, prior, u, r), \E i \in prior : Passed(i, u)
  PROVE  PassInv(u)'
<1>1. /\ \A i \in DOMAIN rows : i \in DOMAIN rows' /\ rows'[i] = rows[i]
      /\ \A i \in DOMAIN rows' : \/ i \in DOMAIN rows /\ rows'[i] = rows[i]
                                 \/ \E k \in DOMAIN add : rows'[i] = add[k]
      /\ \A k \in DOMAIN add : \E i \in DOMAIN rows' : rows'[i] = add[k]
  BY DEF Grown
<1>2. \A i \in DOMAIN rows : rows[i].run \in Nat
  <2>1. \A i \in DOMAIN rows : rows[i] \in Record
    OBVIOUS
  <2>. QED
    BY <2>1 DEF Record
<1>3. \A i \in DOMAIN rows' : rows'[i].run = r => \E j \in prior : IsCopy(rows'[i], rows[j], r)
  <2>. SUFFICES ASSUME NEW i \in DOMAIN rows', rows'[i].run = r
                PROVE  \E j \in prior : IsCopy(rows'[i], rows[j], r)
    OBVIOUS
  <2>1. ~ (i \in DOMAIN rows /\ rows'[i] = rows[i])
    BY <1>2
  <2>. QED
    BY <1>1, <2>1 DEF AddsCopies
<1>4. \A j \in prior : rows[j].name = u => \E i \in DOMAIN rows' : IsCopy(rows'[i], rows[j], r)
  BY <1>1 DEF AddsCopies
<1>5. PICK q \in prior : Passed(q, u)
  OBVIOUS
<1>6. \E i : Passed(i, u)' /\ rows'[i].run = r
  <2>1. rows[q].name = u /\ rows[q].code = "OK"
    BY <1>5 DEF Passed
  <2>2. PICK i \in DOMAIN rows' : IsCopy(rows'[i], rows[q], r)
    BY <1>4, <2>1
  <2>. QED
    BY <2>1, <2>2 DEF Passed, IsCopy
<1>7. genuine'[u] # <<>>
  BY <1>5 DEF PassInv
<1>8. ASSUME NEW p, Passed(p, u)', \A j : Passed(j, u)' => rows'[j].run =< rows'[p].run
      PROVE  /\ rows'[p].ts = genuine'[u][1] + genuine'[u][2]
             /\ \E i : Started(i, u, rows[p].run)' /\ rows'[i].ts = genuine'[u][1]
             /\ \A i : Started(i, u, rows[p].run)' => genuine'[u][1] =< rows'[i].ts
  <2>1. rows'[p].run = r
    <3>1. r =< rows'[p].run
      BY <1>6, <1>8
    <3>2. ~ (p \in DOMAIN rows /\ rows'[p] = rows[p])
      BY <1>2, <3>1
    <3>. QED
      BY <1>1, <1>8, <3>2 DEF Passed, IsCopy, AddsCopies
  <2>2. PICK o \in prior : IsCopy(rows'[p], rows[o], r)
    BY <1>3, <1>8, <2>1 DEF Passed
  <2>3. Passed(o, u) /\ \A j : Passed(j, u) => rows[j].run =< rows[o].run
    <3>1. Passed(o, u)
      BY <1>8, <2>2 DEF Passed, IsCopy, IsLastRun
    <3>2. \A j \in DOMAIN rows : rows[j].run =< rows[o].run
      BY DEF IsLastRun
    <3>. QED
      BY <3>1, <3>2 DEF Passed
  <2>4. /\ rows[o].ts = genuine[u][1] + genuine[u][2]
        /\ \E i : Started(i, u, rows[o].run) /\ rows[i].ts = genuine[u][1]
        /\ \A i : Started(i, u, rows[o].run) => genuine[u][1] =< rows[i].ts
    BY <2>3 DEF PassInv
  <2>5. \E i : Started(i, u, rows[p].run)' /\ rows'[i].ts = genuine[u][1]
    <3>1. PICK m : Started(m, u, rows[o].run) /\ rows[m].ts = genuine[u][1]
      BY <2>4
    <3>2. m \in prior /\ rows[m].name = u /\ rows[m].pid
      BY <3>1 DEF Started, IsLastRun
    <3>3. PICK i \in DOMAIN rows' : IsCopy(rows'[i], rows[m], r)
      BY <1>4, <3>2
    <3>. QED
      <4>1. /\ rows'[i].name = u /\ rows'[i].run = r /\ rows'[i].pid
            /\ rows'[i].ts = genuine[u][1]
        BY <3>1, <3>2, <3>3 DEF IsCopy
      <4>. QED
        BY <2>1, <4>1 DEF Started
  <2>6. ASSUME NEW i, Started(i, u, rows[p].run)' PROVE genuine[u][1] =< rows'[i].ts
    <3>1. i \in DOMAIN rows' /\ rows'[i].name = u /\ rows'[i].run = r /\ rows'[i].pid
      BY <2>1, <2>6 DEF Started
    <3>2. PICK m \in prior : IsCopy(rows'[i], rows[m], r)
      BY <1>3, <3>1
    <3>3. Started(m, u, rows[o].run)
      <4>1. rows[m].run = rows[o].run
        <5>1. m \in DOMAIN rows /\ o \in DOMAIN rows
          BY DEF IsLastRun
        <5>2. rows[m].run =< rows[o].run /\ rows[o].run =< rows[m].run
          BY <5>1 DEF IsLastRun
        <5>. QED
          BY <1>2, <5>1, <5>2
      <4>. QED
        BY <3>1, <3>2, <4>1 DEF Started, IsCopy, IsLastRun
    <3>. QED
      BY <2>4, <3>2, <3>3 DEF IsCopy
  <2>. QED
    <3>1. rows'[p].ts = genuine[u][1] + genuine[u][2]
      BY <2>2, <2>4 DEF IsCopy
    <3>. QED
      BY <3>1, <2>5, <2>6
<1>. QED
  BY <1>6, <1>7, <1>8 DEF PassInv


(* The exit codes.                                                          *)
Codes == {"NONE", "OK", "FAILED", "TERMINATED", "STOPPED"}

(* What Row and StatusRow make is a record.                                 *)
LEMMA RowType ==
  ASSUME NEW r \in Nat, NEW t \in Tests, NEW pid \in BOOLEAN, NEW code \in Codes,
         NEW at \in Nat, NEW fp \in Fingerprints, NEW on \in Nat
  PROVE  /\ Row(r, t, pid, code, at, fp, on) \in Record
         /\ StatusRow(r, t, code, at, fp) \in Record
BY DEF Row, StatusRow, Record, Codes

(* A function on an initial interval is a sequence.                         *)
LEMMA ListType ==
  ASSUME NEW S, NEW list, NEW n \in Nat, DOMAIN list = 1..n, list = [k \in 1..n |-> list[k]],
         \A k \in 1..n : list[k] \in S
  PROVE  list \in Seq(S) /\ Len(list) = n
<1>1. list \in [1..n -> S]
  OBVIOUS
<1>. QED
  BY <1>1

(* The fields of a record.                                                  *)
LEMMA RowsAre ==
  ASSUME NEW table \in Seq(Record), NEW i \in DOMAIN table
  PROVE  /\ table[i] \in Record
         /\ table[i].run \in Nat /\ table[i].name \in Tests /\ table[i].pid \in BOOLEAN
         /\ table[i].code \in Codes /\ table[i].ts \in Nat /\ table[i].fp \in Fingerprints
         /\ table[i].on \in Nat
<1>1. table[i] \in Record
  OBVIOUS
<1>. QED
  BY <1>1 DEF Record, Codes

(* A fingerprint is one; that of a clean tree is its commit.                *)
LEMMA FingerprintType ==
  ASSUME TypeInv
  PROVE  /\ Fingerprint \in Fingerprints /\ tree.now \in Nat /\ tree.head \in Nat
         /\ Fingerprint[1] = tree.head
         /\ ~ tree.dirty => Fingerprint = <<tree.head, "clean">>
<1>1. tree.now \in Nat /\ tree.head \in Nat /\ tree.dirty \in BOOLEAN
  BY HistoryConstantsOK DEF TypeInv
<1>. QED
  BY <1>1 DEF Fingerprint, Fingerprints

(* The new records are of one run, all with its fingerprint.                *)
AddsTo(add, r, fp) ==
  \A k \in DOMAIN add :
    /\ add[k].run = r /\ add[k].fp = fp
    /\ ~ DirtyRuns /\ add[k].code = "OK" => fp = <<add[k].on, "clean">>

(* The run whose fingerprint this is goes on, if any does.                  *)
GoesOnWith(fp) ==
  phase' # "idle" => phase # "idle" /\ UNCHANGED guid /\ plan'.fp = plan.fp /\ fp = plan.fp

(* Such records keep the invariant about fingerprints.                      *)
LEMMA FingerprintsStay ==
  ASSUME TypeInv, FingerprintInv, NEW add \in Seq(Record), Grown(rows, add, rows'),
         UNCHANGED <<tree, modes>>, NEW r, NEW fp,
         AddsTo(add, r, fp), GoesOnWith(fp),
         "resume" \notin modes => \A i \in DOMAIN rows : rows[i].run = r => rows[i].fp = fp
  PROVE  FingerprintInv'
<1>1. /\ \A i \in DOMAIN rows' : \/ i \in DOMAIN rows /\ rows'[i] = rows[i]
                                 \/ \E k \in DOMAIN add : rows'[i] = add[k]
  BY DEF Grown
<1>2. ~ tree'.dirty => tree'.now = tree'.head
  BY DEF FingerprintInv
<1>3. ASSUME ~ DirtyRuns, NEW i \in DOMAIN rows', rows'[i].code = "OK"
      PROVE  rows'[i].fp = <<rows'[i].on, "clean">>
  <2>1. CASE i \in DOMAIN rows /\ rows'[i] = rows[i]
    BY <1>3, <2>1 DEF FingerprintInv
  <2>2. CASE \E k \in DOMAIN add : rows'[i] = add[k]
    BY <1>3, <2>2 DEF AddsTo
  <2>. QED
    BY <1>1, <2>1, <2>2
<1>4. ASSUME "resume" \notin modes, NEW i \in DOMAIN rows', rows'[i].run = r PROVE rows'[i].fp = fp
  BY <1>1, <1>4 DEF AddsTo
<1>5. ASSUME "resume" \notin modes, NEW i \in DOMAIN rows', NEW j \in DOMAIN rows',
             rows'[i].run = rows'[j].run
      PROVE  rows'[i].fp = rows'[j].fp
  <2>1. CASE rows'[i].run = r
    BY <1>4, <1>5, <2>1
  <2>2. CASE rows'[i].run # r
    <3>1. i \in DOMAIN rows /\ rows'[i] = rows[i] /\ j \in DOMAIN rows /\ rows'[j] = rows[j]
      BY <1>1, <1>5, <2>2 DEF AddsTo
    <3>. QED
      BY <1>5, <3>1 DEF FingerprintInv
  <2>. QED
    BY <2>1, <2>2
<1>6. ASSUME "resume" \notin modes, phase' # "idle", NEW i \in DOMAIN rows', rows'[i].run = guid'
      PROVE  rows'[i].fp = plan'.fp
  <2>1. CASE i \in DOMAIN rows /\ rows'[i] = rows[i]
    BY <1>6, <2>1 DEF FingerprintInv, GoesOnWith
  <2>2. CASE \E k \in DOMAIN add : rows'[i] = add[k]
    BY <1>6, <2>2 DEF AddsTo, GoesOnWith
  <2>. QED
    BY <1>1, <1>6, <2>1, <2>2
<1>. QED
  BY <1>2, <1>3, <1>5, <1>6 DEF FingerprintInv

(* Records of runs up to the last keep the invariant about runs.            *)
LEMMA RunsStay ==
  ASSUME TypeInv, RunsInv, NEW add \in Seq(Record), Grown(rows, add, rows'),
         guid' \in Nat, guid =< guid',
         \A k \in DOMAIN add : add[k].run =< guid' /\ (add[k].code = "OK" => add[k].pid)
  PROVE  RunsInv'
<1>1. /\ \A i \in DOMAIN rows' : \/ i \in DOMAIN rows /\ rows'[i] = rows[i]
                                 \/ \E k \in DOMAIN add : rows'[i] = add[k]
  BY DEF Grown
<1>2. ASSUME NEW i \in DOMAIN rows' PROVE rows'[i].run =< guid' /\ (rows'[i].code = "OK" => rows'[i].pid)
  <2>1. CASE i \in DOMAIN rows /\ rows'[i] = rows[i]
    <3>1. rows[i].run =< guid /\ rows[i].run \in Nat /\ guid \in Nat
      BY <2>1, RowsAre DEF RunsInv, TypeInv
    <3>2. rows[i].run =< guid'
      BY <3>1
    <3>. QED
      BY <2>1, <3>2 DEF RunsInv
  <2>2. CASE \E k \in DOMAIN add : rows'[i] = add[k]
    BY <2>2
  <2>. QED
    BY <1>1, <2>1, <2>2
<1>. QED
  BY <1>2 DEF RunsInv

(* Records of nobody's execution.                                           *)
LEMMA PassesStay ==
  ASSUME TypeInv, \A t \in Tests : PassInv(t), NEW add \in Seq(Record), Grown(rows, add, rows'),
         UNCHANGED genuine, \A k \in DOMAIN add : add[k].code # "OK" /\ ~ add[k].pid
  PROVE  \A t \in Tests : PassInv(t)'
BY PassStays DEF TypeInv


(* It holds at first.                                                       *)
LEMMA InitHistoryInv == Init => HistoryInv
<1>. SUFFICES ASSUME Init PROVE HistoryInv
  OBVIOUS
<1>1. rows = <<>> /\ rows \in Seq(Record) /\ DOMAIN rows = {}
  BY DEF Init
<1>2. TypeInv
  BY <1>1, HistoryConstantsOK DEF Init, TypeInv
<1>3. PlanInv /\ RunsInv /\ FingerprintInv /\ QueueInv
  BY <1>1 DEF Init, PlanInv, RunsInv, FingerprintInv, QueueInv
<1>4. \A t \in Tests : PassInv(t)
  BY <1>1 DEF Init, PassInv, Passed
<1>. QED
  BY <1>2, <1>3, <1>4 DEF HistoryInv

(* Steps that write no record.                                              *)
LEMMA QuietHistoryInv ==
  ASSUME HistoryInv, Edit \/ Checkout \/ AbortPreparation \/ FinishRun \/ AppCrash \/ UNCHANGED vars
  PROVE  HistoryInv'
<1>1. UNCHANGED <<rows, now, modes, guid, genuine>>
  BY DEF Edit, Checkout, AbortPreparation, FinishRun, AppCrash, vars
<1>2. \A t \in Tests : PassInv(t)'
  BY <1>1 DEF HistoryInv, PassInv, Passed, Started
<1>3. RunsInv'
  BY <1>1 DEF HistoryInv, RunsInv
<1>4. CASE Edit \/ Checkout
  <2>1. phase = "idle" /\ UNCHANGED <<phase, queue>>
    BY <1>4 DEF Edit, Checkout
  <2>0. tree \in [now : 1..MaxTree, head : 1..MaxTree, dirty : BOOLEAN]
    BY DEF HistoryInv, TypeInv
  <2>3. /\ tree' \in [now : 1..MaxTree, head : 1..MaxTree, dirty : BOOLEAN]
        /\ ~ tree'.dirty => tree'.now = tree'.head
    <3>1. CASE Edit
      <4>1. PICK v \in 1..MaxTree : tree' = [tree EXCEPT !.now = v, !.dirty = TRUE]
        BY <3>1 DEF Edit
      <4>2. tree' = [now |-> v, head |-> tree.head, dirty |-> TRUE]
        BY <2>0, <4>1
      <4>. QED
        BY <2>0, <4>2
    <3>2. CASE Checkout
      <4>1. PICK v \in 1..MaxTree : tree' = [now |-> v, head |-> v, dirty |-> FALSE]
        BY <3>2 DEF Checkout
      <4>. QED
        BY <4>1
    <3>. QED
      BY <1>4, <3>1, <3>2
  <2>2. TypeInv'
    BY <1>1, <2>1, <2>3 DEF HistoryInv, TypeInv
  <2>4. FingerprintInv'
    BY <1>1, <2>1, <2>3 DEF HistoryInv, FingerprintInv
  <2>5. PlanInv' /\ QueueInv'
    BY <2>1 DEF PlanInv, QueueInv
  <2>. QED
    BY <1>2, <1>3, <2>2, <2>4, <2>5 DEF HistoryInv
<1>5. CASE AbortPreparation \/ FinishRun \/ AppCrash
  <2>1. phase' = "idle" /\ UNCHANGED tree /\ queue' \in Seq(Tests)
    <3>1. queue \in Seq(Tests)
      BY DEF HistoryInv, TypeInv
    <3>2. phase' = "idle" /\ UNCHANGED tree
      BY <1>5 DEF AbortPreparation, FinishRun, AppCrash
    <3>3. queue' = queue \/ queue' = <<>>
      BY <1>5 DEF AbortPreparation, FinishRun, AppCrash
    <3>4. <<>> \in Seq(Tests)
      OBVIOUS
    <3>5. queue' \in Seq(Tests)
      BY <3>1, <3>3, <3>4
    <3>. QED
      BY <3>2, <3>5
  <2>2. TypeInv'
    BY <1>1, <2>1 DEF HistoryInv, TypeInv
  <2>3. FingerprintInv' /\ PlanInv' /\ QueueInv'
    BY <1>1, <2>1 DEF HistoryInv, FingerprintInv, PlanInv, QueueInv
  <2>. QED
    BY <1>2, <1>3, <2>2, <2>3 DEF HistoryInv
<1>6. CASE UNCHANGED vars
  <2>1. TypeInv' /\ PlanInv' /\ FingerprintInv' /\ QueueInv'
    BY <1>6 DEF vars, HistoryInv, TypeInv, PlanInv, FingerprintInv, QueueInv, Fingerprint
  <2>. QED
    BY <1>2, <1>3, <2>1 DEF HistoryInv
<1>. QED
  BY <1>4, <1>5, <1>6

(* The QUEUED records are of the new run and have no process.               *)
LEMMA EnqueueHistoryInv ==
  ASSUME HistoryInv, Enqueue
  PROVE  HistoryInv'
<1>. DEFINE add == [i \in DOMAIN plan.order |-> StatusRow(guid, plan.order[i], "NONE", now, plan.fp)]
<1>0. TypeInv /\ PlanInv /\ RunsInv /\ FingerprintInv /\ QueueInv /\ \A t \in Tests : PassInv(t)
  BY DEF HistoryInv
<1>1. /\ phase = "prepared" /\ phase' = "running" /\ queue' = plan.order /\ now' = now + 1
      /\ rows' = rows \o add
      /\ UNCHANGED <<tree, modes, guid, plan, genuine>>
  BY DEF Enqueue
<1>2. /\ guid \in Nat /\ now \in Nat /\ plan.order \in Seq(Tests) /\ plan.fp \in Fingerprints
      /\ rows \in Seq(Record)
  BY <1>0, <1>1, HistoryConstantsOK, FingerprintType DEF TypeInv, PlanInv
<1>3. add \in Seq(Record) /\ DOMAIN add = DOMAIN plan.order
  <2>1. ASSUME NEW i \in DOMAIN plan.order PROVE add[i] \in Record
    <3>1. plan.order[i] \in Tests /\ "NONE" \in Codes
      BY <1>2 DEF Codes
    <3>2. StatusRow(guid, plan.order[i], "NONE", now, plan.fp) \in Record
      BY <1>2, <3>1, RowType
    <3>. QED
      BY <3>2
  <2>2. DOMAIN plan.order = 1..Len(plan.order) /\ Len(plan.order) \in Nat
    BY <1>2
  <2>3. DOMAIN add = 1..Len(plan.order) /\ add = [k \in 1..Len(plan.order) |-> add[k]]
    BY <2>2
  <2>. QED
    BY <2>1, <2>2, <2>3, ListType
<1>4. \A k \in DOMAIN add : /\ add[k].run = guid /\ add[k].name = plan.order[k] /\ add[k].pid = FALSE
                            /\ add[k].code = "NONE" /\ add[k].fp = plan.fp
  BY DEF StatusRow, Row
<1>. HIDE DEF add
<1>5. rows' \in Seq(Record) /\ Grown(rows, add, rows')
  BY <1>1, <1>2, <1>3, Appended
<1>6. TypeInv'
  BY <1>0, <1>1, <1>2, <1>5 DEF TypeInv
<1>7. PlanInv'
  BY <1>0, <1>1 DEF PlanInv, Fingerprint
<1>8. RunsInv'
  <2>1. \A k \in DOMAIN add : add[k].run =< guid' /\ (add[k].code = "OK" => add[k].pid)
    BY <1>1, <1>2, <1>4
  <2>2. guid' \in Nat /\ guid =< guid'
    BY <1>1, <1>2
  <2>. QED
    BY <1>0, <1>3, <1>5, <2>1, <2>2, RunsStay
<1>9. FingerprintInv'
  <2>1. "resume" \notin modes => \A i \in DOMAIN rows : rows[i].run = guid => rows[i].fp = plan.fp
    BY <1>0, <1>1 DEF FingerprintInv
  <2>2. AddsTo(add, guid, plan.fp)
    BY <1>4 DEF AddsTo
  <2>3. GoesOnWith(plan.fp) /\ UNCHANGED <<tree, modes>>
    BY <1>1 DEF GoesOnWith
  <2>. QED
    BY <1>0, <1>3, <1>5, <2>1, <2>2, <2>3, FingerprintsStay
<1>10. QueueInv'
  <2>1. NoRepeats(queue')
    BY <1>0, <1>1 DEF QueueInv
  <2>2. ASSUME NEW i \in DOMAIN rows', NEW k \in DOMAIN queue', rows'[i].run = guid', rows'[i].pid
        PROVE  rows'[i].name # queue'[k]
    <3>1. CASE i \in DOMAIN rows /\ rows'[i] = rows[i]
      BY <1>0, <1>1, <2>2, <3>1 DEF QueueInv
    <3>2. CASE \E m \in DOMAIN add : rows'[i] = add[m]
      BY <1>4, <2>2, <3>2
    <3>. QED
      BY <1>5, <3>1, <3>2 DEF Grown
  <2>. QED
    BY <1>1, <2>1, <2>2 DEF QueueInv, NoRepeats
<1>11. \A t \in Tests : PassInv(t)'
  BY <1>0, <1>1, <1>3, <1>4, <1>5, PassesStay
<1>. QED
  BY <1>6, <1>7, <1>8, <1>9, <1>10, <1>11 DEF HistoryInv


(* The outcomes that leave a passing record.                                *)
Passing == {"OK", "OK_then_TERMINATED"}

(* The records of a test that runs.                                         *)
TestRecords(add, t, outcome) ==
  /\ \A k \in DOMAIN add :
       /\ add[k].run = guid /\ add[k].name = t /\ add[k].fp = plan.fp
       /\ add[k].code = "OK" =>
            outcome \in Passing /\ add[k].pid /\ add[k].ts = now + Takes[t][guid] /\ add[k].on = plan.on
       /\ add[k].pid => now =< add[k].ts
  /\ \E k \in DOMAIN add : add[k].pid /\ add[k].ts = now
  /\ outcome \in Passing => \E k \in DOMAIN add : add[k].code = "OK"

(* What a test that runs changes, apart from the records.                   *)
LEMMA RunTestFacts ==
  ASSUME HistoryInv, NEW outcome \in Outcomes, RunTest(outcome)
  PROVE  LET t == Head(queue) IN
         /\ phase = "running" /\ UNCHANGED <<tree, modes, guid, phase, plan>>
         /\ queue \in Seq(Tests) /\ queue # <<>> /\ queue' = Tail(queue) /\ t \in Tests
         /\ rows \in Seq(Record) /\ guid \in 1..MaxRuns /\ now \in Nat
         /\ plan.fp \in Fingerprints /\ plan.on \in Nat
         /\ Takes[t][guid] \in Nat \ {0} /\ now' = now + Takes[t][guid] + 1
         /\ genuine' = IF outcome \in Passing THEN [genuine EXCEPT ![t] = <<now, Takes[t][guid]>>]
                       ELSE genuine
<1>. DEFINE t == Head(queue)
<1>1. /\ phase = "running" /\ UNCHANGED <<tree, modes, guid, phase, plan>>
      /\ queue # <<>> /\ queue' = Tail(queue) /\ now' = now + Takes[t][guid] + 1
  BY DEF RunTest
<1>2. /\ queue \in Seq(Tests) /\ rows \in Seq(Record) /\ now \in Nat /\ guid \in 0..MaxRuns
  BY DEF HistoryInv, TypeInv
<1>3. guid \in 1..MaxRuns /\ plan.fp = Fingerprint /\ plan.on = tree.now
  BY <1>1, <1>2, HistoryConstantsOK DEF HistoryInv, PlanInv
<1>4. plan.fp \in Fingerprints /\ plan.on \in Nat
  BY <1>3, FingerprintType DEF HistoryInv
<1>5. t \in Tests
  BY <1>1, <1>2
<1>6. Takes[t][guid] \in Nat \ {0}
  <2>1. Takes[t] \in [1..MaxRuns -> Nat \ {0}]
    BY <1>5, HistoryConstantsOK
  <2>. QED
    BY <1>3, <2>1
<1>7. genuine' = IF outcome \in Passing THEN [genuine EXCEPT ![t] = <<now, Takes[t][guid]>>] ELSE genuine
  <2>1. CASE outcome = "OK_then_TERMINATED"
    BY <2>1 DEF RunTest, Passing
  <2>2. CASE outcome # "OK_then_TERMINATED"
    BY <2>2 DEF RunTest, Passing
  <2>. QED
    BY <2>1, <2>2
<1>. QED
  BY <1>1, <1>2, <1>3, <1>4, <1>5, <1>6, <1>7

(* What it writes: RUNNING, and what its outcome adds.                      *)
LEMMA RunTestRecords ==
  ASSUME HistoryInv, NEW outcome \in Outcomes, RunTest(outcome)
  PROVE  \E add \in Seq(Record) : rows' = rows \o add /\ TestRecords(add, Head(queue), outcome)
<1>. DEFINE t == Head(queue)
            ends == now + Takes[t][guid]
            code == IF outcome = "OK_then_TERMINATED" THEN "OK" ELSE outcome
            ran == Row(guid, t, TRUE, "NONE", now, plan.fp, plan.on)
            own == Row(guid, t, TRUE, code, ends, plan.fp, plan.on)
            kill == StatusRow(guid, t, "TERMINATED", ends, plan.fp)
            IsOf(x) == /\ x.run = guid /\ x.name = t /\ x.fp = plan.fp
                       /\ x.code = "OK" => /\ outcome \in Passing /\ x.pid
                                           /\ x.ts = now + Takes[t][guid] /\ x.on = plan.on
                       /\ x.pid => now =< x.ts
<1>1. /\ t \in Tests /\ rows \in Seq(Record) /\ guid \in Nat /\ now \in Nat /\ ends \in Nat
      /\ now =< ends /\ plan.fp \in Fingerprints /\ plan.on \in Nat
  BY RunTestFacts, HistoryConstantsOK
<1>2. outcome \in {"OK", "FAILED", "TERMINATED", "OK_then_TERMINATED", "crash"}
  BY HistoryConstantsOK
<1>3. ran \in Record /\ IsOf(ran) /\ ran.pid /\ ran.ts = now
  <2>1. ran \in Record
    BY <1>1, RowType DEF Codes
  <2>. QED
    BY <1>1, <2>1 DEF Row
<1>4. kill \in Record /\ IsOf(kill)
  <2>1. kill \in Record
    BY <1>1, RowType DEF Codes
  <2>. QED
    BY <1>1, <2>1 DEF StatusRow, Row
<1>5. outcome \in {"OK", "FAILED", "OK_then_TERMINATED"} => own \in Record /\ IsOf(own) /\ own.code = code
  <2>. SUFFICES ASSUME outcome \in {"OK", "FAILED", "OK_then_TERMINATED"}
                PROVE  own \in Record /\ IsOf(own) /\ own.code = code
    OBVIOUS
  <2>1. code \in {"OK", "FAILED"} /\ (code = "OK" => outcome \in Passing)
    BY DEF Passing
  <2>2. own \in Record
    BY <1>1, <2>1, RowType DEF Codes
  <2>. QED
    BY <1>1, <2>1, <2>2 DEF Row
<1>. DEFINE tail == CASE outcome = "TERMINATED" -> <<kill>>
                      [] outcome = "OK_then_TERMINATED" -> <<own>> \o <<kill>>
                      [] outcome = "crash" -> <<>>
                      [] OTHER -> <<own>>
            add == <<ran>> \o tail
<1>. HIDE DEF ran, own, kill, IsOf
<1>7. tail \in Seq(Record) /\ (\A k \in DOMAIN tail : IsOf(tail[k]))
      /\ (outcome \in Passing => \E k \in DOMAIN tail : tail[k].code = "OK")
  <2>1. CASE outcome = "TERMINATED"
    BY <1>4, <2>1 DEF Passing
  <2>2. CASE outcome = "OK_then_TERMINATED"
    <3>1. tail = <<own>> \o <<kill>> /\ <<own>> \in Seq(Record) /\ <<kill>> \in Seq(Record)
      BY <1>4, <1>5, <2>2
    <3>2. tail \in Seq(Record) /\ Grown(<<own>>, <<kill>>, tail)
      BY <3>1, Appended
    <3>3. IsOf(own) /\ own.code = "OK" /\ IsOf(kill)
      BY <1>4, <1>5, <2>2
    <3>. HIDE DEF tail
    <3>. QED
      BY <3>2, <3>3 DEF Grown
  <2>3. CASE outcome = "crash"
    BY <2>3 DEF Passing
  <2>4. CASE outcome \in {"OK", "FAILED"}
    <3>1. tail = <<own>>
      BY <2>4
    <3>2. own \in Record /\ IsOf(own) /\ own.code = outcome
      BY <1>5, <2>4
    <3>. HIDE DEF tail
    <3>. QED
      BY <2>4, <3>1, <3>2 DEF Passing
  <2>. QED
    BY <1>2, <2>1, <2>2, <2>3, <2>4
<1>8. rows' = rows \o <<ran>> \o tail
  BY DEF RunTest, ran, own, kill
<1>. HIDE DEF tail
<1>9. <<ran>> \in Seq(Record)
  BY <1>3
<1>10. rows' = rows \o add
  BY <1>1, <1>7, <1>8, <1>9, ConcatAssociative
<1>11. add \in Seq(Record) /\ Grown(<<ran>>, tail, add)
  BY <1>7, <1>9, Appended
<1>. HIDE DEF add
<1>12. \A k \in DOMAIN add : IsOf(add[k])
  <2>1. \A k \in DOMAIN <<ran>> : IsOf(<<ran>>[k])
    BY <1>3
  <2>. QED
    BY <1>7, <1>11, <2>1 DEF Grown
<1>13. \E k \in DOMAIN add : add[k].pid /\ add[k].ts = now
  <2>1. 1 \in DOMAIN <<ran>> /\ <<ran>>[1] = ran
    OBVIOUS
  <2>. QED
    BY <1>3, <1>11, <2>1 DEF Grown
<1>14. outcome \in Passing => \E k \in DOMAIN add : add[k].code = "OK"
  BY <1>7, <1>11 DEF Grown
<1>15. TestRecords(add, t, outcome)
  BY <1>12, <1>13, <1>14 DEF TestRecords, IsOf
<1>. QED
  BY <1>10, <1>11, <1>15


(* The next test in the queue has not had a process in this run.            *)
LEMMA NothingOfHead ==
  ASSUME HistoryInv, phase = "running", queue # <<>>
  PROVE  NoneIn(Head(queue), guid)
<1>1. queue \in Seq(Tests) /\ rows \in Seq(Record) /\ guid \in Nat
  BY HistoryConstantsOK DEF HistoryInv, TypeInv
<1>2. 1 \in DOMAIN queue /\ Head(queue) = queue[1]
  BY <1>1
<1>3. \A i \in DOMAIN rows : rows[i].run = guid /\ rows[i].pid => rows[i].name # Head(queue)
  BY <1>2 DEF HistoryInv, QueueInv
<1>4. ASSUME NEW i, Passed(i, Head(queue)) PROVE rows[i].run < guid
  <2>1. i \in DOMAIN rows /\ rows[i].pid /\ rows[i].run =< guid
    BY <1>4 DEF Passed, HistoryInv, RunsInv
  <2>2. rows[i].run # guid
    BY <1>3, <1>4, <2>1 DEF Passed
  <2>3. rows[i].run \in Nat
    BY <1>1, <2>1, RowsAre
  <2>. QED
    BY <1>1, <2>1, <2>2, <2>3
<1>. QED
  BY <1>3, <1>4 DEF NoneIn, Started

(* Without its head, a list of different tests is one, and lacks the head.  *)
LEMMA TailHasTheRest ==
  ASSUME NEW S, NEW list \in Seq(S), list # <<>>, NoRepeats(list)
  PROVE  /\ Tail(list) \in Seq(S) /\ NoRepeats(Tail(list))
         /\ \A k \in DOMAIN Tail(list) : \E m \in DOMAIN list :
              Tail(list)[k] = list[m] /\ list[m] # Head(list)
<1>1. /\ Len(list) \in Nat /\ Len(list) >= 1 /\ DOMAIN list = 1..Len(list) /\ Head(list) = list[1]
  OBVIOUS
<1>2. /\ Tail(list) \in Seq(S) /\ DOMAIN Tail(list) = 1..(Len(list) - 1)
      /\ \A k \in 1..(Len(list) - 1) : Tail(list)[k] = list[k + 1]
  OBVIOUS
<1>3. \A k \in 1..(Len(list) - 1) : k + 1 \in DOMAIN list /\ k + 1 # 1 /\ k \in Int
  BY <1>1
<1>4. NoRepeats(Tail(list))
  <2>. SUFFICES ASSUME NEW i \in 1..(Len(list) - 1), NEW j \in 1..(Len(list) - 1),
                       list[i + 1] = list[j + 1]
                PROVE  i = j
    BY <1>2 DEF NoRepeats
  <2>1. i + 1 = j + 1
    BY <1>3 DEF NoRepeats
  <2>. QED
    BY <1>3, <2>1
<1>5. ASSUME NEW k \in 1..(Len(list) - 1) PROVE list[k + 1] # list[1]
  BY <1>1, <1>3 DEF NoRepeats
<1>. QED
  BY <1>1, <1>2, <1>3, <1>4, <1>5

(* A pass is a new last pass; nothing else touches one.                     *)
LEMMA RunTestHistoryInv ==
  ASSUME HistoryInv, NEW outcome \in Outcomes, RunTest(outcome)
  PROVE  HistoryInv'
<1>. DEFINE t == Head(queue)
            took == Takes[t][guid]
<1>0. TypeInv /\ PlanInv /\ RunsInv /\ FingerprintInv /\ QueueInv /\ \A u \in Tests : PassInv(u)
  BY DEF HistoryInv
<1>1. /\ phase = "running" /\ UNCHANGED <<tree, modes, guid, phase, plan>>
      /\ queue \in Seq(Tests) /\ queue # <<>> /\ queue' = Tail(queue) /\ t \in Tests
      /\ rows \in Seq(Record) /\ guid \in 1..MaxRuns /\ now \in Nat
      /\ plan.fp \in Fingerprints /\ plan.on \in Nat
      /\ took \in Nat \ {0} /\ now' = now + took + 1
      /\ genuine' = IF outcome \in Passing THEN [genuine EXCEPT ![t] = <<now, took>>] ELSE genuine
  BY RunTestFacts
<1>2. PICK add \in Seq(Record) : rows' = rows \o add /\ TestRecords(add, t, outcome)
  BY RunTestRecords
<1>3. rows' \in Seq(Record) /\ Grown(rows, add, rows')
  BY <1>1, <1>2, Appended
<1>4. guid \in Nat
  BY <1>1, HistoryConstantsOK
<1>5. NoneIn(t, guid)
  BY <1>1, NothingOfHead
<1>6. /\ \A k \in DOMAIN add :
           /\ add[k].run = guid /\ add[k].name = t /\ add[k].fp = plan.fp
           /\ add[k].code = "OK" =>
                outcome \in Passing /\ add[k].pid /\ add[k].ts = now + took /\ add[k].on = plan.on
           /\ add[k].pid => now =< add[k].ts
      /\ \E k \in DOMAIN add : add[k].pid /\ add[k].ts = now
      /\ outcome \in Passing => \E k \in DOMAIN add : add[k].code = "OK"
  BY <1>2 DEF TestRecords
<1>. HIDE DEF t, took
<1>7. NoRepeats(queue) /\ Tail(queue) \in Seq(Tests)
  <2>1. NoRepeats(queue)
    BY <1>0, <1>1 DEF QueueInv
  <2>. QED
    BY <1>1, <2>1, TailHasTheRest
<1>8. genuine' \in [Tests -> {<<>>} \cup (Nat \X (Nat \ {0}))]
  <2>1. genuine \in [Tests -> {<<>>} \cup (Nat \X (Nat \ {0}))]
    BY <1>0 DEF TypeInv
  <2>2. <<now, took>> \in Nat \X (Nat \ {0})
    BY <1>1
  <2>. QED
    BY <1>1, <2>1, <2>2
<1>9. TypeInv'
  <2>1. now' \in Nat
    BY <1>1
  <2>. QED
    BY <1>0, <1>1, <1>3, <1>7, <1>8, <2>1 DEF TypeInv
<1>10. PlanInv'
  BY <1>0, <1>1 DEF PlanInv, Fingerprint
<1>11. RunsInv'
  <2>1. \A k \in DOMAIN add : add[k].run =< guid' /\ (add[k].code = "OK" => add[k].pid)
    BY <1>1, <1>4, <1>6
  <2>2. guid' \in Nat /\ guid =< guid'
    BY <1>1, <1>4
  <2>. QED
    BY <1>0, <1>3, <2>1, <2>2, RunsStay
<1>12. FingerprintInv'
  <2>1. "resume" \notin modes => \A i \in DOMAIN rows : rows[i].run = guid => rows[i].fp = plan.fp
    BY <1>0, <1>1 DEF FingerprintInv
  <2>2. ~ DirtyRuns => plan.fp = <<plan.on, "clean">>
    <3>1. tree.dirty \in BOOLEAN
      BY <1>0 DEF TypeInv
    <3>2. ~ DirtyRuns => ~ tree.dirty
      BY <1>0, <1>1, <3>1 DEF PlanInv
    <3>3. plan.fp = Fingerprint /\ plan.on = tree.now
      BY <1>0, <1>1 DEF PlanInv
    <3>. QED
      BY <1>0, <3>2, <3>3, FingerprintType DEF FingerprintInv
  <2>3. AddsTo(add, guid, plan.fp)
    BY <1>6, <2>2 DEF AddsTo
  <2>4. GoesOnWith(plan.fp) /\ UNCHANGED <<tree, modes>>
    BY <1>1 DEF GoesOnWith
  <2>. QED
    BY <1>0, <1>3, <2>1, <2>3, <2>4, FingerprintsStay
<1>13. QueueInv'
  <2>1. NoRepeats(Tail(queue))
    BY <1>1, <1>7, TailHasTheRest
  <2>2. ASSUME NEW i \in DOMAIN rows', NEW k \in DOMAIN Tail(queue), rows'[i].run = guid, rows'[i].pid
        PROVE  rows'[i].name # Tail(queue)[k]
    <3>0. PICK m \in DOMAIN queue : Tail(queue)[k] = queue[m] /\ queue[m] # t
      BY <1>1, <1>7, TailHasTheRest DEF t
    <3>1. CASE i \in DOMAIN rows /\ rows'[i] = rows[i]
      BY <1>0, <1>1, <2>2, <3>0, <3>1 DEF QueueInv
    <3>2. CASE \E n \in DOMAIN add : rows'[i] = add[n]
      BY <1>6, <3>0, <3>2
    <3>. QED
      BY <1>3, <3>1, <3>2 DEF Grown
  <2>. QED
    BY <1>1, <2>1, <2>2 DEF QueueInv, NoRepeats
<1>14. ASSUME NEW u \in Tests PROVE PassInv(u)'
  <2>1. CASE u = t /\ outcome \in Passing
    <3>1. genuine'[u] = <<now, took>>
      <4>1. genuine \in [Tests -> {<<>>} \cup (Nat \X (Nat \ {0}))]
        BY <1>0 DEF TypeInv
      <4>. QED
        BY <1>1, <2>1, <4>1
    <3>2. AddsPass(add, u, guid, now, took)
      BY <1>6, <2>1 DEF AddsPass
    <3>3. took \in Nat
      BY <1>1
    <3>. QED
      BY <1>1, <1>3, <1>4, <1>5, <2>1, <3>1, <3>2, <3>3, PassIsNew
  <2>2. CASE ~ (u = t /\ outcome \in Passing)
    <3>1. genuine'[u] = genuine[u]
      <4>1. genuine \in [Tests -> {<<>>} \cup (Nat \X (Nat \ {0}))]
        BY <1>0 DEF TypeInv
      <4>. QED
        BY <1>1, <2>2, <4>1
    <3>2. ASSUME NEW k \in DOMAIN add, add[k].name = u
          PROVE  add[k].code # "OK" /\ \A i : Passed(i, u) => rows[i].run # add[k].run
      <4>1. u = t /\ add[k].code # "OK" /\ add[k].run = guid
        BY <1>6, <2>2, <3>2
      <4>2. ASSUME NEW i, Passed(i, u) PROVE rows[i].run # guid
        <5>1. rows[i].run < guid /\ rows[i].run \in Nat
          BY <1>1, <1>5, <4>1, <4>2, RowsAre DEF NoneIn, Passed
        <5>. QED
          BY <1>4, <5>1
      <4>. QED
        BY <4>1, <4>2
    <3>. QED
      BY <1>0, <1>1, <1>3, <3>1, <3>2, PassStays
  <2>. QED
    BY <2>1, <2>2
<1>. QED
  BY <1>9, <1>10, <1>11, <1>12, <1>13, <1>14 DEF HistoryInv


(* i is the latest record of a test.                                        *)
IsLatest(i, infos, t) ==
  /\ i \in infos /\ rows[i].name = t
  /\ \A j \in infos : rows[j].name = t =>
       rows[j].ts < rows[i].ts \/ (rows[j].ts = rows[i].ts /\ j =< i)

(* Who has records has a latest one.                                        *)
LEMMA LatestIsOne ==
  ASSUME rows \in Seq(Record), NEW infos \in SUBSET (DOMAIN rows), NEW t \in NamesIn(infos)
  PROVE  \E i : IsLatest(i, infos, t) /\ LatestInfo(infos, t) = rows[i]
<1>. DEFINE mine == {i \in infos : rows[i].name = t}
            key == [i \in mine |-> <<rows[i].ts, i>>]
            order == SortedBy(mine, key)
            n == Cardinality(mine)
            NotAfter(j, i) == \/ rows[j].ts < rows[i].ts
                              \/ rows[j].ts = rows[i].ts /\ j =< i
<1>1. Len(rows) \in Nat /\ DOMAIN rows = 1..Len(rows)
  OBVIOUS
<1>2. \A i \in mine : i \in Int /\ rows[i].ts \in Int
  BY <1>1, RowsAre
<1>3. mine \in SUBSET Int /\ IsFiniteSet(mine) /\ mine # {}
  <2>1. IsFiniteSet(DOMAIN rows)
    BY <1>1, FS_Interval
  <2>2. IsFiniteSet(mine)
    BY <2>1, FS_Subset
  <2>. QED
    BY <1>2, <2>2 DEF NamesIn
<1>4. \A i \in mine : key[i] \in Int \X Int /\ key[i][1] = rows[i].ts /\ key[i][2] = i
  BY <1>2
<1>5. \A i : i \in mine <=> i \in infos /\ rows[i].name = t
  OBVIOUS
<1>. HIDE DEF mine, key
<1>6. /\ n \in Nat /\ order \in [1..n -> mine]
      /\ \A i \in mine : \E k \in 1..n : order[k] = i
      /\ \A k, l \in 1..n : k < l => Before(key, order[k], order[l])
  BY <1>3, <1>4, SortedByIsSorted
<1>7. n \in 1..n
  <2>1. PICK i : i \in mine
    BY <1>3
  <2>2. PICK k \in 1..n : order[k] = i
    BY <1>6, <2>1
  <2>. QED
    BY <1>6, <2>2
<1>8. order[n] \in mine
  BY <1>6, <1>7
<1>9. ASSUME NEW j \in mine PROVE NotAfter(j, order[n])
  <2>1. PICK k \in 1..n : order[k] = j
    BY <1>6
  <2>2. CASE k = n
    BY <1>2, <1>8, <2>1, <2>2
  <2>3. CASE k < n
    <3>1. Before(key, j, order[n])
      BY <1>6, <1>7, <2>1, <2>3
    <3>. QED
      BY <1>2, <1>4, <1>8, <3>1 DEF Before
  <2>. QED
    BY <1>6, <2>2, <2>3
<1>10. \E i \in mine : \A j \in mine : NotAfter(j, i)
  BY <1>8, <1>9
<1>11. LatestInfo(infos, t) = rows[CHOOSE i \in mine : \A j \in mine : NotAfter(j, i)]
  BY DEF LatestInfo, mine
<1>12. PICK last : /\ last \in mine /\ LatestInfo(infos, t) = rows[last]
                   /\ \A j \in mine : NotAfter(j, last)
  BY <1>10, <1>11
<1>13. IsLatest(last, infos, t)
  <2>1. last \in infos /\ rows[last].name = t
    BY <1>5, <1>12
  <2>2. ASSUME NEW j \in infos, rows[j].name = t
        PROVE  rows[j].ts < rows[last].ts \/ (rows[j].ts = rows[last].ts /\ j =< last)
    BY <1>5, <1>12, <2>2
  <2>. QED
    BY <2>1, <2>2 DEF IsLatest
<1>. QED
  BY <1>12, <1>13

(* The records a query returns are all of one run, the greatest.            *)
LEMMA MostRecentAreLast ==
  ASSUME rows \in Seq(Record)
  PROVE  /\ IsLastRun(MostRecentRecords)
         /\ MostRecentRecords # {} => \A i \in MostRecentRecords : rows[i].run = RunOf(MostRecentRecords)
<1>1. \A i \in DOMAIN rows : rows[i].run \in Nat
  BY RowsAre
<1>2. MostRecentRecords \subseteq DOMAIN rows
  BY DEF MostRecentRecords
<1>3. ASSUME NEW i \in MostRecentRecords, NEW j \in DOMAIN rows
      PROVE  rows[j].run =< rows[i].run /\ (rows[j].run = rows[i].run => j \in MostRecentRecords)
  BY <1>1, <1>3 DEF MostRecentRecords
<1>4. ASSUME NEW i \in MostRecentRecords, NEW j \in MostRecentRecords PROVE rows[i].run = rows[j].run
  <2>1. i \in DOMAIN rows /\ j \in DOMAIN rows /\ rows[i].run \in Nat /\ rows[j].run \in Nat
    BY <1>1, <1>2
  <2>. QED
    BY <1>3, <2>1
<1>. QED
  BY <1>2, <1>3, <1>4 DEF IsLastRun, RunOf

(* Records written by the application itself: no process, no pass.          *)
LEMMA StatusHistoryInv ==
  ASSUME HistoryInv, NEW add \in Seq(Record), rows' = rows \o add, phase' = "idle",
         now' \in Nat, UNCHANGED <<tree, modes, guid, genuine>>, queue' \in Seq(Tests),
         NEW r, r =< guid, NEW fp, AddsTo(add, r, fp),
         \A k \in DOMAIN add : add[k].code # "OK" /\ ~ add[k].pid,
         "resume" \notin modes => \A i \in DOMAIN rows : rows[i].run = r => rows[i].fp = fp
  PROVE  HistoryInv'
<1>0. TypeInv /\ PlanInv /\ RunsInv /\ FingerprintInv /\ QueueInv /\ \A u \in Tests : PassInv(u)
  BY DEF HistoryInv
<1>1. rows \in Seq(Record) /\ guid \in Nat /\ guid =< guid
  BY <1>0, HistoryConstantsOK DEF TypeInv
<1>2. rows' \in Seq(Record) /\ Grown(rows, add, rows')
  BY <1>1, Appended
<1>3. TypeInv'
  BY <1>0, <1>2 DEF TypeInv
<1>4. PlanInv' /\ QueueInv'
  BY DEF PlanInv, QueueInv
<1>5. RunsInv'
  <2>1. \A k \in DOMAIN add : add[k].run =< guid' /\ (add[k].code = "OK" => add[k].pid)
    BY DEF AddsTo
  <2>. QED
    BY <1>0, <1>1, <1>2, <2>1, RunsStay
<1>6. FingerprintInv'
  <2>1. GoesOnWith(fp) /\ UNCHANGED <<tree, modes>>
    BY DEF GoesOnWith
  <2>. QED
    BY <1>0, <1>2, <2>1, FingerprintsStay
<1>7. \A t \in Tests : PassInv(t)'
  BY <1>0, <1>2, PassesStay
<1>. QED
  BY <1>3, <1>4, <1>5, <1>6, <1>7 DEF HistoryInv

(* The STOPPED records.                                                     *)
LEMMA StopRunHistoryInv ==
  ASSUME HistoryInv, StopRun
  PROVE  HistoryInv'
<1>. DEFINE infos == Records(guid)
            open == {t \in NamesIn(infos) : LatestState(infos, t) \notin TerminalStates}
            key == [t \in open |-> <<t, 0>>]
            names == SortedBy(open, key)
            n == Cardinality(open)
            add == [i \in DOMAIN names |-> StatusRow(guid, names[i], "STOPPED", now, plan.fp)]
<1>1. /\ phase = "running" /\ phase' = "idle" /\ rows' = rows \o add /\ now' = now + 1 /\ queue' = <<>>
      /\ UNCHANGED <<tree, modes, guid, genuine>>
  BY DEF StopRun
<1>2. /\ rows \in Seq(Record) /\ now \in Nat /\ guid \in Nat /\ guid =< guid
      /\ plan.fp \in Fingerprints
  BY <1>1, HistoryConstantsOK, FingerprintType DEF HistoryInv, TypeInv, PlanInv
<1>3. open \in SUBSET Tests
  BY <1>2, RowsAre DEF NamesIn, Records
<1>4. open \in SUBSET Int /\ IsFiniteSet(open)
  <2>1. Tests \subseteq Nat /\ IsFiniteSet(Tests)
    BY HistoryConstantsOK
  <2>. HIDE DEF open
  <2>2. IsFiniteSet(open)
    BY <1>3, <2>1, FS_Subset
  <2>. QED
    BY <1>3, <2>1, <2>2
<1>5. \A t \in open : key[t] \in Int \X Int
  BY <1>4
<1>6. n \in Nat /\ names \in [1..n -> open]
  <2>. HIDE DEF open, key
  <2>. QED
    BY <1>4, <1>5, SortedByIsSorted
<1>7. add \in Seq(Record)
  <2>1. DOMAIN names = 1..n /\ \A k \in 1..n : names[k] \in Tests
    BY <1>3, <1>6
  <2>. HIDE DEF names, n
  <2>2. ASSUME NEW i \in 1..n PROVE add[i] \in Record
    <3>1. names[i] \in Tests /\ "STOPPED" \in Codes
      BY <2>1 DEF Codes
    <3>2. StatusRow(guid, names[i], "STOPPED", now, plan.fp) \in Record
      BY <1>2, <3>1, RowType
    <3>. QED
      BY <2>1, <3>2
  <2>3. DOMAIN add = 1..n /\ add = [k \in 1..n |-> add[k]]
    BY <2>1
  <2>. QED
    BY <1>6, <2>2, <2>3, ListType
<1>8. \A k \in DOMAIN add : /\ add[k].run = guid /\ ~ add[k].pid /\ add[k].code = "STOPPED"
                            /\ add[k].fp = plan.fp
  BY DEF StatusRow, Row
<1>. HIDE DEF add
<1>9. AddsTo(add, guid, plan.fp)
  BY <1>8 DEF AddsTo
<1>10. "resume" \notin modes => \A i \in DOMAIN rows : rows[i].run = guid => rows[i].fp = plan.fp
  BY <1>1 DEF HistoryInv, FingerprintInv
<1>11. now' \in Nat /\ queue' \in Seq(Tests)
  BY <1>1, <1>2
<1>12. \A k \in DOMAIN add : add[k].code # "OK" /\ ~ add[k].pid
  BY <1>8
<1>. QED
  BY <1>1, <1>2, <1>7, <1>9, <1>10, <1>11, <1>12, StatusHistoryInv

(* The TERMINATED record of a test that only seems to be running.           *)
LEMMA MarkTerminatedHistoryInv ==
  ASSUME HistoryInv, NEW t \in Tests, MarkTerminatedIfStale(t)
  PROVE  HistoryInv'
<1>. DEFINE infos == MostRecentRecords
            r == RunOf(infos)
            fp == LatestInfo(infos, t).fp
            row == StatusRow(r, t, "TERMINATED", now, fp)
<1>1. /\ phase = "idle" /\ phase' = "idle" /\ t \in NamesIn(infos) /\ rows' = Append(rows, row)
      /\ now' = now + 1 /\ UNCHANGED <<tree, modes, guid, queue, genuine>>
  BY DEF MarkTerminatedIfStale
<1>2. rows \in Seq(Record) /\ now \in Nat /\ queue \in Seq(Tests)
  BY DEF HistoryInv, TypeInv
<1>3. infos \in SUBSET (DOMAIN rows)
  BY DEF MostRecentRecords
<1>4. PICK i : IsLatest(i, infos, t) /\ LatestInfo(infos, t) = rows[i]
  BY <1>1, <1>2, <1>3, LatestIsOne
<1>5. i \in infos /\ i \in DOMAIN rows
  BY <1>3, <1>4 DEF IsLatest
<1>6. r = rows[i].run /\ fp = rows[i].fp
  BY <1>2, <1>4, <1>5, MostRecentAreLast
<1>7. r \in Nat /\ fp \in Fingerprints /\ r =< guid
  BY <1>2, <1>5, <1>6, RowsAre DEF HistoryInv, RunsInv
<1>8. row \in Record /\ row.run = r /\ row.fp = fp /\ row.code = "TERMINATED" /\ ~ row.pid
  <2>1. row \in Record
    BY <1>2, <1>7, RowType DEF Codes
  <2>. QED
    BY <2>1 DEF StatusRow, Row
<1>9. "resume" \notin modes => \A j \in DOMAIN rows : rows[j].run = r => rows[j].fp = fp
  BY <1>5, <1>6 DEF HistoryInv, FingerprintInv
<1>. HIDE DEF r, fp, row
<1>. DEFINE add == <<row>>
<1>10. /\ add \in Seq(Record) /\ rows' = rows \o add
       /\ \A k \in DOMAIN add : /\ add[k].run = r /\ add[k].fp = fp
                                /\ add[k].code = "TERMINATED" /\ ~ add[k].pid
  <2>1. add \in Seq(Record)
    BY <1>8
  <2>2. rows' = rows \o add
    BY <1>1, <1>2, <1>8, AppendIsConcat
  <2>3. \A k \in DOMAIN add : add[k] = row
    OBVIOUS
  <2>. QED
    BY <1>8, <2>1, <2>2, <2>3
<1>. HIDE DEF add
<1>11. AddsTo(add, r, fp) /\ \A k \in DOMAIN add : add[k].code # "OK" /\ ~ add[k].pid
  BY <1>10 DEF AddsTo
<1>12. now' \in Nat /\ queue' \in Seq(Tests)
  BY <1>1, <1>2
<1>. QED
  BY <1>1, <1>7, <1>9, <1>10, <1>11, <1>12, StatusHistoryInv


(* What query_last_pass returns.                                            *)
LEMMA LastPassOf ==
  ASSUME HistoryInv, NEW t \in Tests
  PROVE  LastPass(t) = genuine[t]
<1>. DEFINE ok == {i \in DOMAIN rows : rows[i].name = t /\ rows[i].code = "OK"}
            p == CHOOSE i \in ok : \A j \in ok : rows[j].run =< rows[i].run
            started == {rows[i].ts : i \in {j \in DOMAIN rows :
                          rows[j].name = t /\ rows[j].run = rows[p].run /\ rows[j].pid}}
            first == CHOOSE s \in started : \A u \in started : s =< u
            runs == {rows[i].run : i \in ok}
<1>0. LastPass(t) = IF ok = {} THEN <<>> ELSE <<first, rows[p].ts - first>>
  BY DEF LastPass
<1>1. PassInv(t) /\ rows \in Seq(Record) /\ guid \in Nat
  BY HistoryConstantsOK DEF HistoryInv, TypeInv
<1>2. \A i : i \in ok <=> Passed(i, t)
  BY DEF Passed
<1>3. CASE ok = {}
  BY <1>0, <1>1, <1>2, <1>3 DEF PassInv
<1>4. CASE ok # {}
  <2>1. \A i \in ok : rows[i].run \in Nat /\ rows[i].run =< guid
    BY <1>1, RowsAre DEF HistoryInv, RunsInv
  <2>2. runs \in SUBSET Nat /\ runs # {} /\ \A k \in runs : k =< guid
    BY <1>4, <2>1
  <2>3. \E m \in runs : \A k \in runs : k =< m
    <3>. HIDE DEF runs
    <3>. QED
      BY <1>1, <2>2, GreatestNumber
  <2>4. p \in ok /\ \A j \in ok : rows[j].run =< rows[p].run
    BY <2>3
  <2>. HIDE DEF ok, p, runs
  <2>5. /\ rows[p].ts = genuine[t][1] + genuine[t][2]
        /\ \E i : Started(i, t, rows[p].run) /\ rows[i].ts = genuine[t][1]
        /\ \A i : Started(i, t, rows[p].run) => genuine[t][1] =< rows[i].ts
        /\ genuine[t] # <<>>
    BY <1>1, <1>2, <2>4 DEF PassInv
  <2>6. genuine[t] \in Nat \X (Nat \ {0})
    BY <2>5 DEF HistoryInv, TypeInv
  <2>7. genuine[t][1] \in started /\ \A u \in started : genuine[t][1] =< u /\ u \in Nat
    BY <1>1, <2>5, RowsAre DEF Started
  <2>8. first = genuine[t][1]
    <3>1. first \in started /\ \A u \in started : first =< u
      BY <2>7
    <3>. HIDE DEF first, started
    <3>2. first =< genuine[t][1] /\ genuine[t][1] =< first /\ first \in Nat /\ genuine[t][1] \in Nat
      BY <2>6, <2>7, <3>1
    <3>. QED
      BY <3>2
  <2>. HIDE DEF first
  <2>9. rows[p].ts - first = genuine[t][2]
    BY <2>5, <2>6, <2>8
  <2>. QED
    BY <1>0, <1>4, <2>6, <2>8, <2>9
<1>. QED
  BY <1>3, <1>4

(* The keys of the aspects are numbers.                                     *)
LEMMA KeysAreNumbers ==
  ASSUME HistoryInv, NEW todo \in SUBSET Tests, NEW prior, NEW effective
  PROVE  \A t \in Tests, a \in Aspects : Key(a, t, OrderingContext(todo, prior, effective)) \in Int
<1>. DEFINE ctx == OrderingContext(todo, prior, effective)
<1>. SUFFICES ASSUME NEW t \in Tests, NEW a \in Aspects PROVE Key(a, t, ctx) \in Int
  OBVIOUS
<1>1. ctx.last[t] = genuine[t] /\ ctx.last[t] \in {<<>>} \cup (Nat \X (Nat \ {0}))
  BY LastPassOf DEF OrderingContext, HistoryInv, TypeInv
<1>2. t \in DOMAIN ctx.covered => ctx.covered[t] \in Nat
  BY HistoryConstantsOK DEF OrderingContext, PerTestCoverage
<1>. HIDE DEF ctx
<1>3. CASE a = "failed_first"
  BY <1>3 DEF Key
<1>4. CASE a = "never_run_first"
  BY <1>4 DEF Key
<1>5. CASE a = "longest_prior_first"
  <2>1. ctx.last[t] # <<>> => ctx.last[t][2] \in Nat
    BY <1>1
  <2>. QED
    BY <1>5, <2>1 DEF Key
<1>6. CASE a = "coverage_efficiency"
  <2>1. CASE ctx.last[t] = <<>> \/ t \notin DOMAIN ctx.covered
    BY <1>6, <2>1 DEF Key, Infinity
  <2>2. CASE ~ (ctx.last[t] = <<>> \/ t \notin DOMAIN ctx.covered)
    <3>1. ctx.covered[t] \in Nat /\ ctx.last[t][2] \in Nat \ {0}
      BY <1>1, <1>2, <2>2
    <3>2. \A x \in Nat, y \in Nat \ {0} : -((x * 60) \div y) \in Int
      OBVIOUS
    <3>3. Key(a, t, ctx) = -((ctx.covered[t] * 60) \div ctx.last[t][2])
      BY <1>6, <2>2 DEF Key
    <3>. QED
      BY <3>1, <3>2, <3>3
  <2>. QED
    BY <2>1, <2>2
<1>. QED
  BY <1>3, <1>4, <1>5, <1>6 DEF Aspects

(* A list of a set has no repetitions.                                      *)
LEMMA ListsDoNotRepeat ==
  ASSUME NEW S, IsFiniteSet(S), NEW list, Lists(list, S)
  PROVE  NoRepeats(list) /\ list \in Seq(S) /\ \A t : t \in S <=> \E k \in DOMAIN list : list[k] = t
<1>. DEFINE n == Cardinality(S)
<1>1. n \in Nat /\ list \in [1..n -> S] /\ DOMAIN list = 1..n
  BY FS_CardinalityType DEF Lists
<1>2. list \in Surjection(1..n, S)
  BY <1>1 DEF Lists, Surjection
<1>3. IsFiniteSet(1..n) /\ Cardinality(1..n) = n
  BY <1>1, FS_Interval
<1>4. list \in Injection(1..n, S)
  BY <1>2, <1>3, FS_SurjSameCardinalityImpliesInj
<1>5. NoRepeats(list)
  BY <1>1, <1>4 DEF Injection, IsInjective, NoRepeats
<1>6. list \in Seq(S)
  BY <1>1
<1>. QED
  BY <1>1, <1>5, <1>6 DEF Lists


(* What a preparation plans, in terms of the records there were.            *)
Planned(mode, suite, aspects) ==
  LET prior == MostRecentRecords
      skips == plan'.effective = "resume"
  IN  /\ IsLastRun(prior)
      /\ plan'.mode = mode /\ plan'.suite = suite /\ plan'.aspects = aspects
      /\ plan'.fp = Fingerprint /\ plan'.on = tree.now
      /\ mode = "check" => plan'.effective \in {"resume", "restart"}
      /\ mode # "check" => plan'.effective = mode
      /\ mode = "check" /\ skips => \E i \in prior : rows[i].fp = Fingerprint
      /\ plan'.skipped = IF skips THEN suite \cap PassedIn(prior) ELSE {}
      /\ Lists(plan'.order, suite \ plan'.skipped)
      /\ Ordered(aspects, plan'.ctx, 1, plan'.order)
      /\ \A a \in Aspects, t \in Tests : Key(a, t, plan'.ctx) \in Int

(* Every preparation does.                                                  *)
LEMMA PreparePlans ==
  ASSUME HistoryInv, NEW mode \in modes, NEW suite \in Suites, NEW aspects \in AspectLists,
         Prepare(mode, suite, aspects)
  PROVE  Planned(mode, suite, aspects)
<1>. DEFINE prior == MostRecentRecords
            effective == IF mode = "check" THEN ResolveCheckMode(prior, Fingerprint) ELSE mode
            todo == FilterForResume(suite, prior, effective)
            skipped == IF effective = "resume" THEN suite \ todo ELSE {}
            ctx == OrderingContext(todo, prior, effective)
            order == ApplyOrderingAspects(todo, aspects, ctx)
<1>1. rows \in Seq(Record) /\ suite \in SUBSET Tests /\ aspects \in Seq(Aspects)
  BY HistoryConstantsOK DEF HistoryInv, TypeInv
<1>2. plan' = [mode |-> mode, effective |-> effective, suite |-> suite, skipped |-> skipped,
               order |-> order, aspects |-> aspects, ctx |-> ctx, fp |-> Fingerprint,
               on |-> tree.now, start |-> now, had |-> covered]
  BY DEF Prepare
<1>3. /\ plan'.mode = mode /\ plan'.suite = suite /\ plan'.aspects = aspects
      /\ plan'.fp = Fingerprint /\ plan'.on = tree.now /\ plan'.effective = effective
      /\ plan'.skipped = skipped /\ plan'.order = order /\ plan'.ctx = ctx
  <2>. HIDE DEF prior, effective, todo, skipped, ctx, order
  <2>. QED
    BY <1>2
<1>4. IsLastRun(prior)
  BY <1>1, MostRecentAreLast
<1>5. mode = "check" /\ effective = "resume" => \E i \in prior : rows[i].fp = Fingerprint
  <2>. SUFFICES ASSUME mode = "check", effective = "resume" PROVE \E i \in prior : rows[i].fp = Fingerprint
    OBVIOUS
  <2>. DEFINE first == CHOOSE i \in prior : \A j \in prior : i =< j
  <2>1. prior # {} /\ rows[first].fp = Fingerprint
    BY DEF ResolveCheckMode
  <2>2. prior \in SUBSET Nat
    <3>1. DOMAIN rows \in SUBSET Nat
      BY <1>1
    <3>. QED
      BY <1>4, <3>1 DEF IsLastRun
  <2>3. first \in prior
    <3>. HIDE DEF prior
    <3>. QED
      BY <2>1, <2>2, LeastNumber
  <2>. QED
    BY <2>1, <2>3
<1>6. mode = "check" => effective \in {"resume", "restart"}
  BY DEF ResolveCheckMode
<1>7. mode # "check" => effective = mode
  OBVIOUS
<1>8. /\ skipped = IF effective = "resume" THEN suite \cap PassedIn(prior) ELSE {}
      /\ todo = suite \ skipped /\ todo \in SUBSET Tests
  <2>. HIDE DEF effective, prior
  <2>. QED
    BY <1>1 DEF FilterForResume
<1>9. \A t \in Tests, a \in Aspects : Key(a, t, ctx) \in Int
  <2>. HIDE DEF effective, prior, todo
  <2>. QED
    BY <1>8, KeysAreNumbers
<1>10. Lists(order, todo) /\ Ordered(aspects, ctx, 1, order)
  <2>. HIDE DEF todo, ctx
  <2>. QED
    BY <1>1, <1>8, <1>9, ChainIsLexicographic
<1>. HIDE DEF effective, todo, skipped, ctx, order, prior
<1>. QED
  BY <1>3, <1>4, <1>5, <1>6, <1>7, <1>8, <1>9, <1>10 DEF Planned, prior

(* What is copied.                                                          *)
LEMMA PrepareCopies ==
  ASSUME HistoryInv, NEW mode \in modes, NEW suite \in Suites, NEW aspects \in AspectLists,
         Prepare(mode, suite, aspects)
  PROVE  \E add \in Seq(Record) :
           /\ rows' \in Seq(Record) /\ Grown(rows, add, rows')
           /\ \A k \in DOMAIN add : \E i \in MostRecentRecords :
                rows[i].name \in plan'.skipped /\ IsCopy(add[k], rows[i], guid + 1)
           /\ \A i \in MostRecentRecords :
                rows[i].name \in plan'.skipped => \E k \in DOMAIN add : IsCopy(add[k], rows[i], guid + 1)
<1>. DEFINE add == CarriedOver(MostRecentRecords, plan'.skipped, guid + 1)
<1>1. rows \in Seq(Record) /\ guid + 1 \in Nat
  BY HistoryConstantsOK DEF HistoryInv, TypeInv
<1>2. MostRecentRecords \in SUBSET (DOMAIN rows)
  BY DEF MostRecentRecords
<1>3. rows' = rows \o add
  BY DEF Prepare
<1>4. /\ add \in Seq(Record)
      /\ \A k \in DOMAIN add : \E i \in MostRecentRecords :
           rows[i].name \in plan'.skipped /\ IsCopy(add[k], rows[i], guid + 1)
      /\ \A i \in MostRecentRecords :
           rows[i].name \in plan'.skipped => \E k \in DOMAIN add : IsCopy(add[k], rows[i], guid + 1)
  BY <1>1, <1>2, CopiesAreExact
<1>. HIDE DEF add
<1>5. rows' \in Seq(Record) /\ Grown(rows, add, rows')
  BY <1>1, <1>3, <1>4, Appended
<1>. QED
  BY <1>4, <1>5


(* The copies keep last passes and fingerprints what they are; the order    *)
(* has no test twice, and none that has been copied.                        *)
LEMMA PrepareHistoryInv ==
  ASSUME HistoryInv, NEW mode \in modes, NEW suite \in Suites, NEW aspects \in AspectLists,
         Prepare(mode, suite, aspects)
  PROVE  HistoryInv'
<1>. DEFINE prior == MostRecentRecords
            r == guid + 1
            skipped == plan'.skipped
            todo == suite \ skipped
            order == plan'.order
<1>0. TypeInv /\ PlanInv /\ RunsInv /\ FingerprintInv /\ QueueInv /\ \A u \in Tests : PassInv(u)
  BY DEF HistoryInv
<1>1. /\ phase = "idle" /\ guid < MaxRuns /\ (tree.dirty => DirtyRuns)
      /\ guid' = guid + 1 /\ phase' = "prepared"
      /\ UNCHANGED <<now, tree, modes, queue, genuine>>
  BY DEF Prepare
<1>2. Planned(mode, suite, aspects)
  BY PreparePlans
<1>3. /\ IsLastRun(prior) /\ plan'.on = tree.now /\ plan'.fp = Fingerprint
      /\ skipped = IF plan'.effective = "resume" THEN suite \cap PassedIn(prior) ELSE {}
      /\ Lists(order, todo)
  BY <1>2 DEF Planned
<1>4. PICK add \in Seq(Record) :
        /\ rows' \in Seq(Record) /\ Grown(rows, add, rows')
        /\ \A k \in DOMAIN add : \E i \in prior : rows[i].name \in skipped /\ IsCopy(add[k], rows[i], r)
        /\ \A i \in prior : rows[i].name \in skipped => \E k \in DOMAIN add : IsCopy(add[k], rows[i], r)
  BY PrepareCopies
<1>5. rows \in Seq(Record) /\ guid \in Nat /\ r \in Nat /\ guid' = r /\ guid < r
  BY <1>0, <1>1, HistoryConstantsOK DEF TypeInv
<1>6. prior \subseteq DOMAIN rows /\ \A i \in DOMAIN rows : rows[i].run < r
  <2>1. \A i \in DOMAIN rows : rows[i].run \in Nat /\ rows[i].run =< guid
    BY <1>0, <1>5, RowsAre DEF RunsInv
  <2>. QED
    BY <1>3, <1>5, <2>1 DEF IsLastRun
<1>7. suite \in SUBSET Tests /\ IsFiniteSet(todo)
  <2>1. suite \in SUBSET Tests /\ IsFiniteSet(Tests)
    BY HistoryConstantsOK
  <2>. QED
    BY <2>1, FS_Subset
<1>. HIDE DEF prior, r, skipped, todo, order
<1>8. NoRepeats(order) /\ order \in Seq(todo) /\ \A t : t \in todo <=> \E k \in DOMAIN order : order[k] = t
  BY <1>3, <1>7, ListsDoNotRepeat
<1>9. \A i \in DOMAIN rows' : \/ i \in DOMAIN rows /\ rows'[i] = rows[i]
                              \/ \E j \in prior : rows[j].name \in skipped /\ IsCopy(rows'[i], rows[j], r)
  BY <1>4 DEF Grown
<1>10. TypeInv'
  <2>1. guid' \in 0..MaxRuns
    BY <1>0, <1>1, HistoryConstantsOK DEF TypeInv
  <2>. QED
    BY <1>0, <1>1, <1>4, <2>1 DEF TypeInv
<1>11. PlanInv'
  <2>1. order \in Seq(Tests)
    BY <1>7, <1>8 DEF todo
  <2>2. Fingerprint' = Fingerprint
    BY <1>1 DEF Fingerprint
  <2>3. guid' >= 1
    BY <1>1, <1>5
  <2>. QED
    BY <1>1, <1>3, <2>1, <2>2, <2>3 DEF PlanInv, order
<1>12. RunsInv'
  <2>1. \A k \in DOMAIN add : add[k].run =< guid' /\ (add[k].code = "OK" => add[k].pid)
    <3>. SUFFICES ASSUME NEW k \in DOMAIN add
                  PROVE  add[k].run =< guid' /\ (add[k].code = "OK" => add[k].pid)
      OBVIOUS
    <3>1. PICK i \in prior : IsCopy(add[k], rows[i], r)
      BY <1>4
    <3>2. rows[i].code = "OK" => rows[i].pid
      BY <1>0, <1>6 DEF RunsInv
    <3>. QED
      BY <1>5, <3>1, <3>2 DEF IsCopy
  <2>. QED
    BY <1>0, <1>4, <1>5, <2>1, RunsStay
<1>13. FingerprintInv'
  <2>1. ~ tree'.dirty => tree'.now = tree'.head
    BY <1>0, <1>1 DEF FingerprintInv
  <2>2. ASSUME ~ DirtyRuns, NEW i \in DOMAIN rows', rows'[i].code = "OK"
        PROVE  rows'[i].fp = <<rows'[i].on, "clean">>
    <3>1. CASE i \in DOMAIN rows /\ rows'[i] = rows[i]
      BY <1>0, <2>2, <3>1 DEF FingerprintInv
    <3>2. CASE \E j \in prior : rows[j].name \in skipped /\ IsCopy(rows'[i], rows[j], r)
      <4>1. PICK j \in prior : IsCopy(rows'[i], rows[j], r)
        BY <3>2
      <4>2. j \in DOMAIN rows /\ rows[j].code = "OK"
        BY <1>6, <2>2, <4>1 DEF IsCopy
      <4>3. rows[j].fp = <<rows[j].on, "clean">>
        BY <1>0, <2>2, <4>2 DEF FingerprintInv
      <4>. QED
        BY <4>1, <4>3 DEF IsCopy
    <3>. QED
      BY <1>9, <3>1, <3>2
  <2>3. ASSUME "resume" \notin modes, NEW i \in DOMAIN rows', rows'[i].run = r
        PROVE  rows'[i].fp = Fingerprint
    <3>1. ~ (i \in DOMAIN rows /\ rows'[i] = rows[i])
      BY <1>5, <1>6, <2>3
    <3>2. PICK j \in prior : rows[j].name \in skipped /\ IsCopy(rows'[i], rows[j], r)
      BY <1>9, <3>1
    <3>3. plan'.effective = "resume"
      BY <1>3, <3>2
    <3>4. mode = "check"
      BY <1>2, <2>3, <3>3 DEF Planned
    <3>5. PICK o \in prior : rows[o].fp = Fingerprint
      BY <1>2, <3>3, <3>4 DEF Planned, prior
    <3>6. rows[o].run = rows[j].run /\ o \in DOMAIN rows /\ j \in DOMAIN rows
      <4>1. o \in DOMAIN rows /\ j \in DOMAIN rows
        BY <1>6
      <4>2. rows[o].run =< rows[j].run /\ rows[j].run =< rows[o].run
        BY <1>3, <4>1 DEF IsLastRun
      <4>3. rows[o].run \in Nat /\ rows[j].run \in Nat
        BY <1>5, <4>1, RowsAre
      <4>. QED
        BY <4>1, <4>2, <4>3
    <3>7. rows[o].fp = rows[j].fp
      BY <1>0, <2>3, <3>6 DEF FingerprintInv
    <3>. QED
      BY <3>2, <3>5, <3>7 DEF IsCopy
  <2>4. ASSUME "resume" \notin modes, NEW i \in DOMAIN rows', NEW j \in DOMAIN rows',
               rows'[i].run = rows'[j].run
        PROVE  rows'[i].fp = rows'[j].fp
    <3>1. CASE rows'[i].run = r
      BY <2>3, <2>4, <3>1
    <3>2. CASE rows'[i].run # r
      <4>1. i \in DOMAIN rows /\ rows'[i] = rows[i] /\ j \in DOMAIN rows /\ rows'[j] = rows[j]
        BY <1>9, <2>4, <3>2 DEF IsCopy
      <4>. QED
        BY <1>0, <2>4, <4>1 DEF FingerprintInv
    <3>. QED
      BY <3>1, <3>2
  <2>5. ASSUME "resume" \notin modes, NEW i \in DOMAIN rows', rows'[i].run = guid'
        PROVE  rows'[i].fp = plan'.fp
    BY <1>3, <1>5, <2>3, <2>5
  <2>. QED
    BY <1>1, <2>1, <2>2, <2>4, <2>5 DEF FingerprintInv
<1>14. QueueInv'
  <2>1. ASSUME NEW i \in DOMAIN rows', NEW k \in DOMAIN order, rows'[i].run = guid'
        PROVE  rows'[i].name # order[k]
    <3>1. ~ (i \in DOMAIN rows /\ rows'[i] = rows[i])
      BY <1>5, <1>6, <2>1
    <3>2. rows'[i].name \in skipped
      BY <1>9, <3>1 DEF IsCopy
    <3>3. order[k] \in todo
      BY <1>8
    <3>. QED
      BY <3>2, <3>3 DEF todo
  <2>. QED
    BY <1>1, <1>8, <2>1 DEF QueueInv, NoRepeats, order
<1>15. ASSUME NEW u \in Tests PROVE PassInv(u)'
  <2>0. genuine'[u] = genuine[u]
    BY <1>1
  <2>1. CASE u \in skipped
    <3>1. AddsCopies(add, prior, u, r)
      BY <1>4, <2>1 DEF AddsCopies
    <3>2. \E i \in prior : Passed(i, u)
      BY <1>3, <1>6, <2>1 DEF PassedIn, Passed
    <3>. QED
      BY <1>0, <1>3, <1>4, <1>5, <1>6, <2>0, <3>1, <3>2, PassIsCopied
  <2>2. CASE u \notin skipped
    <3>1. \A k \in DOMAIN add : add[k].name # u
      BY <1>4, <2>2 DEF IsCopy
    <3>. QED
      BY <1>0, <1>4, <1>5, <2>0, <3>1, PassStays
  <2>. QED
    BY <2>1, <2>2
<1>. QED
  BY <1>10, <1>11, <1>12, <1>13, <1>14, <1>15 DEF HistoryInv

(* Every step.                                                              *)
LEMMA StepHistoryInv == HistoryInv /\ [Next]_vars => HistoryInv'
<1>. SUFFICES ASSUME HistoryInv, [Next]_vars PROVE HistoryInv'
  OBVIOUS
<1>1. CASE Edit \/ Checkout \/ AbortPreparation \/ FinishRun \/ AppCrash \/ UNCHANGED vars
  BY <1>1, QuietHistoryInv
<1>2. CASE \E mode \in modes, suite \in Suites, aspects \in AspectLists : Prepare(mode, suite, aspects)
  BY <1>2, PrepareHistoryInv
<1>3. CASE Enqueue
  BY <1>3, EnqueueHistoryInv
<1>4. CASE StopRun
  BY <1>4, StopRunHistoryInv
<1>5. CASE \E outcome \in Outcomes : RunTest(outcome)
  BY <1>5, RunTestHistoryInv
<1>6. CASE \E t \in Tests : MarkTerminatedIfStale(t)
  BY <1>6, MarkTerminatedHistoryInv
<1>. QED
  BY <1>1, <1>2, <1>3, <1>4, <1>5, <1>6 DEF Next


(* Only a preparation leads to a prepared run.                              *)
LEMMA OnlyPreparePrepares ==
  ASSUME [Next]_vars, phase' = "prepared"
  PROVE  \/ UNCHANGED vars
         \/ \E mode \in modes, suite \in Suites, aspects \in AspectLists : Prepare(mode, suite, aspects)
BY DEF Next, Edit, Checkout, AbortPreparation, Enqueue, RunTest, StopRun, FinishRun, AppCrash,
       MarkTerminatedIfStale

(* Among the records after a preparation, those from before it, and the     *)
(* copies of the skipped tests' in the new run.                             *)
LEMMA PreparedRecords ==
  ASSUME HistoryInv, NEW mode \in modes, NEW suite \in Suites, NEW aspects \in AspectLists,
         Prepare(mode, suite, aspects)
  PROVE  /\ \A i \in DOMAIN rows : i \in DOMAIN rows' /\ rows'[i] = rows[i] /\ rows[i].run # guid'
         /\ \A i \in DOMAIN rows' : rows'[i].run # guid' => i \in DOMAIN rows /\ rows'[i] = rows[i]
         /\ \A i \in MostRecentRecords : rows[i].name \in plan'.skipped =>
              \E k \in DOMAIN rows' : IsCopy(rows'[k], rows[i], guid')
<1>1. PICK add \in Seq(Record) :
        /\ Grown(rows, add, rows')
        /\ \A k \in DOMAIN add : \E i \in MostRecentRecords :
             rows[i].name \in plan'.skipped /\ IsCopy(add[k], rows[i], guid + 1)
        /\ \A i \in MostRecentRecords :
             rows[i].name \in plan'.skipped => \E k \in DOMAIN add : IsCopy(add[k], rows[i], guid + 1)
  BY PrepareCopies
<1>2. guid' = guid + 1 /\ guid \in Nat /\ rows \in Seq(Record)
  BY HistoryConstantsOK DEF Prepare, HistoryInv, TypeInv
<1>3. \A i \in DOMAIN rows : rows[i].run # guid'
  <2>1. \A i \in DOMAIN rows : rows[i].run \in Nat /\ rows[i].run =< guid
    BY <1>2, RowsAre DEF HistoryInv, RunsInv
  <2>. QED
    BY <1>2, <2>1
<1>4. \A i \in DOMAIN rows' : rows'[i].run # guid' => i \in DOMAIN rows /\ rows'[i] = rows[i]
  BY <1>1, <1>2 DEF Grown, IsCopy
<1>5. ASSUME NEW i \in MostRecentRecords, rows[i].name \in plan'.skipped
      PROVE  \E k \in DOMAIN rows' : IsCopy(rows'[k], rows[i], guid')
  <2>1. PICK m \in DOMAIN add : IsCopy(add[m], rows[i], guid + 1)
    BY <1>1, <1>5
  <2>2. PICK k \in DOMAIN rows' : rows'[k] = add[m]
    BY <1>1 DEF Grown
  <2>. QED
    BY <1>2, <2>1, <2>2
<1>6. \A i \in DOMAIN rows : i \in DOMAIN rows' /\ rows'[i] = rows[i]
  BY <1>1 DEF Grown
<1>. QED
  BY <1>3, <1>4, <1>5, <1>6

(* A preparation skips only what is proven: with clean trees, the           *)
(* fingerprint that is compared says what was tested.                       *)
LEMMA PrepareProven ==
  ASSUME HistoryInv, ~ DirtyRuns,
         NEW mode \in modes, NEW suite \in Suites, NEW aspects \in AspectLists,
         Prepare(mode, suite, aspects)
  PROVE  CheckSkipsOnlyProven'
<1>1. Planned(mode, suite, aspects) /\ IsLastRun(MostRecentRecords)
  BY PreparePlans DEF Planned
<1>2. UNCHANGED <<modes, tree>> /\ (tree.dirty => DirtyRuns) /\ rows \in Seq(Record)
  BY DEF Prepare, HistoryInv, TypeInv
<1>3. Fingerprint = <<tree.now, "clean">>
  <2>1. ~ tree.dirty /\ tree.now = tree.head
    BY <1>2 DEF HistoryInv, TypeInv, FingerprintInv
  <2>. QED
    BY <2>1, FingerprintType DEF HistoryInv
<1>4. ASSUME plan'.mode = "check", "resume" \notin modes, NEW t \in plan'.skipped
      PROVE  \E i \in DOMAIN rows' : /\ rows'[i].run = guid' /\ rows'[i].name = t
                                     /\ rows'[i].code = "OK" /\ rows'[i].on = plan'.on
  <2>1. plan'.effective = "resume" /\ mode = "check" /\ t \in PassedIn(MostRecentRecords)
    BY <1>1, <1>4 DEF Planned
  <2>2. PICK o \in MostRecentRecords : rows[o].fp = Fingerprint
    BY <1>1, <2>1 DEF Planned
  <2>3. PICK j \in MostRecentRecords : rows[j].code = "OK" /\ rows[j].name = t
    BY <2>1 DEF PassedIn
  <2>4. o \in DOMAIN rows /\ j \in DOMAIN rows /\ rows[o].run = rows[j].run
    <3>1. o \in DOMAIN rows /\ j \in DOMAIN rows
      BY DEF MostRecentRecords
    <3>2. rows[o].run =< rows[j].run /\ rows[j].run =< rows[o].run
      BY <1>1, <3>1 DEF IsLastRun
    <3>3. rows[o].run \in Nat /\ rows[j].run \in Nat
      BY <1>2, <3>1, RowsAre
    <3>. QED
      BY <3>1, <3>2, <3>3
  <2>5. rows[j].fp = Fingerprint /\ rows[j].fp = <<rows[j].on, "clean">>
    BY <1>4, <2>2, <2>3, <2>4 DEF HistoryInv, FingerprintInv
  <2>6. rows[j].on = tree.now
    BY <1>3, <2>5
  <2>7. PICK k \in DOMAIN rows' : IsCopy(rows'[k], rows[j], guid')
    BY <1>4, <2>3, PreparedRecords
  <2>8. plan'.on = tree.now
    BY <1>1 DEF Planned
  <2>. QED
    BY <2>3, <2>6, <2>7, <2>8 DEF IsCopy
<1>. QED
  BY <1>2, <1>4 DEF CheckSkipsOnlyProven

(* A preparation that resumes keeps the passes.                             *)
LEMMA PrepareKeeps ==
  ASSUME HistoryInv, NEW mode \in modes, NEW suite \in Suites, NEW aspects \in AspectLists,
         Prepare(mode, suite, aspects)
  PROVE  ResumeKeepsPasses'
<1>1. Planned(mode, suite, aspects) /\ plan'.suite = suite
  BY PreparePlans DEF Planned
<1>2. rows \in Seq(Record)
  BY DEF HistoryInv, TypeInv
<1>3. ASSUME plan'.effective = "resume", NEW r \in {rows'[i].run : i \in DOMAIN rows'} \ {guid'},
             \A q \in {rows'[i].run : i \in DOMAIN rows'} \ {guid'} : q =< r,
             NEW i \in DOMAIN rows', rows'[i].run = r, rows'[i].code = "OK", rows'[i].name \in suite
      PROVE  \E k \in DOMAIN rows' : rows'[k].run = guid' /\ rows'[k].code = "OK"
                                     /\ rows'[k].name = rows'[i].name
  <2>1. i \in DOMAIN rows /\ rows'[i] = rows[i]
    BY <1>3, PreparedRecords
  <2>2. \A j \in DOMAIN rows : rows[j].run =< rows[i].run
    BY <1>3, <2>1, PreparedRecords
  <2>3. i \in MostRecentRecords
    BY <2>1, <2>2 DEF MostRecentRecords
  <2>4. rows[i].name \in plan'.skipped
    BY <1>1, <1>3, <2>1, <2>3 DEF Planned, PassedIn
  <2>5. PICK k \in DOMAIN rows' : IsCopy(rows'[k], rows[i], guid')
    BY <2>3, <2>4, PreparedRecords
  <2>. QED
    BY <1>3, <2>1, <2>5 DEF IsCopy
<1>. QED
  BY <1>1, <1>3 DEF ResumeKeepsPasses, PassedIn, Records

(* A test's keys, one by one.                                               *)
LEMMA KeysOfTest ==
  ASSUME NEW aspects \in Seq(Aspects), NEW ctx, NEW t \in Tests,
         \A a \in Aspects : Key(a, t, ctx) \in Int
  PROVE  LET keys == KeysOf(aspects, ctx, t)
             n == Len(aspects)
         IN  /\ DOMAIN keys = 1..(n + 2)
             /\ keys[1] = SingletonKey(t) /\ keys[n + 2] = t
             /\ \A m \in 1..n : keys[m + 1] = Key(aspects[m], t, ctx)
<1>. DEFINE n == Len(aspects)
            mid == [a \in DOMAIN aspects |-> Key(aspects[a], t, ctx)]
            front == <<SingletonKey(t)>> \o mid
            keys == front \o <<t>>
<1>1. n \in Nat /\ DOMAIN aspects = 1..n /\ \A a \in 1..n : aspects[a] \in Aspects
  OBVIOUS
<1>2. mid \in [1..n -> Int] /\ \A a \in 1..n : mid[a] = Key(aspects[a], t, ctx)
  BY <1>1
<1>3. mid \in Seq(Int) /\ Len(mid) = n
  BY <1>1, <1>2
<1>4. <<SingletonKey(t)>> \in Seq(Int) /\ <<t>> \in Seq(Int)
  BY SingletonKeyIsInt, TestsAreNumbers
<1>. HIDE DEF mid, n
<1>5. /\ front \in Seq(Int) /\ Len(front) = n + 1 /\ front[1] = SingletonKey(t)
      /\ \A m \in 1..n : front[m + 1] = mid[m]
  BY <1>1, <1>3, <1>4
<1>. HIDE DEF front
<1>6. /\ DOMAIN keys = 1..(n + 2) /\ keys[n + 2] = t
      /\ \A m \in 1..(n + 1) : keys[m] = front[m]
  BY <1>1, <1>4, <1>5
<1>7. keys = KeysOf(aspects, ctx, t)
  BY DEF KeysOf, front, mid
<1>. HIDE DEF keys
<1>8. keys[1] = SingletonKey(t) /\ \A m \in 1..n : keys[m + 1] = Key(aspects[m], t, ctx)
  BY <1>1, <1>2, <1>5, <1>6
<1>. QED
  BY <1>6, <1>7, <1>8 DEF n

(* To come first in every aspect in turn is to have the smaller tuple.      *)
LEMMA PrecedesIsLess ==
  ASSUME NEW aspects \in Seq(Aspects), NEW ctx, NEW x \in Tests, NEW y \in Tests,
         \A a \in Aspects, t \in Tests : Key(a, t, ctx) \in Int,
         Precedes(aspects, ctx, 1, x, y)
  PROVE  LexLess(KeysOf(aspects, ctx, x), KeysOf(aspects, ctx, y))
<1>. DEFINE n == Len(aspects)
            X == KeysOf(aspects, ctx, x)
            Y == KeysOf(aspects, ctx, y)
<1>1. /\ DOMAIN X = 1..(n + 2) /\ X[1] = SingletonKey(x) /\ X[n + 2] = x
      /\ \A m \in 1..n : X[m + 1] = Key(aspects[m], x, ctx)
  BY KeysOfTest
<1>2. /\ DOMAIN Y = 1..(n + 2) /\ Y[1] = SingletonKey(y) /\ Y[n + 2] = y
      /\ \A m \in 1..n : Y[m + 1] = Key(aspects[m], y, ctx)
  BY KeysOfTest
<1>3. n \in Nat
  OBVIOUS
<1>. HIDE DEF n, X, Y
<1>4. ASSUME NEW u \in 0..n, SingletonKey(x) = SingletonKey(y), SameKeys(aspects, ctx, 1, u, x, y)
      PROVE  \A m \in 1..(u + 1) : X[m] = Y[m]
  <2>. SUFFICES ASSUME NEW m \in 1..(u + 1) PROVE X[m] = Y[m]
    OBVIOUS
  <2>1. CASE m = 1
    BY <1>1, <1>2, <1>4, <2>1
  <2>2. CASE m # 1
    <3>1. m - 1 \in 1..u /\ m - 1 \in 1..n /\ (m - 1) + 1 = m
      BY <1>3, <2>2
    <3>. QED
      BY <1>1, <1>2, <1>4, <3>1 DEF SameKeys
  <2>. QED
    BY <2>1, <2>2
<1>5. CASE SingletonKey(x) < SingletonKey(y)
  <2>1. 1 \in DOMAIN X /\ X[1] < Y[1] /\ 1..(1 - 1) = {}
    BY <1>1, <1>2, <1>3, <1>5
  <2>. QED
    BY <2>1 DEF LexLess, X, Y
<1>6. ASSUME NEW m \in 1..n, SingletonKey(x) = SingletonKey(y),
             Key(aspects[m], x, ctx) < Key(aspects[m], y, ctx), SameKeys(aspects, ctx, 1, m - 1, x, y)
      PROVE  LexLess(X, Y)
  <2>1. m - 1 \in 0..n /\ (m - 1) + 1 = (m + 1) - 1 /\ m + 1 \in 1..(n + 2)
    BY <1>3
  <2>2. \A l \in 1..((m + 1) - 1) : X[l] = Y[l]
    BY <1>4, <1>6, <2>1
  <2>3. X[m + 1] < Y[m + 1]
    BY <1>1, <1>2, <1>6
  <2>. QED
    BY <1>1, <2>1, <2>2, <2>3 DEF LexLess
<1>7. ASSUME SingletonKey(x) = SingletonKey(y), SameKeys(aspects, ctx, 1, n, x, y), x < y
      PROVE  LexLess(X, Y)
  <2>1. n \in 0..n /\ n + 1 = (n + 2) - 1 /\ n + 2 \in 1..(n + 2)
    BY <1>3
  <2>2. \A l \in 1..((n + 2) - 1) : X[l] = Y[l]
    BY <1>4, <1>7, <2>1
  <2>. QED
    BY <1>1, <1>2, <1>7, <2>1, <2>2 DEF LexLess
<1>. QED
  BY <1>5, <1>6, <1>7 DEF Precedes, n, X, Y

(* A preparation orders what it queues.                                     *)
LEMMA PrepareOrders ==
  ASSUME HistoryInv, NEW mode \in modes, NEW suite \in Suites, NEW aspects \in AspectLists,
         Prepare(mode, suite, aspects)
  PROVE  OrderFollowsAspects'
<1>. DEFINE todo == suite \ plan'.skipped
            order == plan'.order
            ctx == plan'.ctx
<1>1. /\ Lists(order, todo) /\ Ordered(aspects, ctx, 1, order)
      /\ \A a \in Aspects, t \in Tests : Key(a, t, ctx) \in Int
      /\ plan'.aspects = aspects /\ plan'.suite = suite
  BY PreparePlans DEF Planned
<1>2. aspects \in Seq(Aspects) /\ todo \in SUBSET Tests /\ IsFiniteSet(todo)
  <2>1. todo \in SUBSET Tests /\ IsFiniteSet(Tests)
    BY HistoryConstantsOK
  <2>. QED
    BY <2>1, HistoryConstantsOK, FS_Subset
<1>3. order \in Seq(todo) /\ \A t : t \in todo <=> \E k \in DOMAIN order : order[k] = t
  <2>. HIDE DEF order, todo
  <2>. QED
    BY <1>1, <1>2, ListsDoNotRepeat
<1>4. ASSUME NEW i \in DOMAIN order, NEW j \in DOMAIN order, i < j
      PROVE  LexLess(KeysOf(aspects, ctx, order[i]), KeysOf(aspects, ctx, order[j]))
  <2>1. order[i] \in Tests /\ order[j] \in Tests
    BY <1>2, <1>3
  <2>2. Precedes(aspects, ctx, 1, order[i], order[j])
    BY <1>1, <1>4 DEF Ordered
  <2>. HIDE DEF order, ctx
  <2>. QED
    BY <1>1, <1>2, <2>1, <2>2, PrecedesIsLess
<1>5. Range(order) = todo
  BY <1>3 DEF Range
<1>6. tree' = tree
  BY DEF Prepare
<1>7. /\ Range(plan'.order) = plan'.suite \ plan'.skipped
      /\ \A i, j \in DOMAIN plan'.order : i < j =>
           LexLess(KeysOf(plan'.aspects, plan'.ctx, plan'.order[i]), KeysOf(plan'.aspects, plan'.ctx, plan'.order[j]))
  BY <1>1, <1>4, <1>5
<1>8. \A t : SingletonKey(t)' = SingletonKey(t)
  BY <1>6 DEF SingletonKey
<1>. QED
  BY <1>6, <1>7 DEF OrderFollowsAspects, KeysOf, SingletonKey


-----------------------------------------------------------------------------
(* Theorems                                                                 *)

(* Checked together with the tick, the history is still the one of Spec.    *)
LEMMA RecordsHistory ==
  /\ RecordsInit => Init
  /\ [HistoryStep \/ TickStep \/ TabsStep \/ PanesStep]_<<focus, vars, tickVars, shownVars, tabVars, paneVars>>
       => [Next]_vars
BY DEF RecordsInit, HistoryStep, TickStep, TabsStep, PanesStep, vars

(* The invariant holds in every state, whatever the tests, the user and the *)
(* program under test do.                                                   *)
THEOREM HistoryCorrect ==
  /\ Spec => []HistoryInv
  /\ RecordsSpec => []HistoryInv
<1>1. Init => HistoryInv
  BY InitHistoryInv
<1>2. HistoryInv /\ [Next]_vars => HistoryInv'
  BY StepHistoryInv
<1>3. Spec => []HistoryInv
  BY <1>1, <1>2, PTL DEF Spec
<1>4. RecordsSpec => []HistoryInv
  BY <1>1, <1>2, RecordsHistory, PTL DEF RecordsSpec
<1>. QED
  BY <1>3, <1>4

(* Whatever is copied, stopped or killed, what query_last_pass finds for a  *)
(* test is its last execution that passed.                                  *)
THEOREM LastPassCorrect ==
  /\ Spec => []LastPassIsGenuine
  /\ RecordsSpec => []LastPassIsGenuine
<1>1. HistoryInv => LastPassIsGenuine
  BY LastPassOf DEF LastPassIsGenuine
<1>. QED
  BY <1>1, HistoryCorrect, PTL

(* Resuming loses no pass, for chains of runs of any length.                *)
THEOREM ResumeCorrect ==
  /\ Spec => []ResumeKeepsPasses
  /\ RecordsSpec => []ResumeKeepsPasses
<1>1. Init => ResumeKeepsPasses
  BY DEF Init, ResumeKeepsPasses
<1>2. HistoryInv /\ ResumeKeepsPasses /\ [Next]_vars => ResumeKeepsPasses'
  <2>. SUFFICES ASSUME HistoryInv, ResumeKeepsPasses, [Next]_vars PROVE ResumeKeepsPasses'
    OBVIOUS
  <2>1. CASE phase' # "prepared"
    BY <2>1 DEF ResumeKeepsPasses
  <2>2. CASE UNCHANGED vars
    BY <2>2 DEF vars, ResumeKeepsPasses, PassedIn, Records
  <2>3. CASE \E mode \in modes, suite \in Suites, aspects \in AspectLists : Prepare(mode, suite, aspects)
    BY <2>3, PrepareKeeps
  <2>. QED
    BY <2>1, <2>2, <2>3, OnlyPreparePrepares
<1>3. Spec => []ResumeKeepsPasses
  BY <1>1, <1>2, HistoryCorrect, PTL DEF Spec
<1>4. RecordsSpec => []ResumeKeepsPasses
  BY <1>1, <1>2, HistoryCorrect, RecordsHistory, PTL DEF RecordsSpec
<1>. QED
  BY <1>3, <1>4

(* The chain of stable sorts queues each test once, in the lexicographic    *)
(* order of the aspects, for any tests and any list of aspects.             *)
THEOREM OrderCorrect ==
  /\ Spec => []OrderFollowsAspects
  /\ RecordsSpec => []OrderFollowsAspects
<1>1. Init => OrderFollowsAspects
  BY DEF Init, OrderFollowsAspects
<1>2. HistoryInv /\ OrderFollowsAspects /\ [Next]_vars => OrderFollowsAspects'
  <2>. SUFFICES ASSUME HistoryInv, OrderFollowsAspects, [Next]_vars PROVE OrderFollowsAspects'
    OBVIOUS
  <2>1. CASE phase' # "prepared"
    BY <2>1 DEF OrderFollowsAspects
  <2>2. CASE UNCHANGED vars
    BY <2>2 DEF vars, OrderFollowsAspects, KeysOf, SingletonKey
  <2>3. CASE \E mode \in modes, suite \in Suites, aspects \in AspectLists : Prepare(mode, suite, aspects)
    BY <2>3, PrepareOrders
  <2>. QED
    BY <2>1, <2>2, <2>3, OnlyPreparePrepares
<1>3. Spec => []OrderFollowsAspects
  BY <1>1, <1>2, HistoryCorrect, PTL DEF Spec
<1>4. RecordsSpec => []OrderFollowsAspects
  BY <1>1, <1>2, HistoryCorrect, RecordsHistory, PTL DEF RecordsSpec
<1>. QED
  BY <1>3, <1>4

(* If tests are only run on committed programs, CHECK skips only what has   *)
(* passed on the very program there is.                                     *)
THEOREM CheckCorrect ==
  ASSUME ~ DirtyRuns
  PROVE  /\ Spec => []CheckSkipsOnlyProven
         /\ RecordsSpec => []CheckSkipsOnlyProven
<1>1. Init => CheckSkipsOnlyProven
  BY DEF Init, CheckSkipsOnlyProven
<1>2. HistoryInv /\ CheckSkipsOnlyProven /\ [Next]_vars => CheckSkipsOnlyProven'
  <2>. SUFFICES ASSUME HistoryInv, CheckSkipsOnlyProven, [Next]_vars PROVE CheckSkipsOnlyProven'
    OBVIOUS
  <2>1. CASE phase' # "prepared"
    BY <2>1 DEF CheckSkipsOnlyProven
  <2>2. CASE UNCHANGED vars
    BY <2>2 DEF vars, CheckSkipsOnlyProven
  <2>3. CASE \E mode \in modes, suite \in Suites, aspects \in AspectLists : Prepare(mode, suite, aspects)
    BY <2>3, PrepareProven
  <2>. QED
    BY <2>1, <2>2, <2>3, OnlyPreparePrepares
<1>3. Spec => []CheckSkipsOnlyProven
  BY <1>1, <1>2, HistoryCorrect, PTL DEF Spec
<1>4. RecordsSpec => []CheckSkipsOnlyProven
  BY <1>1, <1>2, HistoryCorrect, RecordsHistory, PTL DEF RecordsSpec
<1>. QED
  BY <1>3, <1>4
=============================================================================
