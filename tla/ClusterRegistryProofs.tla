----------------------- MODULE ClusterRegistryProofs -----------------------
(* For any clusters, requests, I/O errors and crashes: the three structures *)
(* of the registry agree, the file follows them, and its clients see one    *)
(* change at a time.                                                        *)
EXTENDS ClusterRegistry, FiniteSetTheorems, SequenceTheorems, WellFoundedInduction, TLAPS

-----------------------------------------------------------------------------
(* Sorting a finite set of ids *)

LEMMA LeastElement ==
  ASSUME NEW T \in SUBSET Nat, T # {}
  PROVE  \E x \in T : \A y \in T : x <= y
<1>1. \E x \in T : \A y \in T : ~(<<y, x>> \in OpToRel(<, Nat))
  BY WFMin, NatLessThanWellFounded
<1>2. ASSUME NEW x \in Nat, NEW y \in Nat, y < x  PROVE <<y, x>> \in OpToRel(<, Nat)
  BY <1>2 DEF OpToRel
<1>3. PICK x \in T : \A y \in T : ~(<<y, x>> \in OpToRel(<, Nat))
  BY <1>1
<1>4. ASSUME NEW y \in T  PROVE x <= y
  <2>1. x \in Nat /\ y \in Nat /\ ~(y < x)
    BY <1>2, <1>3
  <2>. QED  BY <2>1
<1>. QED  BY <1>4

\* s lists the set S in ascending order.
Lists(s, S) ==
  /\ s \in [1..Cardinality(S) -> S]
  /\ \A i, j \in 1..Cardinality(S) : i < j => s[i] < s[j]

IdSets == {S \in SUBSET Nat : IsFiniteSet(S)}

\* Each step below takes the least id out.
LEMMA ListExtends ==
  ASSUME NEW S \in IdSets, NEW m \in S, \A y \in S : m <= y,
         NEW s, Lists(s, S \ {m})
  PROVE  \E t : Lists(t, S)
<1>. DEFINE n == Cardinality(S)
            t == [i \in 1..n |-> IF i = 1 THEN m ELSE s[i - 1]]
<1>1. /\ IsFiniteSet(S \ {m}) /\ Cardinality(S \ {m}) = n - 1 /\ n \in Nat /\ n - 1 \in Nat
  BY FS_RemoveElement, FS_CardinalityType DEF IdSets
<1>2. \A i \in 1..(n - 1) : s[i] \in S \ {m} /\ m < s[i] /\ s[i] \in Nat
  <2>1. ASSUME NEW i \in 1..(n - 1)  PROVE s[i] \in S /\ s[i] # m
    BY <1>1 DEF Lists
  <2>2. S \in SUBSET Nat
    BY DEF IdSets
  <2>3. ASSUME NEW y \in S, y # m  PROVE m < y /\ y \in Nat
    BY <2>2, <2>3
  <2>. QED  BY <2>1, <2>3
<1>3. t \in [1..n -> S]
  BY <1>1, <1>2
<1>4. ASSUME NEW i \in 1..n, NEW j \in 1..n, i < j  PROVE t[i] < t[j]
  <2>1. CASE i = 1
    BY <1>1, <1>2, <1>4, <2>1
  <2>2. CASE i # 1
    <3>1. i - 1 \in 1..(n - 1) /\ j - 1 \in 1..(n - 1) /\ i - 1 < j - 1
      BY <1>1, <1>4, <2>2
    <3>2. s[i - 1] < s[j - 1]
      BY <1>1, <3>1 DEF Lists
    <3>. QED  BY <1>4, <2>2, <3>1, <3>2
  <2>. QED  BY <2>1, <2>2
<1>. HIDE DEF t
<1>. QED  BY <1>3, <1>4 DEF Lists

LEMMA ListExists ==
  ASSUME NEW S \in IdSets
  PROVE  \E s : Lists(s, S)
<1>. DEFINE Bad == {n \in Nat : \E T \in IdSets : Cardinality(T) = n /\ ~\E s : Lists(s, T)}
<1>1. Bad = {}
  <2>1. SUFFICES ASSUME Bad # {}  PROVE FALSE
    OBVIOUS
  <2>2. PICK n \in Bad : \A k \in Bad : n <= k
    BY <2>1, LeastElement
  <2>3. PICK T \in IdSets : Cardinality(T) = n /\ ~\E s : Lists(s, T)
    OBVIOUS
  <2>4. T # {}
    <3>1. Lists(<<>>, {})
      BY FS_EmptySet DEF Lists
    <3>. QED  BY <2>3, <3>1
  <2>5. PICK m \in T : \A y \in T : m <= y
    BY <2>4, LeastElement DEF IdSets
  <2>6. IsFiniteSet(T \ {m}) /\ Cardinality(T \ {m}) = n - 1 /\ n \in Nat /\ n - 1 \in Nat
    <3>1. IsFiniteSet(T) /\ Cardinality(T) = n
      BY <2>3 DEF IdSets
    <3>2. IsFiniteSet(T \ {m}) /\ Cardinality(T \ {m}) = n - 1
      BY <3>1, FS_RemoveElement
    <3>. QED  BY <3>1, <3>2, FS_CardinalityType
  <2>7. T \ {m} \in IdSets /\ n - 1 \notin Bad
    BY <2>2, <2>6 DEF IdSets
  <2>8. \E s : Lists(s, T \ {m})
    BY <2>6, <2>7
  <2>. QED  BY <2>3, <2>5, <2>8, ListExtends
<1>2. Cardinality(S) \in Nat
  BY FS_CardinalityType DEF IdSets
<1>. QED  BY <1>1, <1>2

LEMMA SortedLists ==
  ASSUME NEW S \in IdSets
  PROVE  Lists(Sorted(S), S)
BY ListExists DEF Lists, Sorted

LEMMA ListIsComplete ==
  ASSUME NEW S \in IdSets, NEW s, Lists(s, S), NEW x \in S
  PROVE  \E i \in 1..Cardinality(S) : s[i] = x
<1>. DEFINE n == Cardinality(S)
<1>1. n \in Nat /\ IsFiniteSet(S) /\ IsFiniteSet(1..n) /\ Cardinality(1..n) = n
  BY FS_CardinalityType, FS_Interval DEF IdSets
<1>2. s \in Injection(1..n, S)
  <2>1. \A i, j \in 1..n : s[i] = s[j] => i = j
    <3>1. \A i \in 1..n : s[i] \in Nat
      BY DEF Lists, IdSets
    <3>2. \A i, j \in 1..n : i < j => s[i] < s[j]
      BY DEF Lists
    <3>3. ASSUME NEW i \in 1..n, NEW j \in 1..n, i < j  PROVE s[i] # s[j]
      BY <3>1, <3>2, <3>3
    <3>. HIDE DEF n
    <3>. QED  BY <1>1, <3>3
  <2>. QED  BY <2>1 DEF Lists, Injection, IsInjective
<1>3. s \in Surjection(1..n, S)
  BY <1>1, <1>2, FS_Injection
<1>. QED  BY <1>3 DEF Surjection

LEMMA SameFunction ==
  ASSUME NEW D, NEW R, NEW f \in [D -> R], NEW g \in [D -> R], \A d \in D : f[d] = g[d]
  PROVE  f = g
OBVIOUS

\* There is one ascending list of a set.
LEMMA ListIsUnique ==
  ASSUME NEW S \in IdSets, NEW s, NEW t, Lists(s, S), Lists(t, S)
  PROVE  s = t
<1>. DEFINE n == Cardinality(S)
            Differ == {i \in 1..n : s[i] # t[i]}
<1>1. n \in Nat
  BY FS_CardinalityType DEF IdSets
<1>2. \A i \in 1..n : s[i] \in S /\ t[i] \in S /\ s[i] \in Nat /\ t[i] \in Nat
  BY DEF Lists, IdSets
<1>3. Differ = {}
  <2>1. SUFFICES ASSUME Differ # {}  PROVE FALSE
    OBVIOUS
  <2>2. PICK i \in Differ : \A j \in Differ : i <= j
    <3>1. Differ \in SUBSET Nat
      BY <1>1
    <3>. QED  BY <2>1, <3>1, LeastElement
  <2>3. \A j \in 1..n : j < i => s[j] = t[j]
    BY <1>1, <2>2
  <2>4. i \in 1..n /\ s[i] # t[i]
    OBVIOUS
  <2>5. PICK j \in 1..n : t[j] = s[i]
    BY <1>2, <2>4, ListIsComplete
  <2>6. PICK k \in 1..n : s[k] = t[i]
    BY <1>2, <2>4, ListIsComplete
  <2>7. j > i /\ k > i
    BY <1>1, <1>2, <2>3, <2>4, <2>5, <2>6 DEF Lists
  <2>8. t[i] < s[i] /\ s[i] < t[i]
    BY <1>1, <2>4, <2>5, <2>6, <2>7 DEF Lists
  <2>. QED  BY <1>2, <2>4, <2>8
<1>. DEFINE D == 1..n
<1>4. s \in [D -> S] /\ t \in [D -> S] /\ \A d \in D : s[d] = t[d]
  BY <1>3 DEF Lists
<1>. HIDE DEF D
<1>. QED  BY <1>4, SameFunction

\* sort.Strings on a list without duplicates.
LEMMA SortStringsLists ==
  ASSUME NEW S \in IdSets, NEW s \in [1..Cardinality(S) -> S],
         \A i, j \in 1..Cardinality(S) : s[i] = s[j] => i = j
  PROVE  SortStrings(s) = Sorted(S)
<1>. DEFINE n == Cardinality(S)
            t == Sorted(S)
            p == [i \in 1..n |-> CHOOSE j \in 1..n : s[j] = t[i]]
            Sorts(u) == /\ \A i, j \in DOMAIN s : i < j => u[i] <= u[j]
                        /\ \E q \in Bijection(DOMAIN s, DOMAIN s) :
                             \A i \in DOMAIN s : u[i] = s[q[i]]
<1>1. n \in Nat /\ IsFiniteSet(S) /\ IsFiniteSet(1..n) /\ Cardinality(1..n) = n
  BY FS_CardinalityType, FS_Interval DEF IdSets
<1>2. s \in Injection(1..n, S) /\ DOMAIN s = 1..n
  BY DEF Injection, IsInjective
<1>3. \A x \in S : \E j \in 1..n : s[j] = x
  BY <1>1, <1>2, FS_Injection DEF Surjection
<1>4. Range(s) = S
  BY <1>2, <1>3 DEF Range
<1>5. Lists(t, S)
  BY SortedLists
<1>6. \A i \in 1..n : p[i] \in 1..n /\ s[p[i]] = t[i]
  BY <1>3, <1>5 DEF Lists
<1>7. p \in Bijection(1..n, 1..n)
  <2>1. p \in [1..n -> 1..n]
    BY <1>6
  <2>2. \A i, j \in 1..n : p[i] = p[j] => i = j
    <3>1. \A i, j \in 1..n : i # j => t[i] # t[j]
      <4>1. \A i \in 1..n : t[i] \in Nat
        BY <1>5 DEF Lists, IdSets
      <4>2. \A i, j \in 1..n : i < j => t[i] < t[j]
        BY <1>5 DEF Lists
      <4>. HIDE DEF t
      <4>. QED  BY <1>1, <4>1, <4>2
    <3>. HIDE DEF p, t
    <3>. QED  BY <1>6, <3>1
  <2>. HIDE DEF p
  <2>3. p \in Injection(1..n, 1..n)
    BY <2>1, <2>2 DEF Injection, IsInjective
  <2>4. p \in Surjection(1..n, 1..n)
    BY <1>1, <2>3, FS_Injection
  <2>. QED  BY <2>3, <2>4 DEF Bijection
<1>8. t \in [DOMAIN s -> Range(s)] /\ Sorts(t)
  <2>1. \A i, j \in 1..n : i < j => t[i] <= t[j]
    <3>1. \A i \in 1..n : t[i] \in Nat
      BY <1>5 DEF Lists, IdSets
    <3>2. \A i, j \in 1..n : i < j => t[i] < t[j]
      BY <1>5 DEF Lists
    <3>. HIDE DEF t
    <3>. QED  BY <3>1, <3>2
  <2>. HIDE DEF t, p
  <2>. QED  BY <1>2, <1>4, <1>5, <1>6, <1>7, <2>1 DEF Lists
<1>9. SortStrings(s) \in [1..n -> S] /\ Sorts(SortStrings(s))
  <2>1. SortStrings(s) = CHOOSE u \in [DOMAIN s -> Range(s)] : Sorts(u)
    BY DEF SortStrings
  <2>. HIDE DEF Sorts, t
  <2>. QED  BY <1>2, <1>4, <1>8, <2>1
<1>10. Lists(SortStrings(s), S)
  <2>. DEFINE u == SortStrings(s)
  <2>1. PICK q \in Bijection(1..n, 1..n) : \A i \in 1..n : u[i] = s[q[i]]
    BY <1>2, <1>9
  <2>2. \A i, j \in 1..n : i < j => u[i] <= u[j]
    BY <1>2, <1>9
  <2>3. \A i, j \in 1..n : u[i] = u[j] => i = j
    BY <2>1 DEF Bijection, Injection, IsInjective
  <2>. HIDE DEF u
  <2>4. u \in [1..n -> S]
    BY <1>9 DEF u
  <2>5. \A i, j \in 1..n : i < j => u[i] < u[j]
    <3>1. \A i \in 1..n : u[i] \in Nat
      BY <2>4 DEF IdSets
    <3>2. ASSUME NEW i \in 1..n, NEW j \in 1..n, i < j  PROVE u[i] <= u[j] /\ u[i] # u[j]
      BY <1>1, <2>2, <2>3, <3>2
    <3>. QED  BY <3>1, <3>2
  <2>. QED  BY <2>4, <2>5 DEF Lists, u
<1>. QED  BY <1>5, <1>10, ListIsUnique

LEMMA SetChanges ==
  ASSUME NEW S \in IdSets, NEW id \in Nat
  PROVE  /\ S \cup {id} \in IdSets /\ S \ {id} \in IdSets /\ Cardinality(S) \in Nat
         /\ id \notin S => Cardinality(S \cup {id}) = Cardinality(S) + 1
         /\ id \in S => Cardinality(S \ {id}) = Cardinality(S) - 1
BY FS_AddElement, FS_RemoveElement, FS_CardinalityType DEF IdSets

\* The list as a sequence, all its elements different.
LEMMA ListElements ==
  ASSUME NEW S \in IdSets, NEW s, Lists(s, S)
  PROVE  /\ s \in Seq(S) /\ Len(s) = Cardinality(S) /\ Cardinality(S) \in Nat
         /\ DOMAIN s = 1..Cardinality(S)
         /\ \A i \in 1..Cardinality(S) : s[i] \in S /\ s[i] \in Nat
         /\ \A i, j \in 1..Cardinality(S) : s[i] = s[j] => i = j
         /\ \A i, j \in 1..Cardinality(S) : i < j => s[i] < s[j]
<1>. DEFINE n == Cardinality(S)
<1>1. n \in Nat
  BY FS_CardinalityType DEF IdSets
<1>2. s \in [1..n -> S] /\ \A i, j \in 1..n : i < j => s[i] < s[j]
  BY DEF Lists
<1>3. \A i \in 1..n : s[i] \in S /\ s[i] \in Nat
  BY <1>2 DEF IdSets
<1>4. ASSUME NEW i \in 1..n, NEW j \in 1..n, i < j  PROVE s[i] # s[j]
  BY <1>2, <1>3, <1>4
<1>. HIDE DEF n
<1>5. \A i, j \in 1..n : s[i] = s[j] => i = j
  BY <1>1, <1>4
<1>6. s \in Seq(S) /\ Len(s) = n
  BY <1>1, <1>2
<1>. QED  BY <1>1, <1>2, <1>3, <1>5, <1>6 DEF n

\* registerCluster: the id is appended and the order sorted.
LEMMA OrderWithNewId ==
  ASSUME NEW S \in IdSets, NEW id \in Nat, id \notin S, NEW s, Lists(s, S)
  PROVE  SortStrings(Append(s, id)) = Sorted(S \cup {id})
<1>. DEFINE n == Cardinality(S)
            u == Append(s, id)
            T == S \cup {id}
<1>1. n \in Nat /\ T \in IdSets /\ Cardinality(T) = n + 1
  BY SetChanges
<1>2. /\ s \in Seq(T) /\ Len(s) = n
      /\ \A i \in 1..n : s[i] \in S
      /\ \A i, j \in 1..n : s[i] = s[j] => i = j
  BY ListElements
<1>3. /\ u \in Seq(T) /\ Len(u) = n + 1 /\ u[n + 1] = id
      /\ \A i \in 1..n : u[i] = s[i]
  BY <1>2, AppendProperties
<1>. HIDE DEF u, n, T
<1>4. u \in [1..(n + 1) -> T]
  BY <1>1, <1>3
<1>5. ASSUME NEW i \in 1..(n + 1), NEW j \in 1..(n + 1), u[i] = u[j]  PROVE i = j
  <2>1. CASE i \in 1..n /\ j \in 1..n
    BY <1>2, <1>3, <1>5, <2>1
  <2>2. CASE i = n + 1 \/ j = n + 1
    BY <1>1, <1>2, <1>3, <1>5, <2>2
  <2>. QED  BY <1>1, <2>1, <2>2
<1>6. SortStrings(u) = Sorted(T)
  BY <1>1, <1>4, <1>5, SortStringsLists
<1>. QED  BY <1>6 DEF u, T

\* updateCluster: the id is replaced in its place and the order sorted.
LEMMA OrderWithOtherId ==
  ASSUME NEW S \in IdSets, NEW old \in S, NEW id \in Nat, id \notin S \/ id = old,
         NEW s, Lists(s, S), NEW p \in DOMAIN s, s[p] = old
  PROVE  SortStrings([s EXCEPT ![p] = id]) = Sorted((S \ {old}) \cup {id})
<1>. DEFINE n == Cardinality(S)
            u == [s EXCEPT ![p] = id]
            T == (S \ {old}) \cup {id}
<1>1. n \in Nat /\ T \in IdSets /\ Cardinality(T) = n
  <2>1. old \in Nat /\ S \ {old} \in IdSets /\ Cardinality(S \ {old}) = n - 1 /\ n \in Nat
    BY SetChanges DEF IdSets
  <2>2. T \in IdSets /\ Cardinality(T) = (n - 1) + 1
    BY <2>1, SetChanges
  <2>. QED  BY <2>1, <2>2
<1>2. /\ s \in [1..n -> S] /\ p \in 1..n
      /\ \A i, j \in 1..n : s[i] = s[j] => i = j
  BY ListElements DEF Lists
<1>. HIDE DEF n
<1>3. u \in [1..n -> T]
  BY <1>2
<1>4. \A i, j \in 1..n : u[i] = u[j] => i = j
  BY <1>2
<1>5. SortStrings(u) = Sorted(T)
  <2>. HIDE DEF u, T
  <2>. QED  BY <1>1, <1>3, <1>4, SortStringsLists
<1>. QED  BY <1>5

\* deleteCluster: the id is cut out, and the rest stays sorted.
LEMMA OrderWithoutId ==
  ASSUME NEW S \in IdSets, NEW old \in S, NEW s, Lists(s, S), NEW p \in DOMAIN s, s[p] = old
  PROVE  SubSeq(s, 1, p - 1) \o SubSeq(s, p + 1, Len(s)) = Sorted(S \ {old})
<1>. DEFINE n == Cardinality(S)
            front == SubSeq(s, 1, p - 1)
            back == SubSeq(s, p + 1, Len(s))
            u == front \o back
            T == S \ {old}
<1>1. old \in Nat /\ n \in Nat /\ T \in IdSets /\ Cardinality(T) = n - 1
  BY SetChanges DEF IdSets
<1>2. /\ s \in Seq(S) /\ Len(s) = n /\ p \in 1..n
      /\ \A i \in 1..n : s[i] \in S
      /\ \A i, j \in 1..n : s[i] = s[j] => i = j
      /\ \A i, j \in 1..n : i < j => s[i] < s[j]
  BY ListElements
<1>. HIDE DEF n
<1>3. /\ front \in Seq(S) /\ Len(front) = p - 1
      /\ \A i \in 1..(p - 1) : front[i] = s[i]
  BY <1>1, <1>2, SubSeqProperties
<1>4. /\ back \in Seq(S) /\ Len(back) = n - p
      /\ \A i \in 1..(n - p) : back[i] = s[p + i]
  BY <1>1, <1>2, SubSeqProperties
<1>. HIDE DEF front, back
<1>5. /\ u \in Seq(S) /\ Len(u) = n - 1
      /\ \A i \in 1..(n - 1) : u[i] = IF i <= p - 1 THEN front[i] ELSE back[i - (p - 1)]
  <2>1. /\ u \in Seq(S) /\ Len(u) = Len(front) + Len(back)
        /\ \A i \in 1..(Len(front) + Len(back)) :
             u[i] = IF i <= Len(front) THEN front[i] ELSE back[i - Len(front)]
    BY <1>3, <1>4, ConcatProperties
  <2>2. Len(front) = p - 1 /\ Len(front) + Len(back) = n - 1
    BY <1>1, <1>2, <1>3, <1>4
  <2>. HIDE DEF u
  <2>. QED  BY <2>1, <2>2
<1>. HIDE DEF u
<1>6. ASSUME NEW i \in 1..(n - 1)  PROVE u[i] = IF i < p THEN s[i] ELSE s[i + 1]
  <2>1. CASE i < p
    BY <1>1, <1>2, <1>3, <1>5, <2>1
  <2>2. CASE ~(i < p)
    <3>1. /\ i - (p - 1) \in 1..(n - p) /\ p + (i - (p - 1)) = i + 1 /\ ~(i <= p - 1)
      BY <1>1, <1>2, <2>2
    <3>. QED  BY <1>4, <1>5, <2>2, <3>1
  <2>. QED  BY <2>1, <2>2
<1>7. u \in [1..(n - 1) -> T]
  <2>1. \A i \in 1..(n - 1) : u[i] \in T
    BY <1>1, <1>2, <1>6
  <2>. QED  BY <1>1, <1>5, <2>1
<1>8. ASSUME NEW i \in 1..(n - 1), NEW j \in 1..(n - 1), i < j  PROVE u[i] < u[j]
  <2>1. CASE j < p
    BY <1>1, <1>2, <1>6, <1>8, <2>1
  <2>2. CASE i < p /\ ~(j < p)
    BY <1>1, <1>2, <1>6, <1>8, <2>2
  <2>3. CASE ~(i < p)
    BY <1>1, <1>2, <1>6, <1>8, <2>3
  <2>. QED  BY <1>1, <1>2, <2>1, <2>2, <2>3
<1>9. Lists(u, T)
  <2>. HIDE DEF T
  <2>. QED  BY <1>1, <1>7, <1>8 DEF Lists
<1>. QED  BY <1>1, <1>9, SortedLists, ListIsUnique DEF u, front, back

-----------------------------------------------------------------------------
(* Registries and what the operations make of them *)

LEMMA RegistryParts ==
  ASSUME NEW f \in Registries
  PROVE  /\ f \in [DOMAIN f -> Definitions] /\ DOMAIN f \in SUBSET (Ids \ Base)
         /\ f # Torn
BY TornAssumption DEF Registries

LEMMA IsRegistry ==
  ASSUME NEW ids \in SUBSET (Ids \ Base), NEW f \in [ids -> Definitions]
  PROVE  f \in Registries
BY DEF Registries

LEMMA DropKeeps ==
  ASSUME NEW f \in Registries, NEW id
  PROVE  Drop(f, id) \in Registries /\ DOMAIN Drop(f, id) = DOMAIN f \ {id}
<1>1. Drop(f, id) = [x \in DOMAIN f \ {id} |-> f[x]]
  BY DEF Drop, Restrict
<1>2. Drop(f, id) \in [DOMAIN f \ {id} -> Definitions]
  BY <1>1, RegistryParts
<1>. QED  BY <1>1, <1>2, RegistryParts, IsRegistry

LEMMA PutKeeps ==
  ASSUME NEW f \in Registries, NEW id \in Ids \ Base, NEW def \in Definitions
  PROVE  Put(f, id, def) \in Registries /\ DOMAIN Put(f, id, def) = DOMAIN f \cup {id}
<1>1. Put(f, id, def) \in [DOMAIN f \cup {id} -> Definitions]
  BY RegistryParts DEF Put
<1>. QED  BY <1>1, RegistryParts, IsRegistry

LEMMA EmptyRegistry == NoClusters \in Registries
<1>1. NoClusters \in [{} -> Definitions]
  BY DEF NoClusters
<1>. QED  BY <1>1, IsRegistry

\* The ids of the merged map are finitely many numbers.
LEMMA MergedIds ==
  ASSUME NEW f \in Registries
  PROVE  /\ DOMAIN Merge(f) = Base \cup DOMAIN f /\ Base \cup DOMAIN f \in IdSets
         /\ DOMAIN Merge(f) \subseteq Ids /\ Range(Merge(f)) \subseteq Definitions \cup {Startup}
         /\ Sorted(Base \cup DOMAIN f) \in Seq(Ids)
<1>1. DOMAIN Merge(f) = Base \cup DOMAIN f /\ Base \cup DOMAIN f \subseteq Ids
  BY RegistryParts, IdsAssumption DEF Merge
<1>2. IsFiniteSet(Base \cup DOMAIN f)
  BY <1>1, IdsAssumption, FS_Subset
<1>3. Base \cup DOMAIN f \in IdSets
  BY <1>1, <1>2, IdsAssumption DEF IdSets
<1>4. Range(Merge(f)) \subseteq Definitions \cup {Startup}
  BY RegistryParts DEF Merge, Range
<1>5. Sorted(Base \cup DOMAIN f) \in Seq(Base \cup DOMAIN f)
  BY <1>3, SortedLists, ListElements
<1>6. Sorted(Base \cup DOMAIN f) \in Seq(Ids)
  BY <1>1, <1>5, SeqMonotonic
<1>. QED  BY <1>1, <1>3, <1>4, <1>6

LEMMA MergePut ==
  ASSUME NEW f \in Registries, NEW id \in Ids \ Base, NEW def \in Definitions
  PROVE  Put(Merge(f), id, def) = Merge(Put(f, id, def))
BY DEF Put, Merge

LEMMA MergeDrop ==
  ASSUME NEW f \in Registries, NEW id \in Ids \ Base
  PROVE  Drop(Merge(f), id) = Merge(Drop(f, id))
BY DEF Drop, Restrict, Merge

-----------------------------------------------------------------------------
(* The inductive invariant *)

Saving == {"save", "write", "commit"}
Pcs == Saving \cup {"idle", "admission", "lock", "done"}

\* Whoever saves holds clusterMu; nobody is answered before the end.
Phases ==
  /\ pc \in [Requests -> Pcs] /\ DOMAIN answer = Requests
  /\ \A r \in Requests :
       /\ pc[r] # "done" => answer[r] = "none"
       /\ pc[r] \in Saving <=> lock = r
       /\ up # "up" => pc[r] \in {"idle", "done"}

\* The registry has not changed since the holder of clusterMu looked at it.
Saves == \A r \in Requests :
  lock = r => Refusal(request[r]) = "none" /\ next[r] = NextPersisted(request[r])

\* The file during a save.
FileFollows == up = "up" =>
  /\ \A r \in Requests : /\ pc[r] = "write" => disk = Torn
                         /\ pc[r] = "commit" => disk = next[r]
  /\ disk \in {persisted, Torn} \/ \E r \in Requests : pc[r] = "commit"

IInv == RegistryIsConsistent /\ Phases /\ Saves /\ FileFollows

LEMMA RequestParts ==
  ASSUME TypeOK, NEW r \in Requests
  PROVE  /\ request[r].kind \in {"register", "update", "delete"}
         /\ request[r].old \in Ids /\ request[r].id \in Ids
         /\ request[r].def \in Definitions
BY OperationAssumption DEF TypeOK

\* What an operation that is not refused works on.
LEMMA NotRefused ==
  ASSUME RegistryIsConsistent, up = "up", NEW r \in Requests, Refusal(request[r]) = "none"
  PROVE  /\ request[r].kind = "register" =>
              request[r].id \in Ids \ Base /\ request[r].id \notin DOMAIN persisted
         /\ request[r].kind # "register" => request[r].old \in DOMAIN persisted
         /\ request[r].kind = "update" =>
              /\ request[r].id \in Ids \ Base
              /\ request[r].id = request[r].old \/ request[r].id \notin DOMAIN persisted
         /\ NextPersisted(request[r]) \in Registries
<1>1. persisted \in Registries /\ DOMAIN clusters = Base \cup DOMAIN persisted
  BY MergedIds DEF RegistryIsConsistent, TypeOK
<1>2. DOMAIN persisted \subseteq Ids \ Base
  BY <1>1, RegistryParts
<1>3. /\ request[r].kind \in {"register", "update", "delete"}
      /\ request[r].old \in Ids /\ request[r].id \in Ids /\ request[r].def \in Definitions
  BY RequestParts DEF RegistryIsConsistent
<1>4. CASE request[r].kind = "register"
  BY <1>1, <1>3, <1>4, PutKeeps DEF Refusal, NextPersisted
<1>5. CASE request[r].kind = "update"
  <2>1. request[r].old \in DOMAIN persisted
    BY <1>1, <1>5 DEF Refusal
  <2>2. request[r].id = request[r].old \/ request[r].id \notin DOMAIN clusters
    BY <1>1, <1>5, <2>1 DEF Refusal
  <2>3. request[r].id \in Ids \ Base
    BY <1>1, <1>2, <1>3, <2>1, <2>2
  <2>4. NextPersisted(request[r]) \in Registries
    BY <1>1, <1>3, <1>5, <2>3, DropKeeps, PutKeeps DEF NextPersisted
  <2>. QED  BY <1>1, <1>5, <2>1, <2>2, <2>3, <2>4
<1>6. CASE request[r].kind = "delete"
  BY <1>1, <1>6, DropKeeps DEF Refusal, NextPersisted
<1>. QED  BY <1>3, <1>4, <1>5, <1>6

-----------------------------------------------------------------------------
(* The actions *)

\* What the memory holds after a start from the registry f.
LEMMA Loaded ==
  ASSUME NEW f \in Registries, clusters' = Merge(f), order' = Sorted(Base \cup DOMAIN f)
  PROVE  /\ DOMAIN clusters' \subseteq Ids /\ Range(clusters') \subseteq Definitions \cup {Startup}
         /\ order' \in Seq(Ids) /\ order' = Sorted(DOMAIN clusters')
BY MergedIds

LEMMA InitHolds ==
  ASSUME Init
  PROVE  IInv
<1>1. disk \in Registries /\ persisted = disk /\ clusters = Merge(disk)
      /\ order = Sorted(Base \cup DOMAIN disk) /\ up = "up"
  BY DEF Init
<1>2. NoClusters \in Registries
  BY EmptyRegistry
<1>3. RegistryIsConsistent
  BY <1>1, <1>2, MergedIds, BoundsAssumption DEF Init, RegistryIsConsistent, TypeOK
<1>4. Phases
  BY RequestAssumption DEF Init, Phases, Pcs, Saving
<1>. QED  BY <1>1, <1>3, <1>4, RequestAssumption DEF Init, IInv, Saves, FileFollows

\* A step that leaves the memory of the registry alone.
LEMMA MemoryKept ==
  ASSUME RegistryIsConsistent, UNCHANGED <<up, persisted, clusters, order, request>>,
         disk' \in Registries \cup {Torn}, lock' \in Requests \cup {NoRequest},
         next' \in [Requests -> Registries],
         faults' \in 0..MaxFaults, crashes' \in 0..MaxCrashes
  PROVE  /\ RegistryIsConsistent'
         /\ \A r \in Requests : /\ Refusal(request[r])' = Refusal(request[r])
                                /\ NextPersisted(request[r])' = NextPersisted(request[r])
<1>1. /\ up' = up /\ persisted' = persisted /\ clusters' = clusters /\ order' = order
      /\ request' = request
  OBVIOUS
<1>2. TypeOK'
  BY <1>1 DEF RegistryIsConsistent, TypeOK
<1>3. RegistryIsConsistent'
  BY <1>1, <1>2 DEF RegistryIsConsistent
<1>4. ASSUME NEW r \in Requests
      PROVE  /\ Refusal(request[r])' = Refusal(request[r])
             /\ NextPersisted(request[r])' = NextPersisted(request[r])
  BY <1>1 DEF Refusal, NextPersisted
<1>. QED  BY <1>3, <1>4

\* Before the lock: one request moves, the rest stays.
LEMMA HandlerKeeps ==
  ASSUME IInv, NEW r \in Requests, Lookup(r) \/ Admission(r)
  PROVE  IInv'
<1>. USE DEF IInv
<1>1. /\ UNCHANGED <<disk, up, persisted, clusters, order, lock, request, next, faults, crashes>>
      /\ pc[r] \in {"idle", "admission"} /\ up = "up"
      /\ \/ pc' = [pc EXCEPT ![r] = "done"] /\ \E a : answer' = [answer EXCEPT ![r] = a]
         \/ pc' = [pc EXCEPT ![r] = "admission"] /\ UNCHANGED answer
         \/ pc' = [pc EXCEPT ![r] = "lock"] /\ UNCHANGED answer
  BY DEF Lookup, Admission, Ends, Goto, memVars, Phases
<1>2. /\ RegistryIsConsistent'
      /\ \A p \in Requests : /\ Refusal(request[p])' = Refusal(request[p])
                             /\ NextPersisted(request[p])' = NextPersisted(request[p])
  BY <1>1, MemoryKept DEF RegistryIsConsistent, TypeOK
<1>3. Phases'
  BY <1>1 DEF Phases, Pcs, Saving
<1>4. \A p \in Requests : /\ pc'[p] = "write" => pc[p] = "write"
                          /\ pc'[p] = "commit" <=> pc[p] = "commit"
  BY <1>1 DEF Phases
<1>5. Saves' /\ FileFollows'
  <2>1. Saves'
    BY <1>1, <1>2 DEF Saves
  <2>2. FileFollows'
    BY <1>1, <1>4 DEF FileFollows
  <2>. QED  BY <2>1, <2>2
<1>. QED  BY <1>2, <1>3, <1>5

LEMMA BeginChangeKeeps ==
  ASSUME IInv, NEW r \in Requests, BeginChange(r)
  PROVE  IInv'
<1>. USE DEF IInv
<1>1. /\ UNCHANGED <<disk, up, persisted, clusters, order, request, faults, crashes>>
      /\ pc[r] = "lock" /\ lock = NoRequest /\ up = "up"
  BY DEF BeginChange, memVars, Phases
<1>2. CASE Refusal(request[r]) # "none"
  <2>1. /\ UNCHANGED <<lock, next>>
        /\ pc' = [pc EXCEPT ![r] = "done"]
        /\ answer' = [answer EXCEPT ![r] = Refusal(request[r])]
    BY <1>2 DEF BeginChange, Ends
  <2>2. RegistryIsConsistent'
    BY <1>1, <2>1, MemoryKept DEF RegistryIsConsistent, TypeOK
  <2>3. Phases'
    BY <1>1, <2>1, RequestAssumption DEF Phases, Pcs, Saving
  <2>4. Saves' /\ FileFollows'
    BY <1>1, <2>1, RequestAssumption DEF Saves, FileFollows, Phases
  <2>. QED  BY <2>2, <2>3, <2>4
<1>3. CASE Refusal(request[r]) = "none"
  <2>1. /\ lock' = r /\ next' = [next EXCEPT ![r] = NextPersisted(request[r])]
        /\ pc' = [pc EXCEPT ![r] = "save"] /\ UNCHANGED answer
    BY <1>3 DEF BeginChange, Goto
  <2>2. NextPersisted(request[r]) \in Registries
    BY <1>1, <1>3, NotRefused
  <2>3. /\ RegistryIsConsistent'
        /\ \A p \in Requests : /\ Refusal(request[p])' = Refusal(request[p])
                               /\ NextPersisted(request[p])' = NextPersisted(request[p])
    <3>1. next' \in [Requests -> Registries]
      BY <2>1, <2>2 DEF RegistryIsConsistent, TypeOK
    <3>. QED  BY <1>1, <2>1, <3>1, MemoryKept DEF RegistryIsConsistent, TypeOK
  <2>4. Phases'
    BY <1>1, <2>1, RequestAssumption DEF Phases, Pcs, Saving
  <2>5. Saves'
    <3>1. Refusal(request[r])' = "none" /\ NextPersisted(request[r])' = NextPersisted(request[r])
      BY <1>3, <2>3
    <3>2. next'[r] = NextPersisted(request[r])
      BY <2>1 DEF RegistryIsConsistent, TypeOK
    <3>. QED  BY <2>1, <3>1, <3>2 DEF Saves
  <2>6. FileFollows'
    BY <1>1, <2>1, RequestAssumption DEF FileFollows, Phases, Saving
  <2>. QED  BY <2>3, <2>4, <2>5, <2>6
<1>. QED  BY <1>2, <1>3

\* The two steps of os.WriteFile.
LEMMA WriteFileKeeps ==
  ASSUME IInv, NEW r \in Requests, Truncate(r) \/ WriteOut(r)
  PROVE  IInv'
<1>. USE DEF IInv
<1>1. /\ UNCHANGED <<up, persisted, clusters, order, lock, request, next, answer, faults, crashes>>
      /\ pc[r] \in Saving /\ lock = r
      /\ \/ disk' = Torn /\ pc' = [pc EXCEPT ![r] = "write"]
         \/ disk' = next[r] /\ pc' = [pc EXCEPT ![r] = "commit"]
  BY DEF Truncate, WriteOut, Goto, memVars, Phases, Saving
<1>2. up = "up"
  BY <1>1 DEF Phases, Saving
<1>3. /\ RegistryIsConsistent'
      /\ \A p \in Requests : /\ Refusal(request[p])' = Refusal(request[p])
                             /\ NextPersisted(request[p])' = NextPersisted(request[p])
  BY <1>1, MemoryKept DEF RegistryIsConsistent, TypeOK
<1>4. Phases'
  BY <1>1, <1>2 DEF Phases, Pcs, Saving
<1>5. Saves'
  BY <1>1, <1>3 DEF Saves
<1>6. \A p \in Requests : p # r => pc'[p] \notin Saving
  BY <1>1, RequestAssumption DEF Phases
<1>7. FileFollows'
  BY <1>1, <1>6 DEF FileFollows, Phases, Saving
<1>. QED  BY <1>3, <1>4, <1>5, <1>7

LEMMA SaveFailsKeeps ==
  ASSUME IInv, NEW r \in Requests, SaveFails(r)
  PROVE  IInv'
<1>. USE DEF IInv
<1>1. /\ UNCHANGED <<disk, up, persisted, clusters, order, request, next, crashes>>
      /\ pc[r] \in {"save", "write"} /\ lock = r /\ lock' = NoRequest
      /\ faults < MaxFaults /\ faults' = faults + 1
      /\ pc' = [pc EXCEPT ![r] = "done"] /\ answer' = [answer EXCEPT ![r] = "failed"]
  BY DEF SaveFails, Ends, memVars, Phases, Saving
<1>2. RegistryIsConsistent'
  <2>1. faults' \in 0..MaxFaults
    BY <1>1, BoundsAssumption DEF RegistryIsConsistent, TypeOK
  <2>. QED  BY <1>1, <2>1, MemoryKept DEF RegistryIsConsistent, TypeOK
<1>3. Phases'
  BY <1>1, RequestAssumption DEF Phases, Pcs, Saving
<1>4. Saves'
  BY <1>1, RequestAssumption DEF Saves
<1>5. \A p \in Requests : p # r => pc[p] \notin Saving /\ pc'[p] = pc[p]
  BY <1>1, RequestAssumption DEF Phases
<1>6. FileFollows'
  BY <1>1, <1>5 DEF FileFollows, Phases, Saving
<1>. QED  BY <1>2, <1>3, <1>4, <1>6

\* The order after a change lists the ids of the registry it is changed to.
LEMMA OrderFollows ==
  ASSUME IInv, up = "up", NEW r \in Requests, Refusal(request[r]) = "none"
  PROVE  NewOrder(request[r]) = Sorted(Base \cup DOMAIN NextPersisted(request[r]))
<1>. DEFINE S == Base \cup DOMAIN persisted
            q == request[r]
<1>1. S \in IdSets /\ persisted \in Registries /\ DOMAIN clusters = S
  BY MergedIds DEF IInv, RegistryIsConsistent, TypeOK
<1>2. order = Sorted(S) /\ Lists(order, S)
  BY <1>1, SortedLists DEF IInv, RegistryIsConsistent
<1>3. /\ q.kind = "register" => q.id \in Ids \ Base /\ q.id \notin DOMAIN persisted
      /\ q.kind # "register" => q.old \in DOMAIN persisted
      /\ q.kind = "update" =>
           /\ q.id \in Ids \ Base
           /\ q.id = q.old \/ q.id \notin DOMAIN persisted
  BY NotRefused DEF IInv
<1>4. /\ q.kind \in {"register", "update", "delete"} /\ q.def \in Definitions
      /\ DOMAIN persisted \subseteq Ids \ Base /\ Ids \subseteq Nat
  BY <1>1, RequestParts, RegistryParts, IdsAssumption DEF IInv, RegistryIsConsistent
<1>. HIDE DEF q, S
<1>5. CASE q.kind = "register"
  <2>1. DOMAIN NextPersisted(q) = DOMAIN persisted \cup {q.id}
    BY <1>1, <1>3, <1>4, <1>5, PutKeeps DEF NextPersisted
  <2>2. SortStrings(Append(order, q.id)) = Sorted(S \cup {q.id})
    BY <1>1, <1>2, <1>3, <1>4, <1>5, OrderWithNewId DEF S
  <2>3. Base \cup DOMAIN NextPersisted(q) = S \cup {q.id}
    BY <2>1 DEF S
  <2>. QED  BY <1>5, <2>2, <2>3 DEF NewOrder, q
<1>6. ASSUME q.kind # "register"
      PROVE  Place(q.old) \in DOMAIN order /\ order[Place(q.old)] = q.old /\ q.old \in S
  <2>1. q.old \in S
    BY <1>3, <1>6 DEF S
  <2>2. \E i \in DOMAIN order : order[i] = q.old
    BY <1>1, <1>2, <2>1, ListIsComplete, ListElements
  <2>. QED  BY <2>1, <2>2 DEF Place
<1>7. CASE q.kind = "update"
  <2>1. DOMAIN NextPersisted(q) = (DOMAIN persisted \ {q.old}) \cup {q.id}
    <3>1. Drop(persisted, q.old) \in Registries /\ DOMAIN Drop(persisted, q.old) = DOMAIN persisted \ {q.old}
      BY <1>1, DropKeeps
    <3>2. q.id \in Ids \ Base /\ q.def \in Definitions
      BY <1>3, <1>4, <1>7
    <3>3. DOMAIN Put(Drop(persisted, q.old), q.id, q.def) = (DOMAIN persisted \ {q.old}) \cup {q.id}
      BY <3>1, <3>2, PutKeeps
    <3>. QED  BY <1>7, <3>3 DEF NextPersisted
  <2>2. q.id \in Nat /\ (q.id \notin S \/ q.id = q.old)
    BY <1>3, <1>4, <1>7 DEF S
  <2>3. SortStrings([order EXCEPT ![Place(q.old)] = q.id]) = Sorted((S \ {q.old}) \cup {q.id})
    BY <1>1, <1>2, <1>6, <1>7, <2>2, OrderWithOtherId
  <2>4. Base \cup DOMAIN NextPersisted(q) = (S \ {q.old}) \cup {q.id}
    BY <1>3, <1>4, <1>7, <2>1 DEF S
  <2>. QED  BY <1>7, <2>3, <2>4 DEF NewOrder, q
<1>8. CASE q.kind = "delete"
  <2>1. DOMAIN NextPersisted(q) = DOMAIN persisted \ {q.old}
    BY <1>1, <1>8, DropKeeps DEF NextPersisted
  <2>2. WithoutPlace(Place(q.old)) = Sorted(S \ {q.old})
    BY <1>1, <1>2, <1>6, <1>8, OrderWithoutId DEF WithoutPlace
  <2>3. Base \cup DOMAIN NextPersisted(q) = S \ {q.old}
    BY <1>3, <1>4, <1>8, <2>1 DEF S
  <2>. QED  BY <1>8, <2>2, <2>3 DEF NewOrder, q
<1>. QED  BY <1>4, <1>5, <1>7, <1>8 DEF q

LEMMA CommitKeeps ==
  ASSUME IInv, NEW r \in Requests, Commit(r)
  PROVE  IInv'
<1>. USE DEF IInv
<1>. DEFINE q == request[r]
<1>1. /\ UNCHANGED <<disk, up, request, next, faults, crashes>>
      /\ pc[r] = "commit" /\ lock = r /\ lock' = NoRequest /\ up = "up"
      /\ persisted' = next[r] /\ order' = NewOrder(q)
      /\ pc' = [pc EXCEPT ![r] = "done"] /\ answer' = [answer EXCEPT ![r] = "ok"]
  BY DEF Commit, Ends, Phases, Saving
<1>2. Refusal(q) = "none" /\ next[r] = NextPersisted(q) /\ next[r] \in Registries /\ disk = next[r]
  BY <1>1 DEF Saves, FileFollows, RegistryIsConsistent, TypeOK
<1>3. clusters' = Merge(next[r])
  <2>1. /\ q.kind = "register" => q.id \in Ids \ Base
        /\ q.kind # "register" => q.old \in DOMAIN persisted
        /\ q.kind = "update" => q.id \in Ids \ Base
    BY <1>1, <1>2, NotRefused
  <2>2. /\ persisted \in Registries /\ clusters = Merge(persisted)
        /\ q.kind \in {"register", "update", "delete"} /\ q.def \in Definitions
        /\ DOMAIN persisted \subseteq Ids \ Base
    BY <1>1, RequestParts, RegistryParts DEF RegistryIsConsistent, TypeOK
  <2>3. clusters' = CASE q.kind = "register" -> Put(clusters, q.id, q.def)
                      [] q.kind = "update" -> Put(Drop(clusters, q.old), q.id, q.def)
                      [] q.kind = "delete" -> Drop(clusters, q.old)
    BY DEF Commit
  <2>. HIDE DEF q
  <2>4. CASE q.kind = "register"
    BY <1>2, <2>1, <2>2, <2>3, <2>4, MergePut DEF NextPersisted
  <2>5. CASE q.kind = "update"
    <3>1. /\ Drop(persisted, q.old) \in Registries
          /\ Drop(clusters, q.old) = Merge(Drop(persisted, q.old))
      BY <2>1, <2>2, <2>5, MergeDrop, DropKeeps
    <3>2. q.id \in Ids \ Base
      BY <2>1, <2>5
    <3>3. Put(Drop(clusters, q.old), q.id, q.def) = Merge(Put(Drop(persisted, q.old), q.id, q.def))
      BY <2>2, <3>1, <3>2, MergePut
    <3>. QED  BY <1>2, <2>3, <2>5, <3>3 DEF NextPersisted
  <2>6. CASE q.kind = "delete"
    BY <1>2, <2>1, <2>2, <2>3, <2>6, MergeDrop DEF NextPersisted
  <2>. QED  BY <2>2, <2>4, <2>5, <2>6
<1>4. order' = Sorted(Base \cup DOMAIN next[r])
  BY <1>1, <1>2, OrderFollows
<1>5. RegistryIsConsistent'
  <2>1. /\ DOMAIN clusters' \subseteq Ids /\ Range(clusters') \subseteq Definitions \cup {Startup}
        /\ order' \in Seq(Ids) /\ order' = Sorted(DOMAIN clusters')
    BY <1>2, <1>3, <1>4, Loaded
  <2>2. TypeOK'
    BY <1>1, <1>2, <2>1 DEF RegistryIsConsistent, TypeOK
  <2>3. clusters' = Merge(persisted')
    BY <1>1, <1>3
  <2>. QED  BY <2>1, <2>2, <2>3 DEF RegistryIsConsistent
<1>6. Phases'
  BY <1>1, RequestAssumption DEF Phases, Pcs, Saving
<1>7. Saves'
  BY <1>1, RequestAssumption DEF Saves
<1>8. FileFollows'
  <2>1. \A p \in Requests : pc'[p] \notin Saving
    BY <1>1, RequestAssumption DEF Phases, Saving
  <2>. QED  BY <1>1, <1>2, <2>1 DEF FileFollows, Saving
<1>. QED  BY <1>5, <1>6, <1>7, <1>8

LEMMA ProcessDiesKeeps ==
  ASSUME IInv, ProcessDies
  PROVE  IInv'
<1>. USE DEF IInv
<1>1. /\ UNCHANGED <<disk, request, next, answer, faults>>
      /\ up = "up" /\ up' = "down" /\ crashes < MaxCrashes /\ crashes' = crashes + 1
      /\ persisted' = NoClusters /\ clusters' = NoClusters /\ order' = <<>> /\ lock' = NoRequest
      /\ pc' = [p \in Requests |-> IF pc[p] = "idle" THEN "idle" ELSE "done"]
  BY DEF ProcessDies
<1>2. RegistryIsConsistent'
  <2>1. crashes' \in 0..MaxCrashes
    BY <1>1, BoundsAssumption DEF RegistryIsConsistent, TypeOK
  <2>2. persisted' \in Registries
    BY <1>1, EmptyRegistry
  <2>3. DOMAIN clusters' \subseteq Ids /\ Range(clusters') \subseteq Definitions \cup {Startup}
    BY <1>1 DEF NoClusters, Range
  <2>4. order' \in Seq(Ids)
    BY <1>1, EmptySeq
  <2>. QED  BY <1>1, <2>1, <2>2, <2>3, <2>4 DEF RegistryIsConsistent, TypeOK
<1>3. Phases'
  BY <1>1, RequestAssumption DEF Phases, Pcs, Saving
<1>. QED  BY <1>1, <1>2, <1>3, RequestAssumption DEF Saves, FileFollows

LEMMA StartKeeps ==
  ASSUME IInv, Start
  PROVE  IInv'
<1>. USE DEF IInv
<1>1. UNCHANGED <<disk, lock, request, pc, next, answer, faults, crashes>> /\ up = "down"
  BY DEF Start
<1>2. \A r \in Requests : lock # r /\ pc[r] \in {"idle", "done"}
  BY <1>1 DEF Phases, Saving
<1>3. Phases'
  BY <1>1, <1>2 DEF Phases
<1>4. CASE disk = Torn
  <2>1. up' = "panicked" /\ UNCHANGED <<persisted, clusters, order>>
    BY <1>4 DEF Start
  <2>2. RegistryIsConsistent'
    BY <1>1, <2>1 DEF RegistryIsConsistent, TypeOK
  <2>. QED  BY <1>1, <1>2, <1>3, <2>1, <2>2 DEF Saves, FileFollows
<1>5. CASE disk # Torn
  <2>1. /\ up' = "up" /\ persisted' = disk /\ clusters' = Merge(disk)
        /\ order' = Sorted(Base \cup DOMAIN disk)
    BY <1>5 DEF Start
  <2>2. disk \in Registries
    BY <1>5 DEF RegistryIsConsistent, TypeOK
  <2>3. RegistryIsConsistent'
    <3>1. /\ DOMAIN clusters' \subseteq Ids /\ Range(clusters') \subseteq Definitions \cup {Startup}
          /\ order' \in Seq(Ids) /\ order' = Sorted(DOMAIN clusters')
      BY <2>1, <2>2, Loaded
    <3>2. TypeOK'
      BY <1>1, <2>1, <2>2, <3>1 DEF RegistryIsConsistent, TypeOK
    <3>. QED  BY <2>1, <3>1, <3>2 DEF RegistryIsConsistent
  <2>. QED  BY <1>1, <1>2, <1>3, <2>1, <2>3 DEF Saves, FileFollows
<1>. QED  BY <1>4, <1>5

LEMMA Inductive ==
  ASSUME IInv, [Next]_vars
  PROVE  IInv'
<1>1. ASSUME NEW r \in Requests, 
             \/ Lookup(r) \/ Admission(r) \/ BeginChange(r) \/ Truncate(r)
             \/ WriteOut(r) \/ SaveFails(r) \/ Commit(r)
      PROVE  IInv'
  BY <1>1, HandlerKeeps, BeginChangeKeeps, WriteFileKeeps, SaveFailsKeeps, CommitKeeps
<1>2. CASE UNCHANGED vars
  <2>1. /\ disk' = disk /\ up' = up /\ persisted' = persisted /\ clusters' = clusters
        /\ order' = order /\ lock' = lock /\ request' = request /\ pc' = pc /\ next' = next
        /\ answer' = answer /\ faults' = faults /\ crashes' = crashes
    BY <1>2 DEF vars, memVars
  <2>2. RegistryIsConsistent'
    BY <2>1, MemoryKept DEF IInv, RegistryIsConsistent, TypeOK
  <2>3. Phases'
    BY <2>1 DEF IInv, Phases
  <2>4. Saves'
    BY <2>1 DEF IInv, Saves, Refusal, NextPersisted
  <2>5. FileFollows'
    BY <2>1 DEF IInv, FileFollows
  <2>. QED  BY <2>2, <2>3, <2>4, <2>5 DEF IInv
<1>. QED  BY <1>1, <1>2, ProcessDiesKeeps, StartKeeps DEF Next

-----------------------------------------------------------------------------
(* The properties *)

\* The invariant holds, through every failed save and restart.
THEOREM Invariance == Spec => []IInv
BY InitHolds, Inductive, PTL DEF Spec

\* registerCluster, updateCluster, deleteCluster, New: the runtimes of App, the order
\* and the persisted list agree in every state.
THEOREM Consistent == Spec => []RegistryIsConsistent
<1>1. IInv => RegistryIsConsistent
  BY DEF IInv
<1>. QED  BY <1>1, Invariance, PTL

\* saveClusterDefinitions comes before the change of memory: when nobody saves, the
\* file is what memory says, or torn.
THEOREM DiskFollows == Spec => []DiskFollowsMemory
<1>1. ASSUME IInv  PROVE DiskFollowsMemory
  <2>1. SUFFICES ASSUME up = "up", lock = NoRequest, disk # Torn  PROVE disk = persisted
    BY DEF DiskFollowsMemory
  <2>2. \A r \in Requests : pc[r] # "commit"
    BY <1>1, <2>1, RequestAssumption DEF IInv, Phases, Saving
  <2>. QED  BY <1>1, <2>1, <2>2 DEF IInv, FileFollows
<1>. QED  BY <1>1, Invariance, PTL

-----------------------------------------------------------------------------
(* The refinement *)

\* What the clients see of the registry.
Managed == IF up = "up" THEN persisted ELSE disk

\* A request is answered on the registry its handler sees.
LEMMA Answers ==
  ASSUME IInv, NEW r \in Requests, pc[r] # "done", NEW a, answer' = [answer EXCEPT ![r] = a]
  PROVE  answer'[r] = a /\ Promise!Answered(r, a)
BY DEF IInv, Phases, Promise!Answered

LEMMA RefusalKinds ==
  ASSUME NEW q
  PROVE  Refusal(q) \in {"none", "exists", "notFound", "immutable"}
BY DEF Refusal

LEMMA VerdictIsRefusal ==
  ASSUME IInv, up = "up", NEW r \in Requests
  PROVE  /\ Promise!Verdict(request[r], persisted) =
               IF Refusal(request[r]) = "none" THEN "ok" ELSE Refusal(request[r])
         /\ Promise!After(request[r], persisted) = NextPersisted(request[r])
<1>. DEFINE q == request[r]
<1>1. /\ DOMAIN clusters = Base \cup DOMAIN persisted
      /\ DOMAIN persisted \subseteq Ids \ Base
      /\ q.kind \in {"register", "update", "delete"}
  BY MergedIds, RegistryParts, RequestParts DEF IInv, RegistryIsConsistent, TypeOK
<1>. HIDE DEF q
<1>2. Promise!Verdict(q, persisted) = IF Refusal(q) = "none" THEN "ok" ELSE Refusal(q)
  <2>1. CASE q.kind = "register"
    BY <1>1, <2>1 DEF Promise!Verdict, Refusal
  <2>2. CASE q.kind # "register" /\ q.old \notin DOMAIN clusters
    BY <1>1, <2>2 DEF Promise!Verdict, Refusal
  <2>3. CASE q.kind # "register" /\ q.old \in DOMAIN clusters
    <3>1. q.old \in Base <=> q.old \notin DOMAIN persisted
      BY <1>1, <2>3
    <3>2. CASE q.old \in Base
      BY <1>1, <2>3, <3>1, <3>2 DEF Promise!Verdict, Refusal
    <3>3. CASE q.old \notin Base
      BY <1>1, <2>3, <3>1, <3>3 DEF Promise!Verdict, Refusal
    <3>. QED  BY <3>2, <3>3
  <2>. QED  BY <1>1, <2>1, <2>2, <2>3
<1>3. Promise!After(q, persisted) = NextPersisted(q)
  BY <1>1 DEF Promise!After, Promise!With, Promise!Without, Promise!Restrict,
              NextPersisted, Put, Drop, Restrict
<1>. QED  BY <1>2, <1>3 DEF q

\* The step of one request serves it, fails it or is not seen.
LEMMA RequestRefines ==
  ASSUME IInv, NEW r \in Requests,
         \/ Lookup(r) \/ Admission(r) \/ BeginChange(r) \/ Truncate(r)
         \/ WriteOut(r) \/ SaveFails(r) \/ Commit(r)
  PROVE  \/ Promise!ARNext
         \/ UNCHANGED <<request, Managed, answer>>
<1>. USE DEF IInv
<1>1. /\ up = "up" /\ up' = up /\ request' = request /\ pc[r] # "done"
  BY DEF Lookup, Admission, BeginChange, Truncate, WriteOut, SaveFails, Commit, memVars, Phases
<1>2. Managed = persisted /\ Managed' = persisted' /\ persisted # Torn
  BY <1>1, RegistryParts DEF Managed, RegistryIsConsistent, TypeOK
<1>3. ASSUME Refusal(request[r]) # "none", persisted' = persisted,
             answer' = [answer EXCEPT ![r] = Refusal(request[r])]
      PROVE  Promise!Serve(r)
  <2>1. Promise!Verdict(request[r], persisted) = Refusal(request[r])
    BY <1>1, <1>3, VerdictIsRefusal
  <2>2. Refusal(request[r]) # "ok"
    BY RefusalKinds
  <2>. QED  BY <1>1, <1>2, <1>3, <2>1, <2>2, Answers DEF Promise!Serve
<1>4. CASE Lookup(r)
  <2>1. persisted' = persisted
    BY <1>4 DEF Lookup, memVars
  <2>2. CASE request[r].kind = "delete" /\ request[r].old \notin DOMAIN clusters
    <3>1. Refusal(request[r]) = "notFound"
      BY <2>2 DEF Refusal
    <3>. QED  BY <1>1, <1>3, <1>4, <2>1, <2>2, <3>1 DEF Lookup, Ends, Promise!ARNext
  <2>3. CASE ~(request[r].kind = "delete" /\ request[r].old \notin DOMAIN clusters)
    BY <1>1, <1>2, <1>4, <2>1, <2>3 DEF Lookup, Goto
  <2>. QED  BY <2>2, <2>3
<1>5. CASE Admission(r)
  <2>1. persisted' = persisted
    BY <1>5 DEF Admission, memVars
  <2>2. CASE Ends(r, "refused")
    BY <1>1, <2>1, <2>2, Answers, <1>2 DEF Ends, Promise!ARNext, Promise!Fail, Managed
  <2>3. CASE Goto(r, "lock")
    BY <1>1, <1>2, <2>1, <2>3 DEF Goto
  <2>. QED  BY <1>5, <2>2, <2>3 DEF Admission
<1>6. CASE BeginChange(r)
  <2>1. persisted' = persisted
    BY <1>6 DEF BeginChange, memVars
  <2>2. CASE Refusal(request[r]) # "none"
    BY <1>1, <1>3, <1>6, <2>1, <2>2 DEF BeginChange, Ends, Promise!ARNext
  <2>3. CASE Refusal(request[r]) = "none"
    BY <1>1, <1>2, <1>6, <2>1, <2>3 DEF BeginChange, Goto
  <2>. QED  BY <2>2, <2>3
<1>7. CASE Truncate(r) \/ WriteOut(r)
  BY <1>1, <1>2, <1>7 DEF Truncate, WriteOut, Goto, memVars
<1>8. CASE SaveFails(r)
  <2>1. persisted' = persisted /\ answer' = [answer EXCEPT ![r] = "failed"]
    BY <1>8 DEF SaveFails, memVars, Ends
  <2>. QED  BY <1>1, <2>1, Answers DEF Promise!ARNext, Promise!Fail
<1>9. CASE Commit(r)
  <2>1. /\ persisted' = next[r] /\ answer' = [answer EXCEPT ![r] = "ok"]
        /\ lock = r
    BY <1>9 DEF Commit, Ends, Phases, Saving
  <2>2. /\ Promise!Verdict(request[r], persisted) = "ok"
        /\ Promise!After(request[r], persisted) = persisted'
    BY <1>1, <2>1, VerdictIsRefusal DEF Saves
  <2>. QED  BY <1>1, <1>2, <2>1, <2>2, Answers DEF Promise!ARNext, Promise!Serve
<1>. QED  BY <1>4, <1>5, <1>6, <1>7, <1>8, <1>9

\* A crash shows what was answered, the change that was being saved, or nothing.
LEMMA ProcessDiesRefines ==
  ASSUME IInv, ProcessDies
  PROVE  \/ Promise!ARNext
         \/ UNCHANGED <<request, Managed, answer>>
<1>. USE DEF IInv
<1>1. /\ UNCHANGED <<disk, request, answer>> /\ up = "up" /\ up' = "down"
  BY DEF ProcessDies
<1>2. persisted # Torn
  BY RegistryParts DEF RegistryIsConsistent, TypeOK
<1>3. CASE disk = persisted
  BY <1>1, <1>3 DEF Managed
<1>4. CASE disk = Torn
  BY <1>1, <1>4 DEF Promise!ARNext, Promise!Crash
<1>5. CASE \E r \in Requests : pc[r] = "commit"
  <2>1. PICK r \in Requests : pc[r] = "commit"
    BY <1>5
  <2>2. lock = r /\ answer[r] = "none" /\ disk = next[r]
    BY <1>1, <2>1 DEF Phases, Saving, FileFollows
  <2>3. /\ Promise!Verdict(request[r], persisted) = "ok"
        /\ Promise!After(request[r], persisted) = disk
    BY <1>1, <2>2, VerdictIsRefusal DEF Saves
  <2>. QED  BY <1>1, <1>2, <2>2, <2>3 DEF Promise!ARNext, Promise!Crash
<1>. QED  BY <1>1, <1>3, <1>4, <1>5 DEF FileFollows

LEMMA StartRefines ==
  ASSUME Start
  PROVE  UNCHANGED <<request, Managed, answer>>
BY DEF Start, Managed

LEMMA StepRefines ==
  ASSUME IInv, [Next]_vars
  PROVE  [Promise!ARNext]_<<request, Managed, answer>>
<1>1. CASE UNCHANGED vars
  BY <1>1 DEF vars, memVars, Managed
<1>. QED  BY <1>1, RequestRefines, ProcessDiesRefines, StartRefines DEF Next

\* Seen by the clients, the registry of the code is the atomic one: each request is
\* answered on the registry as it is then, and a restart shows what was answered, at
\* most one unanswered change more, or nothing.
THEOREM Refines == Spec => ImplementsAtomicRegistry
<1>1. Init => Promise!ARInit
  BY RegistryParts DEF Init, Promise!ARInit
<1>2. ASSUME IInv, [Next]_vars
      PROVE  [Promise!ARNext]_<<request, IF up = "up" THEN persisted ELSE disk, answer>>
  BY <1>2, StepRefines DEF Managed
<1>. QED  BY <1>1, <1>2, Invariance, PTL DEF Spec, ImplementsAtomicRegistry, Promise!ARSpec
=============================================================================
