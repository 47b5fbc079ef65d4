-------------------------- MODULE MqttStateOrders ---------------------------
(***************************************************************************)
(* Facts about the operators of MqttState that work on sets of identifiers *)
(* and on the queues that keep their order.                                *)
(***************************************************************************)
EXTENDS MqttStateCaller, FiniteSetTheorems, SequenceTheorems, TLAPS

----------------------------------------------------------------------------
(* Options                                                                 *)

(* A non-empty Option holds one value, and Get returns it.                 *)
LEMMA OptionGet ==
  ASSUME NEW S, NEW o \in Option(S), o # {}
  PROVE  Get(o) \in S /\ o = {Get(o)}
<1>1. PICK x \in S : o = {x}
  BY DEF Option
<1>2. Get(o) = x
  BY <1>1 DEF Get
<1> QED
  BY <1>1, <1>2

----------------------------------------------------------------------------
(* Finite sets of identifiers                                              *)

(* The identifiers are a finite set of positive naturals.                  *)
LEMMA PkidFinite ==
  /\ Pkid \subseteq Nat
  /\ IsFiniteSet(Pkid)
  /\ Cardinality(Pkid) = MaxPkid
<1>1. MaxPkid \in Nat /\ MaxPkid >= 1
  BY StateAssumption
<1> QED
  BY <1>1, FS_Interval DEF Pkid

(* A set of identifiers is finite and has at most MaxPkid elements.        *)
LEMMA PkidSubset ==
  ASSUME NEW S, S \subseteq Pkid
  PROVE  IsFiniteSet(S) /\ Cardinality(S) \in Nat /\ Cardinality(S) <= MaxPkid
BY Zenon, PkidFinite, FS_Subset, FS_CardinalityType

(* The rank of an element of a finite set of naturals is a bijection, so   *)
(* Ascending enumerates the set.                                           *)
LEMMA AscendingEnumerates ==
  ASSUME NEW S, S \subseteq Nat, IsFiniteSet(S)
  PROVE  /\ Cardinality(S) \in Nat
         /\ Ascending(S) \in [1..Cardinality(S) -> S]
         /\ \A i, j \in 1..Cardinality(S) :
              Ascending(S)[i] = Ascending(S)[j] => i = j
         /\ \A x \in S : \E i \in 1..Cardinality(S) : Ascending(S)[i] = x
         /\ \A i \in 1..Cardinality(S) :
              Cardinality({y \in S : y < Ascending(S)[i]}) = i - 1
<1> DEFINE below(x) == {y \in S : y < x}
           rank == [x \in S |-> Cardinality(below(x)) + 1]
           n == Cardinality(S)
<1>1. n \in Nat
  BY FS_CardinalityType
<1>2. \A x \in S : IsFiniteSet(below(x)) /\ Cardinality(below(x)) \in Nat
  BY FS_Subset, FS_CardinalityType
<1>3. ASSUME NEW x \in S
      PROVE  Cardinality(below(x)) < n
  <2>1. below(x) \in SUBSET S /\ below(x) # S
    BY x \in Nat
  <2> QED
    BY <2>1, <1>1, <1>2, FS_Subset
<1>4. ASSUME NEW x \in S, NEW y \in S, x < y
      PROVE  Cardinality(below(x)) < Cardinality(below(y))
  <2>1. x \in below(y) /\ x \notin below(x)
    BY <1>4, x \in Nat
  <2>2. \A z \in below(x) : z \in below(y)
    BY <1>4, x \in Nat, y \in Nat
  <2>3. below(x) \in SUBSET below(y) /\ below(x) # below(y)
    BY Zenon, <2>1, <2>2
  <2> QED
    BY <2>3, <1>2, FS_Subset
<1>5. rank \in [S -> 1..n]
  BY <1>1, <1>2, <1>3
<1>6. ASSUME NEW x \in S, NEW y \in S, rank[x] = rank[y]
      PROVE  x = y
  <2>1. Cardinality(below(x)) = Cardinality(below(y))
    BY <1>6, <1>2
  <2>2. ~(x < y) /\ ~(y < x)
    BY <2>1, <1>4, <1>2
  <2> QED
    BY <2>2, x \in Nat, y \in Nat
<1>7. rank \in Injection(S, 1..n)
  BY Zenon, <1>5, <1>6 DEF Injection, IsInjective
<1>8. IsFiniteSet(1..n) /\ Cardinality(1..n) = n
  BY <1>1, FS_Interval
<1>9. \A i \in 1..n : \E x \in S : rank[x] = i
  <2> HIDE DEF rank
  <2>1. rank \in Surjection(S, 1..n)
    BY <1>7, <1>8, FS_Injection
  <2> QED
    BY <2>1 DEF Surjection
<1>10. \A i \in 1..n : Ascending(S)[i] = CHOOSE x \in S : Cardinality(below(x)) = i - 1
  BY DEF Ascending
<1>11. ASSUME NEW i \in 1..n
       PROVE  /\ Ascending(S)[i] \in S
              /\ rank[Ascending(S)[i]] = i
              /\ Cardinality(below(Ascending(S)[i])) = i - 1
  <2>1. PICK x \in S : rank[x] = i
    BY <1>9
  <2>2. Cardinality(below(x)) = i - 1
    BY <2>1, <1>2
  <2>3. /\ Ascending(S)[i] \in S
        /\ Cardinality(below(Ascending(S)[i])) = i - 1
    BY Zenon, <1>10, <2>2
  <2> QED
    BY <2>3
<1>12. Ascending(S) \in [1..n -> S]
  BY Zenon, <1>11 DEF Ascending
<1>13. ASSUME NEW x \in S
       PROVE  \E i \in 1..n : Ascending(S)[i] = x
  <2> HIDE DEF rank, n
  <2>1. rank[x] \in 1..n
    BY <1>5
  <2>2. Ascending(S)[rank[x]] \in S /\ rank[Ascending(S)[rank[x]]] = rank[x]
    BY Zenon, <2>1, <1>11
  <2>3. Ascending(S)[rank[x]] = x
    BY Zenon, <2>2, <1>6
  <2> QED
    BY <2>1, <2>3
<1>14. \A i, j \in 1..n : Ascending(S)[i] = Ascending(S)[j] => i = j
  BY Zenon, <1>11
<1> QED
  BY Zenon, <1>1, <1>11, <1>12, <1>13, <1>14

(* A non-empty finite set of naturals has a largest element.               *)
LEMMA LargestExists ==
  ASSUME NEW S, S \subseteq Nat, IsFiniteSet(S), S # {}
  PROVE  \E n \in S : \A m \in S : m <= n
<1> DEFINE c == Cardinality(S)
<1>1. c \in Nat \ {0}
  BY FS_CardinalityType, FS_EmptySet
<1>2. /\ Ascending(S) \in [1..c -> S]
      /\ \A i \in 1..c : Cardinality({z \in S : z < Ascending(S)[i]}) = i - 1
  BY Zenon, AscendingEnumerates
<1>3. c \in 1..c
  BY <1>1
<1>4. PICK y \in S : Cardinality({z \in S : z < y}) = c - 1
  <2>1. Ascending(S)[c] \in S
    BY <1>2, <1>3
  <2> QED
    BY Zenon, <1>2, <1>3, <2>1
<1>5. Cardinality(S \ {y}) = c - 1 /\ IsFiniteSet(S \ {y})
  BY <1>1, FS_RemoveElement
<1>6. {z \in S : z < y} \in SUBSET (S \ {y})
  BY y \in Nat
<1>7. {z \in S : z < y} = S \ {y}
  BY <1>4, <1>5, <1>6, FS_Subset
<1> QED
  BY <1>7, y \in Nat

----------------------------------------------------------------------------
(* Order queues                                                            *)

(* Select keeps the items at the given positions, each once.               *)
LEMMA SelectItems ==
  ASSUME NEW X, NEW s \in Seq(X), NEW T, T \subseteq 1..Len(s)
  PROVE  /\ Select(s, T) \in Seq(X)
         /\ Elements(Select(s, T)) = {s[i] : i \in T}
         /\ (\A i, j \in T : s[i] = s[j] => i = j) =>
              \A j, k \in 1..Len(Select(s, T)) :
                Select(s, T)[j] = Select(s, T)[k] => j = k
<1> DEFINE n == Cardinality(T)
           a == Ascending(T)
<1>1. Len(s) \in Nat /\ \A i \in 1..Len(s) : s[i] \in X
  BY LenProperties, ElementOfSeq
<1>2. IsFiniteSet(T) /\ T \subseteq Nat
  <2> DEFINE positions == 1..Len(s)
  <2>1. IsFiniteSet(positions) /\ positions \subseteq Nat
    BY <1>1, FS_Interval
  <2> HIDE DEF positions
  <2>2. T \in SUBSET positions
    BY DEF positions
  <2> QED
    BY Zenon, <2>1, <2>2, FS_Subset
<1>3. /\ n \in Nat
      /\ a \in [1..n -> T]
      /\ \A i, j \in 1..n : a[i] = a[j] => i = j
      /\ \A x \in T : \E i \in 1..n : a[i] = x
  BY Zenon, <1>2, AscendingEnumerates
<1> HIDE DEF a, n
<1>4. Select(s, T) = [k \in 1..n |-> s[a[k]]]
  BY DEF Select, a, n
<1>5. Select(s, T) \in [1..n -> X]
  BY Zenon, <1>1, <1>3, <1>4
<1>6. Select(s, T) \in Seq(X) /\ Len(Select(s, T)) = n
  BY <1>3, <1>5, IsASeq, LenProperties
<1>7. Elements(Select(s, T)) = {s[i] : i \in T}
  <2> DEFINE q == Select(s, T)
  <2>1. \A k \in 1..n : q[k] = s[a[k]] /\ a[k] \in T
    BY <1>3, <1>4
  <2>2. \A i \in T : \E k \in 1..n : q[k] = s[i]
    BY <1>3, <2>1
  <2>3. Elements(q) = {q[k] : k \in 1..n}
    BY <1>6 DEF Elements
  <2> HIDE DEF q
  <2>4. ASSUME NEW k \in 1..n
        PROVE  q[k] \in {s[i] : i \in T}
    BY Zenon, <2>1
  <2>5. ASSUME NEW i \in T
        PROVE  s[i] \in {q[k] : k \in 1..n}
    BY <2>2
  <2>6. {q[k] : k \in 1..n} = {s[i] : i \in T}
    BY <2>4, <2>5, Zenon
  <2> QED
    BY Zenon, <2>3, <2>6 DEF q
<1>8. ASSUME \A i, j \in T : s[i] = s[j] => i = j,
             NEW j \in 1..n, NEW k \in 1..n, Select(s, T)[j] = Select(s, T)[k]
      PROVE  j = k
  <2>1. s[a[j]] = s[a[k]] /\ a[j] \in T /\ a[k] \in T
    BY <1>3, <1>4, <1>8
  <2>2. a[j] = a[k]
    BY Zenon, <2>1, <1>8
  <2> QED
    BY <2>2, <1>3
<1> QED
  BY <1>6, <1>7, <1>8

(* What it takes for a sequence to list a set once.                        *)
LEMMA EnumerationIntro ==
  ASSUME NEW S, NEW s \in Seq(S),
         \A x \in S : \E i \in 1..Len(s) : s[i] = x,
         \A i, j \in 1..Len(s) : s[i] = s[j] => i = j
  PROVE  IsEnumeration(s, S)
<1>1. \A i \in 1..Len(s) : s[i] \in S
  BY ElementOfSeq
<1>2. Elements(s) = S
  BY <1>1 DEF Elements
<1> QED
  BY <1>2 DEF IsEnumeration

(* What an enumeration is.                                                 *)
LEMMA EnumerationElim ==
  ASSUME NEW S, NEW s, IsEnumeration(s, S)
  PROVE  /\ \A i \in 1..Len(s) : s[i] \in S
         /\ \A x \in S : \E i \in 1..Len(s) : s[i] = x
         /\ \A i, j \in 1..Len(s) : s[i] = s[j] => i = j
BY DEF IsEnumeration, Elements

(* Appending a new identifier.                                             *)
LEMMA EnumerationAppend ==
  ASSUME NEW S, S \subseteq Pkid, NEW s \in Seq(Pkid), IsEnumeration(s, S),
         NEW p \in Pkid, p \notin S
  PROVE  Append(s, p) \in Seq(Pkid) /\ IsEnumeration(Append(s, p), S \cup {p})
<1> DEFINE t == Append(s, p)
           n == Len(s)
<1>1. /\ t \in Seq(Pkid)
      /\ n \in Nat /\ Len(t) = n + 1
      /\ \A i \in 1..n : t[i] = s[i]
      /\ t[n + 1] = p
  BY AppendProperties, LenProperties
<1>2. /\ \A i \in 1..n : s[i] \in S
      /\ \A x \in S : \E i \in 1..n : s[i] = x
      /\ \A i, j \in 1..n : s[i] = s[j] => i = j
  BY EnumerationElim
<1> HIDE DEF t, n
<1>3. \A i \in 1..(n + 1) : i \in 1..n \/ i = n + 1
  BY <1>1
<1>4. \A i \in 1..(n + 1) : t[i] \in S \cup {p}
  BY <1>1, <1>2, <1>3
<1>5. \A x \in S \cup {p} : \E i \in 1..(n + 1) : t[i] = x
  BY <1>1, <1>2
<1>6. \A i, j \in 1..(n + 1) : t[i] = t[j] => i = j
  BY <1>1, <1>2, <1>3
<1>7. Elements(t) = S \cup {p}
  BY <1>1, <1>4, <1>5 DEF Elements
<1> QED
  BY <1>1, <1>6, <1>7 DEF IsEnumeration, t

(* Removing an identifier.                                                 *)
LEMMA EnumerationRemove ==
  ASSUME NEW S, S \subseteq Pkid, NEW s \in Seq(Pkid), IsEnumeration(s, S),
         NEW p \in S
  PROVE  /\ remove_ordered_pkid(s, p) \in Seq(Pkid)
         /\ IsEnumeration(remove_ordered_pkid(s, p), S \ {p})
<1> DEFINE t == remove_ordered_pkid(s, p)
           n == Len(s)
<1>1. /\ n \in Nat
      /\ \A i \in 1..n : s[i] \in S
      /\ \A x \in S : \E i \in 1..n : s[i] = x
      /\ \A i, j \in 1..n : s[i] = s[j] => i = j
  BY EnumerationElim, LenProperties
<1>2. PICK k \in 1..n : s[k] = p
  BY <1>1
<1>3. \A i \in 1..n :
        s[i] = p /\ (\A j \in 1..(i - 1) : s[j] # p) <=> i = k
  <2>1. \A i \in 1..n : i = k <=> s[i] = p
    BY <1>1, <1>2
  <2>2. \A j \in 1..(k - 1) : j \in 1..n /\ j # k
    BY <1>1
  <2> QED
    BY <2>1, <2>2
<1>4. k = CHOOSE i \in 1..n : s[i] = p /\ \A j \in 1..(i - 1) : s[j] # p
  BY <1>3
<1>5. p \in Elements(s)
  BY <1>2 DEF Elements
<1>6. t = [j \in 1..(n - 1) |-> IF j < k THEN s[j] ELSE s[j + 1]]
  BY <1>4, <1>5 DEF remove_ordered_pkid
<1> HIDE DEF t, n
<1>7. n \in Nat /\ n - 1 \in Nat /\ k \in Nat
  BY <1>1, <1>2
<1>8. \A j \in 1..(n - 1) : j \in 1..n /\ j + 1 \in 1..n
  BY <1>7
<1>9. ASSUME NEW j \in 1..(n - 1)
      PROVE  t[j] \in S \ {p}
  BY <1>1, <1>2, <1>6, <1>7, <1>8
<1>10. t \in [1..(n - 1) -> Pkid]
  BY <1>6, <1>9
<1>11. t \in Seq(Pkid) /\ Len(t) = n - 1
  BY <1>7, <1>10, IsASeq, LenProperties
<1>12. ASSUME NEW x \in S \ {p}
       PROVE  \E j \in 1..(n - 1) : t[j] = x
  <2>1. PICK i \in 1..n : s[i] = x
    BY <1>1
  <2>2. i # k
    BY <2>1, <1>2
  <2>3. CASE i < k
    BY <2>1, <2>3, <1>6, <1>7
  <2>4. CASE k < i
    <3>1. i - 1 \in 1..(n - 1) /\ ~(i - 1 < k) /\ (i - 1) + 1 = i
      BY <2>4, <1>7
    <3> QED
      BY <3>1, <2>1, <1>6
  <2> QED
    BY <2>2, <2>3, <2>4, <1>7
<1>13. ASSUME NEW i \in 1..(n - 1), NEW j \in 1..(n - 1), t[i] = t[j]
       PROVE  i = j
  <2>1. CASE i < k /\ j < k
    BY <2>1, <1>1, <1>6, <1>8, <1>13
  <2>2. CASE i < k /\ ~(j < k)
    BY <2>2, <1>1, <1>6, <1>7, <1>8, <1>13
  <2>3. CASE ~(i < k) /\ j < k
    BY <2>3, <1>1, <1>6, <1>7, <1>8, <1>13
  <2>4. CASE ~(i < k) /\ ~(j < k)
    BY <2>4, <1>1, <1>6, <1>7, <1>8, <1>13
  <2> QED
    BY <2>1, <2>2, <2>3, <2>4
<1>14. Elements(t) = S \ {p}
  BY <1>9, <1>11, <1>12 DEF Elements
<1> QED
  BY <1>11, <1>13, <1>14 DEF IsEnumeration, t

(* The empty queue.                                                        *)
LEMMA EnumerationEmpty == <<>> \in Seq(Pkid) /\ IsEnumeration(<<>>, {})
<1>1. Len(<<>>) = 0 /\ <<>> \in Seq(Pkid)
  BY EmptySeq
<1>2. 1..Len(<<>>) = {}
  BY <1>1
<1> QED
  BY <1>1, <1>2 DEF IsEnumeration, Elements

(* Identifiers in increasing order.                                        *)
LEMMA EnumerationAscending ==
  ASSUME NEW S, S \subseteq Pkid
  PROVE  Ascending(S) \in Seq(Pkid) /\ IsEnumeration(Ascending(S), S)
<1> DEFINE a == Ascending(S)
           n == Cardinality(S)
<1>1. /\ n \in Nat
      /\ a \in [1..n -> S]
      /\ \A i, j \in 1..n : a[i] = a[j] => i = j
      /\ \A x \in S : \E i \in 1..n : a[i] = x
  BY Zenon, PkidFinite, PkidSubset, AscendingEnumerates
<1> HIDE DEF a, n
<1>2. a \in Seq(S) /\ Len(a) = n
  BY <1>1, IsASeq, LenProperties
<1>3. IsEnumeration(a, S)
  BY <1>1, <1>2, EnumerationIntro
<1>4. a \in Seq(Pkid)
  BY <1>2, SeqMonotonic
<1> QED
  BY <1>3, <1>4 DEF a

(* Appending the identifiers not listed yet.                               *)
LEMMA EnumerationAppendMissing ==
  ASSUME NEW S, S \subseteq Pkid, NEW s \in Seq(Pkid), IsEnumeration(s, S),
         NEW T, T \subseteq Pkid, NEW t \in Seq(Pkid), IsEnumeration(t, T)
  PROVE  /\ append_missing(s, t) \in Seq(Pkid)
         /\ IsEnumeration(append_missing(s, t), S \cup T)
<1> DEFINE U == {i \in 1..Len(t) : t[i] \notin Elements(s)}
           r == Select(t, U)
           m == Len(s)
           q == s \o r
<1>1. /\ \A i \in 1..Len(t) : t[i] \in T
      /\ \A x \in T : \E i \in 1..Len(t) : t[i] = x
      /\ \A i, j \in 1..Len(t) : t[i] = t[j] => i = j
  BY EnumerationElim
<1>2. /\ \A i \in 1..m : s[i] \in S
      /\ \A x \in S : \E i \in 1..m : s[i] = x
      /\ \A i, j \in 1..m : s[i] = s[j] => i = j
      /\ Elements(s) = S
  BY EnumerationElim DEF IsEnumeration
<1>3. U \subseteq 1..Len(t)
  OBVIOUS
<1>4. \A i, j \in U : t[i] = t[j] => i = j
  BY <1>1
<1> HIDE DEF U
<1>5. /\ r \in Seq(Pkid)
      /\ Elements(r) = {t[i] : i \in U}
      /\ \A j, k \in 1..Len(r) : r[j] = r[k] => j = k
  <2>1. /\ r \in Seq(Pkid)
        /\ Elements(r) = {t[i] : i \in U}
        /\ (\A i, j \in U : t[i] = t[j] => i = j) =>
             \A j, k \in 1..Len(r) : r[j] = r[k] => j = k
    BY <1>3, SelectItems, Zenon
  <2> HIDE DEF r
  <2> QED
    BY <2>1, <1>4
<1>6. {t[i] : i \in U} = T \ S
  <2>1. ASSUME NEW i \in U
        PROVE  t[i] \in T \ S
    BY <1>1, <1>2 DEF U
  <2>2. ASSUME NEW x \in T \ S
        PROVE  \E i \in U : t[i] = x
    BY <1>1, <1>2 DEF U
  <2> QED
    BY <2>1, <2>2, Zenon
<1> HIDE DEF r
<1>7. \A j \in 1..Len(r) : r[j] \in T \ S
  BY Zenon, <1>5, <1>6 DEF Elements
<1>8. \A x \in T \ S : \E j \in 1..Len(r) : r[j] = x
  BY Zenon, <1>5, <1>6 DEF Elements
<1>9. /\ q \in Seq(Pkid)
      /\ Len(q) = m + Len(r)
      /\ \A i \in 1..(m + Len(r)) :
           q[i] = IF i <= m THEN s[i] ELSE r[i - m]
      /\ m \in Nat /\ Len(r) \in Nat
  BY <1>5, ConcatProperties, LenProperties
<1> DEFINE n == Len(r)
<1> HIDE DEF m, n, q
<1>10. m \in Nat /\ n \in Nat
  BY <1>9 DEF n
<1>11. \A i \in 1..(m + n) : i \in 1..m \/ (~(i <= m) /\ i - m \in 1..n)
  BY <1>10
<1>12. ASSUME NEW i \in 1..(m + n)
       PROVE  /\ i \in 1..m => q[i] = s[i] /\ q[i] \in S
              /\ i \notin 1..m => q[i] = r[i - m] /\ q[i] \in T \ S /\ i - m \in 1..n
  BY <1>2, <1>7, <1>9, <1>10, <1>11 DEF n
<1>13. \A i \in 1..(m + n) : q[i] \in S \cup T
  BY <1>11, <1>12
<1>14. ASSUME NEW x \in S \cup T
       PROVE  \E i \in 1..(m + n) : q[i] = x
  <2>1. CASE x \in S
    <3>1. PICK i \in 1..m : s[i] = x
      BY <1>2, <2>1
    <3>2. i \in 1..(m + n)
      BY <1>10
    <3> QED
      BY <3>1, <3>2, <1>12
  <2>2. CASE x \notin S
    <3>1. PICK j \in 1..n : r[j] = x
      BY <1>8, <2>2 DEF n
    <3>2. j + m \in 1..(m + n) /\ j + m \notin 1..m /\ (j + m) - m = j
      BY <1>10
    <3> QED
      BY <3>1, <3>2, <1>12
  <2> QED
    BY <2>1, <2>2
<1>15. ASSUME NEW i \in 1..(m + n), NEW j \in 1..(m + n), q[i] = q[j]
       PROVE  i = j
  <2>1. CASE i \in 1..m /\ j \in 1..m
    BY <2>1, <1>2, <1>12, <1>15
  <2>2. CASE i \notin 1..m /\ j \notin 1..m
    <3>1. i - m = j - m
      BY <2>2, <1>5, <1>12, <1>15 DEF n
    <3> QED
      BY <3>1, <1>10
  <2>3. ~(i \in 1..m /\ j \notin 1..m) /\ ~(i \notin 1..m /\ j \in 1..m)
    BY <1>12, <1>15
  <2> QED
    BY <2>1, <2>2, <2>3
<1>16. Elements(q) = S \cup T
  BY <1>9, <1>13, <1>14 DEF Elements, n
<1>17. append_missing(s, t) = q
  BY DEF append_missing, q, r, U
<1> QED
  BY <1>9, <1>15, <1>16, <1>17 DEF IsEnumeration, n

=============================================================================
