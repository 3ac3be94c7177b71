--------------------------- MODULE OrderingProofs ---------------------------
(***************************************************************************)
(* Theorems about Listed and Filtered, for every finite set, sequence and  *)
(* strict total order: nothing is lost, nothing is listed twice, the order *)
(* is the one that was asked for, and no other list has all this.          *)
(***************************************************************************)
EXTENDS Ordering, FiniteSetTheorems, TLAPS

\* R is a strict total order on S.
Orders(R, S) ==
  /\ \A x, y \in S : x = y \/ <<x, y>> \in R \/ <<y, x>> \in R
  /\ \A x \in S : <<x, x>> \notin R
  /\ \A x, y, z \in S : <<x, y>> \in R /\ <<y, z>> \in R => <<x, z>> \in R

\* An element has a place in the list, and a later one than those before it.
LEMMA Places ==
  ASSUME NEW S, IsFiniteSet(S), NEW R, Orders(R, S), NEW x \in S
  PROVE  /\ Place(x, S, R) \in 1..Cardinality(S)
         /\ \A y \in S : <<x, y>> \in R => Place(x, S, R) < Place(y, S, R)
<1> DEFINE Below(z) == {y \in S : <<y, z>> \in R}
<1>1. ASSUME NEW z \in S
      PROVE  IsFiniteSet(Below(z)) /\ Cardinality(Below(z)) \in Nat
             /\ Place(z, S, R) = Cardinality(Below(z)) + 1
  BY FS_Subset, FS_CardinalityType DEF Place
<1>2. Cardinality(Below(x)) < Cardinality(S)
  <2>1. Below(x) \in SUBSET S /\ x \notin Below(x)
    BY DEF Orders
  <2>2. Cardinality(Below(x)) <= Cardinality(S) /\ Cardinality(S) # Cardinality(Below(x))
    BY <2>1, FS_Subset
  <2> QED BY <1>1, <2>2, FS_CardinalityType
<1>3. ASSUME NEW y \in S, <<x, y>> \in R PROVE Cardinality(Below(x)) < Cardinality(Below(y))
  <2>1. Below(x) \in SUBSET Below(y) /\ x \notin Below(x) /\ x \in Below(y)
    BY <1>3 DEF Orders
  <2> HIDE DEF Below
  <2>2. Cardinality(Below(x)) <= Cardinality(Below(y)) /\ Cardinality(Below(y)) # Cardinality(Below(x))
    BY <1>1, <2>1, FS_Subset
  <2> QED BY <1>1, <2>2
<1> HIDE DEF Below
<1>4. Cardinality(S) \in Nat
  BY FS_CardinalityType
<1>5. Place(x, S, R) \in 1..Cardinality(S)
  BY <1>1, <1>2, <1>4
<1>6. ASSUME NEW y \in S, <<x, y>> \in R PROVE Place(x, S, R) < Place(y, S, R)
  BY <1>1, <1>3, <1>6
<1> QED BY <1>5, <1>6

\* A list has every element once, in the order.
THEOREM ListedIs ==
  ASSUME NEW S, IsFiniteSet(S), NEW R, Orders(R, S)
  PROVE  LET s == Listed(S, R)
         IN /\ s \in Seq(S) /\ s \in [1..Cardinality(S) -> S] /\ Len(s) = Cardinality(S)
            /\ Cardinality(S) \in Nat
            /\ \A x \in S : s[Place(x, S, R)] = x /\ Place(x, S, R) \in 1..Cardinality(S)
            /\ \A i, j \in 1..Cardinality(S) : i < j => <<s[i], s[j]>> \in R
<1> DEFINE n == Cardinality(S)
           place == [x \in S |-> Place(x, S, R)]
           s == Listed(S, R)
<1>1. n \in Nat /\ IsFiniteSet(1..n) /\ Cardinality(1..n) = n
  BY FS_CardinalityType, FS_Interval
<1>2. \A x \in S : Place(x, S, R) \in 1..n
  BY Places
<1>3. \A x, y \in S : <<x, y>> \in R => Place(x, S, R) < Place(y, S, R)
  BY Places
<1> HIDE DEF n
<1>4. ASSUME NEW x \in S, NEW y \in S, Place(x, S, R) = Place(y, S, R) PROVE x = y
  <2>1. Place(x, S, R) \in Int /\ Place(y, S, R) \in Int
    BY <1>1, <1>2
  <2>2. ~(<<x, y>> \in R) /\ ~(<<y, x>> \in R)
    BY <1>3, <1>4, <2>1
  <2> QED BY <2>2 DEF Orders
<1>5. place \in Injection(S, 1..n)
  BY <1>2, <1>4 DEF Injection, IsInjective
<1>6. place \in Surjection(S, 1..n)
  BY <1>1, <1>5, FS_Injection DEF n
<1>7. \A i \in 1..n : \E x \in S : Place(x, S, R) = i
  BY <1>6 DEF Surjection
<1>8. s = [i \in 1..n |-> CHOOSE x \in S : place[x] = i]
  BY DEF Listed, n
<1>p. \A x \in S : place[x] = Place(x, S, R)
  OBVIOUS
<1> HIDE DEF s, place
<1>9. \A i \in 1..n : s[i] \in S /\ Place(s[i], S, R) = i
  BY <1>7, <1>8, <1>p
<1>10. s \in [1..n -> S]
  BY <1>8, <1>9
<1>11. s \in Seq(S) /\ Len(s) = n
  BY <1>1, <1>10
<1>12. \A x \in S : s[Place(x, S, R)] = x
  BY <1>2, <1>4, <1>9
<1>13. ASSUME NEW i \in 1..n, NEW j \in 1..n, i < j PROVE <<s[i], s[j]>> \in R
  <2>1. s[i] \in S /\ s[j] \in S /\ Place(s[i], S, R) = i /\ Place(s[j], S, R) = j
    BY <1>9
  <2>2. ~(<<s[j], s[i]>> \in R) /\ s[i] # s[j]
    BY <1>1, <1>3, <1>13, <2>1
  <2> QED BY <2>1, <2>2 DEF Orders
<1> QED BY <1>1, <1>2, <1>10, <1>11, <1>12, <1>13 DEF n, s

\* A sequence that lists nothing twice.
Once(s) == \A i, j \in 1..Len(s) : s[i] = s[j] => i = j

\* What is kept is what is in the set, in the places' order.
THEOREM FilteredIs ==
  ASSUME NEW A, NEW s \in Seq(A), NEW T
  PROVE  LET k == Filtered(s, T)
         IN /\ k \in Seq(A \cap T)
            /\ \A i \in 1..Len(s) : s[i] \in T => \E j \in 1..Len(k) : k[j] = s[i]
            /\ \A j \in 1..Len(k) : \E i \in 1..Len(s) : k[j] = s[i] /\ s[i] \in T
            /\ Once(s) => Once(k)
<1> DEFINE at == {i \in DOMAIN s : s[i] \in T}
           R == {p \in at \X at : p[1] < p[2]}
           places == Listed(at, R)
           k == Filtered(s, T)
<1>1. at \subseteq 1..Len(s) /\ Len(s) \in Nat /\ DOMAIN s = 1..Len(s)
  OBVIOUS
<1>2. IsFiniteSet(at)
  <2>1. IsFiniteSet(1..Len(s)) /\ at \in SUBSET (1..Len(s))
    BY <1>1, FS_Interval
  <2> QED BY <2>1, FS_Subset
<1>3. Orders(R, at)
  <2>1. \A i \in at : i \in Int
    BY <1>1
  <2>2. \A i, j : <<i, j>> \in R <=> i \in at /\ j \in at /\ i < j
    OBVIOUS
  <2> HIDE DEF at, R
  <2> QED BY <2>1, <2>2 DEF Orders
<1>4. k = [i \in DOMAIN places |-> s[places[i]]]
  BY DEF Filtered
<1> DEFINE n == Cardinality(at)
<1>5. /\ places \in [1..n -> at] /\ n \in Nat
      /\ \A x \in at : \E i \in 1..n : places[i] = x
      /\ \A i, j \in 1..n : i < j => <<places[i], places[j]>> \in R
  <2> HIDE DEF at, R
  <2> QED BY <1>2, <1>3, ListedIs
<1>6. \A i, j \in 1..n : i < j => places[i] < places[j]
  BY <1>5
<1> HIDE DEF R, places, k, n
<1>7. DOMAIN places = 1..n /\ k \in [1..n -> A \cap T]
  BY <1>1, <1>4, <1>5
<1>8. k \in Seq(A \cap T) /\ Len(k) = n
  BY <1>5, <1>7
<1>9. ASSUME NEW i \in 1..n
      PROVE  places[i] \in 1..Len(s) /\ s[places[i]] \in T /\ k[i] = s[places[i]]
  <2>1. places[i] \in at
    BY <1>5
  <2>2. k[i] = s[places[i]]
    BY <1>4, <1>7
  <2> QED BY <1>1, <2>1, <2>2
<1>10. ASSUME NEW i \in 1..Len(s), s[i] \in T PROVE \E j \in 1..Len(k) : k[j] = s[i]
  BY <1>1, <1>5, <1>8, <1>9, <1>10
<1>11. ASSUME Once(s), NEW i \in 1..Len(k), NEW j \in 1..Len(k), k[i] = k[j]
       PROVE  i = j
  <2>1. places[i] = places[j]
    BY <1>8, <1>9, <1>11 DEF Once
  <2>2. places[i] \in Int /\ i \in Int /\ j \in Int
    BY <1>1, <1>5, <1>8, <1>9
  <2> QED BY <1>6, <1>8, <1>11, <2>1, <2>2
<1> QED BY <1>8, <1>9, <1>10, <1>11 DEF k, Once


\* p enumerates S, n elements, in the order R.
Enumerates(p, n, S, R) ==
  /\ n \in Nat /\ p \in [1..n -> S]
  /\ \A x \in S : \E i \in 1..n : p[i] = x
  /\ \A i, j \in 1..n : i < j => <<p[i], p[j]>> \in R

\* There is one list of a set in an order.
THEOREM ListedOnly ==
  ASSUME NEW S, NEW R, Orders(R, S), NEW n, NEW p, Enumerates(p, n, S, R)
  PROVE  Listed(S, R) = p /\ Cardinality(S) = n
<1>1. n \in Nat /\ p \in [1..n -> S] /\ \A x \in S : \E i \in 1..n : p[i] = x
  BY DEF Enumerates
<1>2. \A i, j \in 1..n : <<p[i], p[j]>> \in R <=> i < j
  <2>1. \A i \in 1..n : p[i] \in S
    BY <1>1
  <2>2. ASSUME NEW i \in 1..n, NEW j \in 1..n, <<p[i], p[j]>> \in R PROVE i < j
    <3>1. i # j
      BY <2>1, <2>2 DEF Orders
    <3>2. ~ (j < i)
      BY <2>1, <2>2 DEF Orders, Enumerates
    <3> QED BY <1>1, <3>1, <3>2
  <2> QED BY <2>2 DEF Enumerates
<1>3. \A i, j \in 1..n : p[i] = p[j] => i = j
  <2> SUFFICES ASSUME NEW i \in 1..n, NEW j \in 1..n, p[i] = p[j] PROVE i = j
    OBVIOUS
  <2>1. p[i] \in S /\ ~ (<<p[i], p[i]>> \in R)
    BY <1>1 DEF Orders
  <2>2. ~ (i < j) /\ ~ (j < i)
    BY <1>2, <2>1
  <2> QED BY <1>1, <2>2
<1>4. IsFiniteSet(S) /\ Cardinality(S) = n
  <2>1. IsFiniteSet(1..n) /\ Cardinality(1..n) = n
    BY <1>1, FS_Interval
  <2>2. p \in Bijection(1..n, S)
    BY <1>1, <1>3 DEF Bijection, Injection, Surjection, IsInjective
  <2> QED BY <2>1, <2>2, FS_Bijection DEF ExistsBijection
<1>5. ASSUME NEW k \in 1..n PROVE Place(p[k], S, R) = k
  <2> DEFINE B == {y \in S : <<y, p[k]>> \in R}
             f == [i \in 1..(k - 1) |-> p[i]]
  <2>1. k - 1 \in Nat /\ \A i \in 1..n : i < k <=> i \in 1..(k - 1)
    BY <1>1
  <2>2. \A i \in 1..(k - 1) : i \in 1..n /\ f[i] = p[i] /\ p[i] \in B
    <3>1. \A i \in 1..(k - 1) : i \in 1..n /\ i < k
      BY <1>1
    <3> QED BY <1>1, <1>2, <3>1
  <2>3. ASSUME NEW y \in B PROVE \E i \in 1..(k - 1) : f[i] = y
    <3>1. PICK i \in 1..n : p[i] = y
      BY <1>1
    <3>2. i < k
      BY <1>2, <3>1
    <3> QED BY <2>1, <2>2, <3>1, <3>2
  <2>4. f \in [1..(k - 1) -> B]
    BY <2>2
  <2>5. \A i, j \in 1..(k - 1) : f[i] = f[j] => i = j
    BY <1>3, <2>2
  <2> HIDE DEF B, f
  <2>6. f \in Bijection(1..(k - 1), B)
    BY <2>3, <2>4, <2>5 DEF Bijection, Injection, Surjection, IsInjective
  <2>7. IsFiniteSet(1..(k - 1)) /\ Cardinality(1..(k - 1)) = k - 1
    BY <2>1, FS_Interval
  <2>8. Cardinality(B) = k - 1
    BY <2>6, <2>7, FS_Bijection DEF ExistsBijection
  <2> QED BY <2>1, <2>8 DEF Place, B
<1> DEFINE s == Listed(S, R)
<1>6. /\ s \in [1..n -> S] /\ \A x \in S : s[Place(x, S, R)] = x
  BY <1>4, ListedIs
<1> HIDE DEF s
<1>7. \A k \in 1..n : s[k] = p[k]
  BY <1>1, <1>5, <1>6
<1>8. s = p
  BY <1>1, <1>6, <1>7
<1> QED BY <1>4, <1>8 DEF s

\* p gives the positions of s, n of them, that hold what is in T, from left to right.
Picks(p, n, s, T) ==
  /\ n \in Nat /\ p \in [1..n -> 1..Len(s)]
  /\ \A i \in 1..Len(s) : s[i] \in T <=> \E k \in 1..n : p[k] = i
  /\ \A i, j \in 1..n : i < j => p[i] < p[j]

At(s, T) == {i \in DOMAIN s : s[i] \in T}
Rising(S) == {q \in S \X S : q[1] < q[2]}

LEMMA RisingOrders ==
  ASSUME NEW S, S \subseteq Int
  PROVE  Orders(Rising(S), S) /\ \A i, j : <<i, j>> \in Rising(S) <=> i \in S /\ j \in S /\ i < j
<1>1. \A i, j : <<i, j>> \in Rising(S) <=> i \in S /\ j \in S /\ i < j
  BY DEF Rising
<1> QED BY <1>1 DEF Orders

\* What is picked is what is kept.
THEOREM FilteredOnly ==
  ASSUME NEW A, NEW s \in Seq(A), NEW T, NEW n, NEW p, Picks(p, n, s, T)
  PROVE  Filtered(s, T) = [k \in 1..n |-> s[p[k]]]
<1>0. Len(s) \in Nat /\ DOMAIN s = 1..Len(s)
  OBVIOUS
<1>1. At(s, T) \subseteq Int /\ \A i : i \in At(s, T) <=> i \in 1..Len(s) /\ s[i] \in T
  BY <1>0 DEF At
<1>2. Orders(Rising(At(s, T)), At(s, T))
  BY <1>1, RisingOrders
<1>3. Enumerates(p, n, At(s, T), Rising(At(s, T)))
  <2>1. n \in Nat /\ p \in [1..n -> 1..Len(s)]
    BY DEF Picks
  <2>2. \A i \in 1..n : p[i] \in At(s, T)
    BY <1>1, <2>1 DEF Picks
  <2>3. \A x \in At(s, T) : \E i \in 1..n : p[i] = x
    BY <1>1 DEF Picks
  <2>4. \A i, j \in 1..n : i < j => <<p[i], p[j]>> \in Rising(At(s, T))
    BY <1>1, <2>2, RisingOrders DEF Picks
  <2> QED BY <2>1, <2>2, <2>3, <2>4 DEF Enumerates
<1>4. Listed(At(s, T), Rising(At(s, T))) = p
  BY <1>2, <1>3, ListedOnly
<1>5. DOMAIN p = 1..n
  BY DEF Picks
<1>6. Filtered(s, T) = [k \in DOMAIN p |-> s[p[k]]]
  BY <1>4 DEF Filtered, At, Rising
<1> QED BY <1>5, <1>6

\* There is a way to pick it.
THEOREM FilteredPicks ==
  ASSUME NEW A, NEW s \in Seq(A), NEW T
  PROVE  \E n, p : Picks(p, n, s, T)
<1> DEFINE S == At(s, T)
           R == Rising(S)
           n == Cardinality(S)
           p == Listed(S, R)
<1>0. Len(s) \in Nat /\ DOMAIN s = 1..Len(s)
  OBVIOUS
<1>1. S \subseteq Int /\ S \subseteq 1..Len(s) /\ \A i : i \in S <=> i \in 1..Len(s) /\ s[i] \in T
  BY <1>0 DEF At
<1>2. IsFiniteSet(S)
  <2>1. IsFiniteSet(1..Len(s)) /\ S \in SUBSET (1..Len(s))
    BY <1>0, <1>1, FS_Interval
  <2> QED BY <2>1, FS_Subset
<1>3. /\ p \in [1..n -> S] /\ n \in Nat
      /\ \A x \in S : p[Place(x, S, R)] = x /\ Place(x, S, R) \in 1..n
      /\ \A i, j \in 1..n : i < j => <<p[i], p[j]>> \in R
  BY <1>1, <1>2, RisingOrders, ListedIs
<1>4. \A i, j : <<i, j>> \in R => i < j
  BY <1>1, RisingOrders
<1> HIDE DEF S, R, n, p
<1>5. Picks(p, n, s, T)
  <2>1. p \in [1..n -> 1..Len(s)] /\ \A i \in 1..n : p[i] \in S
    BY <1>1, <1>3
  <2>2. \A i \in 1..Len(s) : s[i] \in T <=> \E k \in 1..n : p[k] = i
    BY <1>1, <1>3, <2>1
  <2>3. \A i, j \in 1..n : i < j => p[i] < p[j]
    BY <1>3, <1>4
  <2> QED BY <1>3, <2>1, <2>2, <2>3 DEF Picks
<1> QED BY <1>5
=============================================================================
