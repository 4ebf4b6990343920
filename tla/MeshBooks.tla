------------------------------ MODULE MeshBooks ------------------------------
(***************************************************************************)
(* Proofs about the Engine's books: bandwidth is conserved across every    *)
(* sequence of RPCs in which no token is released twice or on another      *)
(* mesh, the walk that reserves a route succeeds, and the whole Engine is  *)
(* an implementation of MeshService.                                       *)
(*                                                                         *)
(* The books count.  What users hold of a node are the pairs of a token    *)
(* and a unit of its bandwidth; a grant adds the pairs of one token, a     *)
(* release takes them away.                                                *)
(***************************************************************************)
EXTENDS MeshSearchProofs

-----------------------------------------------------------------------------
(* Counting. *)

\* A set that a function from a finite set covers is finite.
LEMMA CoveredIsFinite ==
    ASSUME NEW S, IsFiniteSet(S), NEW T, NEW f \in [S -> T],
           \A t \in T : \E s \in S : f[s] = t
    PROVE  IsFiniteSet(T)
<1>1. f \in Surjection(S, T)
  BY DEF Surjection
<1> QED BY <1>1, FS_Surjection

\* A one-to-one map onto another set shows it to have as many elements.
LEMMA SameCount ==
    ASSUME NEW S, IsFiniteSet(S), NEW T, NEW f \in [S -> T],
           \A x, y \in S : f[x] = f[y] => x = y,
           \A t \in T : \E s \in S : f[s] = t
    PROVE  IsFiniteSet(T) /\ Cardinality(T) = Cardinality(S)
<1>1. f \in Bijection(S, T)
  BY DEF Bijection, Injection, Surjection, IsInjective
<1> QED BY <1>1, FS_Bijection DEF ExistsBijection

\* Two sets apart count as their sum.
LEMMA ApartCount ==
    ASSUME NEW S, IsFiniteSet(S), NEW T, IsFiniteSet(T), S \cap T = {}
    PROVE  /\ IsFiniteSet(S \cup T)
           /\ Cardinality(S \cup T) = Cardinality(S) + Cardinality(T)
<1>1. Cardinality(S \cap T) = 0
  BY FS_EmptySet
<1>2. Cardinality(S) \in Nat /\ Cardinality(T) \in Nat
  BY FS_CardinalityType
<1>3. /\ IsFiniteSet(S \cup T)
      /\ Cardinality(S \cup T)
             = Cardinality(S) + Cardinality(T) - Cardinality(S \cap T)
  BY FS_Union
<1> QED BY <1>1, <1>2, <1>3

\* The units of one token.
LEMMA OneTokensUnits ==
    ASSUME NEW k, NEW b \in Nat
    PROVE  /\ IsFiniteSet({k} \X (1 .. b))
           /\ Cardinality({k} \X (1 .. b)) = b
<1>1. IsFiniteSet(1 .. b) /\ Cardinality(1 .. b) = b
  BY FS_Interval
<1>2. IsFiniteSet({k}) /\ Cardinality({k}) = 1
  BY FS_Singleton
<1> QED BY <1>1, <1>2, FS_Product

LEMMA UnitsElements ==
    ASSUME NEW ts \in Seq(Token), NEW i
    PROVE  /\ \A x : x \in Units(ts, i) <=>
                 \E k \in DOMAIN ts : /\ Kept(ts[k]) /\ i \in ToSet(ts[k].path)
                                      /\ x \in {k} \X (1 .. ts[k].bandwidth)
           /\ \A k \in DOMAIN ts : ts[k] \in Token /\ ts[k].bandwidth \in Nat \ {0}
<1>1. \A k \in DOMAIN ts : ts[k] \in Token
  OBVIOUS
<1>2. \A t \in Token : t.bandwidth \in Nat \ {0}
  BY DEF Token
<1> QED BY <1>1, <1>2 DEF Units

LEMMA UnitsAreFinite ==
    ASSUME NEW ts \in Seq(Token), NEW i
    PROVE  IsFiniteSet(Units(ts, i)) /\ Cardinality(Units(ts, i)) \in Nat
<1> DEFINE D == {m \in DOMAIN ts : Kept(ts[m]) /\ i \in ToSet(ts[m].path)}
           part(k) == {k} \X (1 .. ts[k].bandwidth)
           P == {part(k) : k \in D}
           f == [k \in D |-> part(k)]
<1>1. IsFiniteSet(D)
  <2>1. DOMAIN ts = 1 .. Len(ts) /\ Len(ts) \in Nat /\ D \subseteq DOMAIN ts
    OBVIOUS
  <2>2. IsFiniteSet(DOMAIN ts)
    BY <2>1, FS_Interval
  <2> QED BY <2>1, <2>2, FS_Subset
<1>2. \A k \in D : IsFiniteSet(part(k))
  BY UnitsElements, OneTokensUnits
<1>3. IsFiniteSet(P)
  <2>1. f \in [D -> P] /\ \A t \in P : \E s \in D : f[s] = t
    OBVIOUS
  <2> HIDE DEF D, P, f
  <2> QED BY <1>1, <2>1, CoveredIsFinite
<1>4. \A T \in P : IsFiniteSet(T)
  BY <1>2
<1>5. Units(ts, i) = UNION P
  BY DEF Units
<1> HIDE DEF P
<1> QED BY <1>3, <1>4, <1>5, FS_UNION, FS_CardinalityType

\* What the k-th of the tokens ts stands for at node i.
Stake(t, i) == IF Kept(t) /\ i \in ToSet(t.path) THEN t.bandwidth ELSE 0

\* A token more.
LEMMA UnitsOfAppend ==
    ASSUME NEW ts \in Seq(Token), NEW t \in Token, NEW i
    PROVE  Cardinality(Units(Append(ts, t), i))
               = Cardinality(Units(ts, i)) + Stake(t, i)
<1> DEFINE us == Append(ts, t)
           n == Len(ts) + 1
           more == {n} \X (1 .. t.bandwidth)
<1>1. /\ us \in Seq(Token) /\ DOMAIN us = (DOMAIN ts) \cup {n} /\ n \notin DOMAIN ts
      /\ us[n] = t /\ \A k \in DOMAIN ts : us[k] = ts[k]
  OBVIOUS
<1> HIDE DEF us, n
<1>2. t.bandwidth \in Nat /\ IsFiniteSet(more) /\ Cardinality(more) = t.bandwidth
  BY OneTokensUnits DEF Token
<1>3. CASE Kept(t) /\ i \in ToSet(t.path)
  <2>1. Units(us, i) = Units(ts, i) \cup more
    <3>1. \A x : x \in Units(us, i) <=> x \in Units(ts, i) \/ x \in more
      BY <1>1, <1>3, UnitsElements
    <3> QED BY <3>1
  <2>2. Units(ts, i) \cap more = {}
    <3>1. \A x \in Units(ts, i) : x[1] \in DOMAIN ts
      BY UnitsElements
    <3> QED BY <1>1, <3>1
  <2> QED BY <1>2, <1>3, <2>1, <2>2, ApartCount, UnitsAreFinite DEF Stake, us
<1>4. CASE ~(Kept(t) /\ i \in ToSet(t.path))
  <2>1. \A x : x \in Units(us, i) <=> x \in Units(ts, i)
    BY <1>1, <1>4, UnitsElements
  <2>2. Units(us, i) = Units(ts, i)
    BY <2>1
  <2> QED BY <1>4, <2>2, UnitsAreFinite DEF Stake, us
<1> QED BY <1>3, <1>4

\* A token that counts no longer.
LEMMA UnitsOfReturned ==
    ASSUME NEW ts \in Seq(Token), NEW k \in DOMAIN ts, NEW i
    PROVE  LET us == [ts EXCEPT ![k] = Returned(ts[k])] IN
           /\ us \in Seq(Token)
           /\ Cardinality(Units(us, i)) = Cardinality(Units(ts, i)) - Stake(ts[k], i)
<1> DEFINE us == [ts EXCEPT ![k] = Returned(ts[k])]
           mine == {k} \X (1 .. ts[k].bandwidth)
<1>1. us \in Seq(Token) /\ ts[k] \in Token
  <2>1. ts[k] \in Token
    OBVIOUS
  <2>2. Returned(ts[k]) \in Token
    BY <2>1 DEF Returned, Token
  <2> QED BY <2>1, <2>2
<1>2. /\ DOMAIN us = DOMAIN ts /\ us[k] = Returned(ts[k])
      /\ \A j \in DOMAIN ts : j # k => us[j] = ts[j]
  OBVIOUS
<1>3. ~Kept(us[k])
  <2>1. Returned(ts[k]).returned
    BY <1>1 DEF Returned, Token
  <2> QED BY <1>2, <2>1 DEF Kept
<1> HIDE DEF us
<1>4. /\ ts[k].bandwidth \in Nat /\ IsFiniteSet(mine)
      /\ Cardinality(mine) = ts[k].bandwidth
  BY <1>1, OneTokensUnits DEF Token
<1>5. Units(us, i) \cap mine = {}
  <2>1. \A x \in Units(us, i) : x[1] \in DOMAIN ts /\ x[1] # k
    BY <1>1, <1>2, <1>3, UnitsElements
  <2> QED BY <2>1
<1>6. /\ Cardinality(Units(us, i)) \in Nat /\ Cardinality(Units(ts, i)) \in Nat
      /\ IsFiniteSet(Units(us, i))
  BY <1>1, UnitsAreFinite
<1>7. CASE Kept(ts[k]) /\ i \in ToSet(ts[k].path)
  <2>1. \A x : x \in Units(ts, i) <=> x \in Units(us, i) \/ x \in mine
    BY <1>1, <1>2, <1>3, <1>7, UnitsElements
  <2>2. Units(ts, i) = Units(us, i) \cup mine
    BY <2>1
  <2>3. Cardinality(Units(ts, i)) = Cardinality(Units(us, i)) + ts[k].bandwidth
    BY <1>4, <1>5, <1>6, <2>2, ApartCount
  <2> QED BY <1>1, <1>4, <1>6, <1>7, <2>3 DEF Stake, us
<1>8. CASE ~(Kept(ts[k]) /\ i \in ToSet(ts[k].path))
  <2>1. \A x : x \in Units(ts, i) <=> x \in Units(us, i)
    BY <1>1, <1>2, <1>3, <1>8, UnitsElements
  <2>2. Units(ts, i) = Units(us, i)
    BY <2>1
  <2> QED BY <1>1, <1>6, <1>8, <2>2 DEF Stake, us
<1> QED BY <1>7, <1>8

\* What is left of a sequence without its k-th entry.
LEMMA EntriesOfRemoveAt ==
    ASSUME NEW S, NEW ts \in Seq(S), NEW k \in DOMAIN ts
    PROVE  LET us == RemoveAt(ts, k) IN
           /\ us \in Seq(S) /\ DOMAIN us = 1 .. Len(ts) - 1
           /\ \A j \in 1 .. Len(ts) - 1 : us[j] = IF j < k THEN ts[j] ELSE ts[j + 1]
<1> DEFINE us == RemoveAt(ts, k)
           left == SubSeq(ts, 1, k - 1)
           right == SubSeq(ts, k + 1, Len(ts))
<1>1. k \in 1 .. Len(ts) /\ Len(ts) \in Nat
  OBVIOUS
<1>2. left \in Seq(S) /\ Len(left) = k - 1 /\ \A j \in 1 .. k - 1 : left[j] = ts[j]
  BY <1>1
<1>3. /\ right \in Seq(S) /\ Len(right) = Len(ts) - k
      /\ \A j \in 1 .. Len(ts) - k : right[j] = ts[k + j]
  BY <1>1
<1> HIDE DEF left, right
<1>4. us = left \o right
  BY DEF RemoveAt, left, right
<1>5. us \in Seq(S) /\ DOMAIN us = 1 .. Len(ts) - 1
  BY <1>1, <1>2, <1>3, <1>4
<1>6. ASSUME NEW j \in 1 .. Len(ts) - 1
      PROVE  us[j] = IF j < k THEN ts[j] ELSE ts[j + 1]
  <2>1. CASE j < k
    BY <1>1, <1>2, <1>3, <1>4, <2>1
  <2>2. CASE ~(j < k)
    <3>0. \A m \in 1 .. Len(left) + Len(right) :
             us[m] = IF m <= Len(left) THEN left[m] ELSE right[m - Len(left)]
      <4>1. \A a, b \in Seq(S) : \A m \in 1 .. Len(a) + Len(b) :
               (a \o b)[m] = IF m <= Len(a) THEN a[m] ELSE b[m - Len(a)]
        OBVIOUS
      <4>2. left \in Seq(S) /\ right \in Seq(S)
        BY <1>2, <1>3
      <4> QED BY <1>4, <4>1, <4>2
    <3>1. us[j] = right[j - (k - 1)]
      <4>1. /\ j \in 1 .. Len(left) + Len(right) /\ ~(j <= Len(left))
            /\ Len(left) = k - 1
        BY <1>1, <1>2, <1>3, <2>2
      <4> HIDE DEF us
      <4> QED BY <3>0, <4>1
    <3>2. j - (k - 1) \in 1 .. Len(ts) - k /\ k + (j - (k - 1)) = j + 1
      BY <1>1, <2>2
    <3> QED BY <1>3, <2>2, <3>1, <3>2
  <2> QED BY <2>1, <2>2
<1> QED BY <1>5, <1>6

\* Where the entries go that were behind it.
Moved(k, j) == IF j < k THEN j ELSE j - 1

LEMMA MovedEntries ==
    ASSUME NEW S, NEW ts \in Seq(S), NEW k \in DOMAIN ts
    PROVE  LET us == RemoveAt(ts, k) IN
           /\ \A j \in (DOMAIN ts) \ {k} :
                 Moved(k, j) \in DOMAIN us /\ us[Moved(k, j)] = ts[j]
           /\ \A i, j \in (DOMAIN ts) \ {k} : Moved(k, i) = Moved(k, j) => i = j
           /\ \A m \in DOMAIN us :
                 \E j \in (DOMAIN ts) \ {k} : Moved(k, j) = m /\ us[m] = ts[j]
<1> DEFINE us == RemoveAt(ts, k)
<1>1. /\ k \in 1 .. Len(ts) /\ Len(ts) \in Nat /\ DOMAIN ts = 1 .. Len(ts)
      /\ DOMAIN us = 1 .. Len(ts) - 1
      /\ \A j \in 1 .. Len(ts) - 1 : us[j] = IF j < k THEN ts[j] ELSE ts[j + 1]
  <2>1. k \in 1 .. Len(ts) /\ Len(ts) \in Nat /\ DOMAIN ts = 1 .. Len(ts)
    OBVIOUS
  <2>2. /\ DOMAIN RemoveAt(ts, k) = 1 .. Len(ts) - 1
        /\ \A j \in 1 .. Len(ts) - 1 :
              RemoveAt(ts, k)[j] = IF j < k THEN ts[j] ELSE ts[j + 1]
    BY EntriesOfRemoveAt, Zenon
  <2> QED BY <2>1, <2>2
<1> HIDE DEF us
<1>2. ASSUME NEW j \in (DOMAIN ts) \ {k}
      PROVE  Moved(k, j) \in DOMAIN us /\ us[Moved(k, j)] = ts[j]
  <2>1. CASE j < k
    <3>1. j \in 1 .. Len(ts) - 1
      BY <1>1, <2>1
    <3> QED BY <1>1, <2>1, <3>1 DEF Moved
  <2>2. CASE ~(j < k)
    <3>1. j - 1 \in 1 .. Len(ts) - 1 /\ ~(j - 1 < k) /\ (j - 1) + 1 = j
      BY <1>1, <2>2
    <3> QED BY <1>1, <2>2, <3>1 DEF Moved
  <2> QED BY <2>1, <2>2
<1>3. ASSUME NEW i \in (DOMAIN ts) \ {k}, NEW j \in (DOMAIN ts) \ {k},
             Moved(k, i) = Moved(k, j)
      PROVE  i = j
  BY <1>1, <1>3 DEF Moved
<1>4. ASSUME NEW m \in DOMAIN us
      PROVE  \E j \in (DOMAIN ts) \ {k} : Moved(k, j) = m /\ us[m] = ts[j]
  <2>1. CASE m < k
    <3>1. m \in (DOMAIN ts) \ {k}
      BY <1>1, <2>1
    <3> QED BY <1>1, <2>1, <3>1 DEF Moved
  <2>2. CASE ~(m < k)
    <3>1. m + 1 \in (DOMAIN ts) \ {k} /\ Moved(k, m + 1) = m
      BY <1>1, <2>2 DEF Moved
    <3> QED BY <1>1, <2>2, <3>1
  <2> QED BY <2>1, <2>2
<1> QED BY <1>2, <1>3, <1>4 DEF us

\* Taking a token away counts like marking it as returned.
LEMMA UnitsOfRemoveAt ==
    ASSUME NEW ts \in Seq(Token), NEW k \in DOMAIN ts, NEW i
    PROVE  Cardinality(Units(RemoveAt(ts, k), i))
               = Cardinality(Units(ts, i)) - Stake(ts[k], i)
<1> DEFINE rs == [ts EXCEPT ![k] = Returned(ts[k])]
           us == RemoveAt(ts, k)
           S == Units(rs, i)
           T == Units(us, i)
           f == [x \in S |-> <<Moved(k, x[1]), x[2]>>]
<1>1. /\ rs \in Seq(Token) /\ IsFiniteSet(S)
      /\ Cardinality(S) = Cardinality(Units(ts, i)) - Stake(ts[k], i)
  BY UnitsOfReturned, UnitsAreFinite
<1>2. us \in Seq(Token)
  BY EntriesOfRemoveAt
<1>3. /\ DOMAIN rs = DOMAIN ts /\ ~Kept(rs[k])
      /\ \A j \in DOMAIN ts : j # k => rs[j] = ts[j]
  <2>1. ts[k] \in Token
    OBVIOUS
  <2>2. rs[k] = Returned(ts[k]) /\ Returned(ts[k]).returned
    BY <2>1 DEF Returned, Token
  <2> QED BY <2>2 DEF Kept
<1>4. /\ \A j \in (DOMAIN ts) \ {k} : Moved(k, j) \in DOMAIN us /\ us[Moved(k, j)] = ts[j]
      /\ \A a, b \in (DOMAIN ts) \ {k} : Moved(k, a) = Moved(k, b) => a = b
      /\ \A m \in DOMAIN us :
            \E j \in (DOMAIN ts) \ {k} : Moved(k, j) = m /\ us[m] = ts[j]
  BY MovedEntries
<1> HIDE DEF rs, us
<1>5. ASSUME NEW x
      PROVE  x \in S <=> \E j \in (DOMAIN ts) \ {k} :
                            /\ Kept(ts[j]) /\ i \in ToSet(ts[j].path)
                            /\ x \in {j} \X (1 .. ts[j].bandwidth)
  BY <1>1, <1>3, UnitsElements
<1>6. ASSUME NEW x
      PROVE  x \in T <=> \E m \in DOMAIN us :
                            /\ Kept(us[m]) /\ i \in ToSet(us[m].path)
                            /\ x \in {m} \X (1 .. us[m].bandwidth)
  BY <1>2, UnitsElements
<1> HIDE DEF S, T
<1>7. f \in [S -> T]
  <2>1. ASSUME NEW x \in S PROVE <<Moved(k, x[1]), x[2]>> \in T
    <3>1. PICK j \in (DOMAIN ts) \ {k} :
             /\ Kept(ts[j]) /\ i \in ToSet(ts[j].path)
             /\ x \in {j} \X (1 .. ts[j].bandwidth)
      BY <1>5
    <3>2. x[1] = j /\ x[2] \in 1 .. ts[j].bandwidth
      BY <3>1
    <3>3. us[Moved(k, j)] = ts[j] /\ Moved(k, j) \in DOMAIN us
      BY <1>4
    <3> QED BY <1>6, <3>1, <3>2, <3>3
  <2> QED BY <2>1
<1>8. ASSUME NEW x \in S, NEW y \in S, f[x] = f[y] PROVE x = y
  <2>1. PICK j \in (DOMAIN ts) \ {k} : x \in {j} \X (1 .. ts[j].bandwidth)
    BY <1>5
  <2>2. PICK m \in (DOMAIN ts) \ {k} : y \in {m} \X (1 .. ts[m].bandwidth)
    BY <1>5
  <2>3. x = <<j, x[2]>> /\ y = <<m, y[2]>> /\ x[1] = j /\ y[1] = m
    BY <2>1, <2>2
  <2>4. Moved(k, j) = Moved(k, m) /\ x[2] = y[2]
    BY <1>8, <2>3
  <2>5. j = m
    BY <1>4, <2>4
  <2> QED BY <2>3, <2>4, <2>5
<1>9. ASSUME NEW y \in T PROVE \E x \in S : f[x] = y
  <2>1. PICK m \in DOMAIN us : /\ Kept(us[m]) /\ i \in ToSet(us[m].path)
                               /\ y \in {m} \X (1 .. us[m].bandwidth)
    BY <1>6
  <2>2. PICK j \in (DOMAIN ts) \ {k} : Moved(k, j) = m /\ us[m] = ts[j]
    BY <1>4
  <2>3. y = <<m, y[2]>> /\ y[2] \in 1 .. ts[j].bandwidth
    BY <2>1, <2>2
  <2>4. <<j, y[2]>> \in S
    BY <1>5, <2>1, <2>2, <2>3
  <2>5. f[<<j, y[2]>>] = y
    BY <2>2, <2>3, <2>4
  <2> QED BY <2>4, <2>5
<1> HIDE DEF f
<1>10. Cardinality(T) = Cardinality(S)
  BY <1>1, <1>7, <1>8, <1>9, SameCount
<1> QED BY <1>1, <1>10 DEF T, us

\* Tokens of another mesh count for nothing.
LEMMA OutdatedCount ==
    ASSUME tokens \in Seq(Token)
    PROVE  /\ \A i : Units(Outdated, i) = {}
           /\ \A q, b : Granted(Outdated, q, b) = {}
           /\ \A k \in DOMAIN Outdated : ~Kept(Outdated[k])
<1>1. \A k \in DOMAIN Outdated : ~Kept(Outdated[k])
  <2>1. TAKE k \in DOMAIN Outdated
  <2>2. tokens[k] \in Token /\ Outdated[k] = Outdate(tokens[k])
    BY DEF Outdated
  <2>3. ~Outdate(tokens[k]).current
    BY <2>2 DEF Outdate, Token
  <2> QED BY <2>2, <2>3 DEF Kept
<1> QED BY <1>1 DEF Units, Granted

\* The same for the tokens of one path and bandwidth.
StandsFor(t, q, b) == Kept(t) /\ t.path = q /\ t.bandwidth = b

LEMMA GrantedIsFinite ==
    ASSUME NEW ts \in Seq(Token), NEW q, NEW b
    PROVE  /\ IsFiniteSet(Granted(ts, q, b)) /\ Cardinality(Granted(ts, q, b)) \in Nat
           /\ \A k : k \in Granted(ts, q, b) <=>
                        k \in DOMAIN ts /\ StandsFor(ts[k], q, b)
<1>1. DOMAIN ts = 1 .. Len(ts) /\ Len(ts) \in Nat
  OBVIOUS
<1>2. IsFiniteSet(DOMAIN ts)
  BY <1>1, FS_Interval
<1>3. Granted(ts, q, b) \in SUBSET DOMAIN ts
  BY DEF Granted
<1>4. IsFiniteSet(Granted(ts, q, b))
  BY <1>2, <1>3, FS_Subset
<1>5. \A k : k \in Granted(ts, q, b) <=> k \in DOMAIN ts /\ StandsFor(ts[k], q, b)
  BY DEF Granted, StandsFor
<1> QED BY <1>4, <1>5, FS_CardinalityType

LEMMA GrantedOfAppend ==
    ASSUME NEW ts \in Seq(Token), NEW t \in Token, NEW q, NEW b
    PROVE  Cardinality(Granted(Append(ts, t), q, b))
               = Cardinality(Granted(ts, q, b)) + IF StandsFor(t, q, b) THEN 1 ELSE 0
<1> DEFINE us == Append(ts, t)
           n == Len(ts) + 1
<1>1. /\ us \in Seq(Token) /\ DOMAIN us = (DOMAIN ts) \cup {n} /\ n \notin DOMAIN ts
      /\ us[n] = t /\ \A k \in DOMAIN ts : us[k] = ts[k]
  OBVIOUS
<1> HIDE DEF us, n
<1>2. \A k : k \in Granted(us, q, b) <=>
                k \in Granted(ts, q, b) \/ (k = n /\ StandsFor(t, q, b))
  BY <1>1, GrantedIsFinite
<1>3. n \notin Granted(ts, q, b)
  BY <1>1, GrantedIsFinite
<1>4. CASE StandsFor(t, q, b)
  <2>1. Granted(us, q, b) = Granted(ts, q, b) \cup {n}
    BY <1>2, <1>4
  <2> QED BY <1>3, <1>4, <2>1, GrantedIsFinite, FS_AddElement DEF us
<1>5. CASE ~StandsFor(t, q, b)
  <2>1. Granted(us, q, b) = Granted(ts, q, b)
    BY <1>2, <1>5
  <2> QED BY <1>5, <2>1, GrantedIsFinite DEF us
<1> QED BY <1>4, <1>5

LEMMA GrantedOfReturned ==
    ASSUME NEW ts \in Seq(Token), NEW k \in DOMAIN ts, NEW q, NEW b
    PROVE  LET us == [ts EXCEPT ![k] = Returned(ts[k])] IN
           /\ us \in Seq(Token) /\ DOMAIN us = DOMAIN ts /\ ~Kept(us[k])
           /\ \A j \in DOMAIN ts : j # k => us[j] = ts[j]
           /\ Cardinality(Granted(us, q, b))
                = Cardinality(Granted(ts, q, b)) - IF StandsFor(ts[k], q, b) THEN 1 ELSE 0
<1> DEFINE us == [ts EXCEPT ![k] = Returned(ts[k])]
<1>1. us \in Seq(Token)
  BY UnitsOfReturned
<1>2. /\ DOMAIN us = DOMAIN ts /\ us[k] = Returned(ts[k]) /\ ts[k] \in Token
      /\ \A j \in DOMAIN ts : j # k => us[j] = ts[j]
  OBVIOUS
<1>3. ~Kept(us[k])
  <2>1. Returned(ts[k]).returned
    BY <1>2 DEF Returned, Token
  <2> QED BY <1>2, <2>1 DEF Kept
<1> HIDE DEF us
<1>4. \A j : j \in Granted(us, q, b) <=> j \in Granted(ts, q, b) /\ j # k
  BY <1>1, <1>2, <1>3, GrantedIsFinite DEF StandsFor
<1>5. Granted(us, q, b) = Granted(ts, q, b) \ {k}
  BY <1>4
<1>6. k \in Granted(ts, q, b) <=> StandsFor(ts[k], q, b)
  BY GrantedIsFinite
<1>7. /\ IsFiniteSet(Granted(ts, q, b)) /\ Cardinality(Granted(ts, q, b)) \in Nat
  BY GrantedIsFinite
<1>8. Cardinality(Granted(us, q, b))
        = IF k \in Granted(ts, q, b) THEN Cardinality(Granted(ts, q, b)) - 1
                                     ELSE Cardinality(Granted(ts, q, b))
  BY <1>5, <1>7, FS_RemoveElement
<1> QED BY <1>1, <1>2, <1>3, <1>6, <1>7, <1>8 DEF us

LEMMA GrantedOfRemoveAt ==
    ASSUME NEW ts \in Seq(Token), NEW k \in DOMAIN ts, NEW q, NEW b
    PROVE  Cardinality(Granted(RemoveAt(ts, k), q, b))
               = Cardinality(Granted(ts, q, b)) - IF StandsFor(ts[k], q, b) THEN 1 ELSE 0
<1> DEFINE rs == [ts EXCEPT ![k] = Returned(ts[k])]
           us == RemoveAt(ts, k)
           S == Granted(rs, q, b)
           T == Granted(us, q, b)
           f == [j \in S |-> Moved(k, j)]
<1>1. /\ rs \in Seq(Token) /\ DOMAIN rs = DOMAIN ts /\ ~Kept(rs[k])
      /\ \A j \in DOMAIN ts : j # k => rs[j] = ts[j]
      /\ Cardinality(S)
           = Cardinality(Granted(ts, q, b)) - IF StandsFor(ts[k], q, b) THEN 1 ELSE 0
  BY GrantedOfReturned
<1>2. us \in Seq(Token)
  BY EntriesOfRemoveAt
<1>3. /\ \A j \in (DOMAIN ts) \ {k} : Moved(k, j) \in DOMAIN us /\ us[Moved(k, j)] = ts[j]
      /\ \A i, j \in (DOMAIN ts) \ {k} : Moved(k, i) = Moved(k, j) => i = j
      /\ \A m \in DOMAIN us :
            \E j \in (DOMAIN ts) \ {k} : Moved(k, j) = m /\ us[m] = ts[j]
  BY MovedEntries
<1> HIDE DEF rs, us
<1>4. /\ IsFiniteSet(S)
      /\ \A j : j \in S <=> j \in (DOMAIN ts) \ {k} /\ StandsFor(ts[j], q, b)
      /\ \A m : m \in T <=> m \in DOMAIN us /\ StandsFor(us[m], q, b)
  BY <1>1, <1>2, GrantedIsFinite DEF StandsFor
<1> HIDE DEF S, T
<1>5. f \in [S -> T]
  BY <1>3, <1>4
<1>6. \A x, y \in S : f[x] = f[y] => x = y
  BY <1>3, <1>4
<1>7. \A y \in T : \E x \in S : f[x] = y
  BY <1>3, <1>4
<1> HIDE DEF f
<1>8. Cardinality(T) = Cardinality(S)
  BY <1>4, <1>5, <1>6, <1>7, SameCount
<1> QED BY <1>1, <1>8 DEF T, us

-----------------------------------------------------------------------------
(* What the RPCs on the mesh do, node by node. *)

\* A node as it comes into the mesh.
Fresh(c) == c.total \in Nat \ {0} /\ c.available = c.total /\ c.latency >= 0

LEMMA PayloadsAreFresh ==
    ASSUME NEW p \in Payload, ValidPayload(p), NEW adjacency
    PROVE  Fresh(NewCell(p, adjacency)) /\ NewCell(p, adjacency).total = p.total
           /\ p.id \in Id /\ p.total \in Nat \ {0}
<1>1. p \in [id : Id, loc : Loc, total : Int, available : Int,
             gateway : BOOLEAN, latency : Int]
  BY ConstantAssumption
<1>2. p.id \in Id /\ p.total \in Int
  BY <1>1
<1>3. p.available = p.total /\ p.latency >= 0
  BY CallerAssumption, RouterAssumption
<1>4. /\ NewCell(p, adjacency).total = p.total
      /\ NewCell(p, adjacency).available = p.available
      /\ NewCell(p, adjacency).latency = p.latency
  BY DEF NewCell
<1> QED BY <1>2, <1>3, <1>4 DEF Fresh, ValidPayload

LEMMA Reboots ==
    ASSUME MeshInv, NEW b \in Batch, InitialReboot(b)
    PROVE  \A i : Registered(i)' => Fresh(NodeOf(i)')
<1>0. PICK n \in 0 .. Len(b) : \E place \in Placements[n] : Placed(b, n, place)
  BY InitialRebootPlaces
<1>1. PICK place \in Placements[n] : Placed(b, n, place)
  BY <1>0
<1>2. SUFFICES ASSUME NEW i \in Id, id2PtrMap'[i] # NoAddr
               PROVE  Fresh(heap'[id2PtrMap'[i]])
  BY DEF Registered, NodeOf
<1>3. PICK k \in 1 .. n : id2PtrMap'[i] = place[k]
  BY <1>1, <1>2 DEF Placed
<1>4. /\ b[k] \in Payload /\ ValidPayload(b[k])
      /\ heap'[id2PtrMap'[i]] = NewCell(b[k], NearPlaced(b, n, place, k))
  BY <1>1, <1>3 DEF Placed
<1> QED BY <1>4, PayloadsAreFresh

LEMMA Additions ==
    ASSUME MeshInv, NEW p \in Joining, AddNode(p)
    PROVE  /\ p.id \in Id /\ ~Registered(p.id) /\ Fresh(NodeOf(p.id)')
           /\ NodeOf(p.id)'.total = p.total /\ p.total \in Nat \ {0}
           /\ \A i : Registered(i)' <=> Registered(i) \/ i = p.id
           /\ \A i : Registered(i) => NodeOf(i)' = NodeOf(i)
<1>1. PICK a \in Addr \ Live :
        /\ heap' = [heap EXCEPT ![a] = NewCell(p, InRange(p.loc) \cup {a})]
        /\ id2PtrMap' = [id2PtrMap EXCEPT ![p.id] = a]
  BY DEF AddNode
<1> DEFINE cell == NewCell(p, InRange(p.loc) \cup {a})
<1>2. p \in Payload /\ ValidPayload(p) /\ ~Registered(p.id)
  BY ConstantAssumption DEF AddNode
<1>3. Fresh(cell) /\ cell.total = p.total /\ p.id \in Id /\ p.total \in Nat \ {0}
  BY <1>2, PayloadsAreFresh
<1> HIDE DEF cell
<1>4. /\ heap' = [heap EXCEPT ![a] = cell] /\ a # NoAddr
      /\ heap \in [Addr -> Cell \cup {Blank}]
      /\ id2PtrMap \in [Id -> Addr \cup {NoAddr}]
  BY <1>1, ConstantAssumption DEF cell, MeshInv, TypeOK, MeshTypeOK
<1>5. NodeOf(p.id)' = cell
  BY <1>1, <1>3, <1>4 DEF NodeOf
<1>6. \A i : Registered(i)' <=> Registered(i) \/ i = p.id
  BY <1>1, <1>3, <1>4 DEF Registered
<1>7. ASSUME NEW i, Registered(i) PROVE NodeOf(i)' = NodeOf(i)
  <2>1. i \in Id /\ i # p.id /\ id2PtrMap[i] \in Live /\ id2PtrMap[i] # a
    BY <1>1, <1>2, <1>7 DEF Live, Registered
  <2> QED BY <1>1, <1>4, <2>1 DEF NodeOf
<1> QED BY <1>2, <1>3, <1>5, <1>6, <1>7

LEMMA Removals ==
    ASSUME MeshInv, NEW i \in Id, RemoveNode(i)
    PROVE  /\ Registered(i) /\ NodeOf(i).available >= NodeOf(i).total
           /\ \A j : Registered(j)' <=> Registered(j) /\ j # i
           /\ \A j : Registered(j)' => NodeOf(j)' = NodeOf(j)
<1>1. /\ heap' = [heap EXCEPT ![id2PtrMap[i]] = Freed(NodeOf(i))]
      /\ id2PtrMap' = [id2PtrMap EXCEPT ![i] = NoAddr]
      /\ Registered(i) /\ NodeOf(i).available >= NodeOf(i).total
      /\ heap \in [Addr -> Cell \cup {Blank}]
      /\ id2PtrMap \in [Id -> Addr \cup {NoAddr}]
  BY DEF RemoveNode, MeshInv, TypeOK, MeshTypeOK
<1>2. \A j : Registered(j)' <=> Registered(j) /\ j # i
  BY <1>1 DEF Registered
<1>3. ASSUME NEW j, Registered(j)' PROVE NodeOf(j)' = NodeOf(j)
  <2>1. j \in Id /\ j # i /\ Registered(j)
    BY <1>2, <1>3 DEF Registered
  <2>2. id2PtrMap[j] # id2PtrMap[i]
    BY <2>1, OwnedOnce DEF MeshInv
  <2> QED BY <1>1, <2>1, <2>2 DEF NodeOf
<1> QED BY <1>1, <1>2, <1>3

LEMMA Credits ==
    ASSUME MeshInv, NEW k \in DOMAIN tokens, NEW cleared \in BOOLEAN,
           RemoveUser(k, cleared)
    PROVE  /\ tokens[k] \in Token
           /\ \A i : Registered(i)' <=> Registered(i)
           /\ \A i : Registered(i) =>
                 NodeOf(i)' = IF i \in ToSet(tokens[k].path)
                              THEN UpdateNode(NodeOf(i), tokens[k].bandwidth)
                              ELSE NodeOf(i)
<1> DEFINE t == tokens[k]
           hit(a) == \E i \in ToSet(t.path) : Registered(i) /\ id2PtrMap[i] = a
<1>1. /\ heap' = [a \in Addr |-> IF hit(a) THEN UpdateNode(heap[a], t.bandwidth)
                                          ELSE heap[a]]
      /\ id2PtrMap' = id2PtrMap /\ t \in Token
  BY DEF RemoveUser, Credited, MeshInv, TypeOK, TokenTypeOK
<1> HIDE DEF t
<1>2. ASSUME NEW i, Registered(i)
      PROVE  NodeOf(i)' = IF i \in ToSet(t.path)
                          THEN UpdateNode(NodeOf(i), t.bandwidth) ELSE NodeOf(i)
  <2>1. i \in Id /\ id2PtrMap[i] \in Addr
    BY <1>2 DEF Registered, MeshInv, TypeOK, MeshTypeOK
  <2>2. hit(id2PtrMap[i]) <=> i \in ToSet(t.path)
    <3>1. ASSUME NEW j \in ToSet(t.path), Registered(j), id2PtrMap[j] = id2PtrMap[i]
          PROVE  j = i
      BY <1>2, <2>1, <3>1, OwnedOnce DEF MeshInv, Registered
    <3> QED BY <1>2, <3>1
  <2> HIDE DEF hit
  <2> QED BY <1>1, <2>1, <2>2 DEF NodeOf
<1>3. \A i : Registered(i)' <=> Registered(i)
  BY <1>1 DEF Registered
<1> QED BY <1>1, <1>2, <1>3 DEF t

-----------------------------------------------------------------------------
(* The books. *)

\* A token is for a simple path and what a User message asked for.
SoundToken(t) == t.path # <<>> /\ IsInjective(t.path) /\ t.bandwidth \in Asked
TokensSound == \A k \in DOMAIN tokens : SoundToken(tokens[k])

\* Latencies are what the Orchestrator registered.
LatencySound == \A i : Registered(i) => NodeOf(i).latency >= 0

\* The nodes of a token that the Engine keeps are in the mesh.
Named ==
    ~tainted => \A k \in DOMAIN tokens :
        Kept(tokens[k]) => \A i \in ToSet(tokens[k].path) : Registered(i)

\* BooksBalance, with the walk in progress taken back.
Balance ==
    ~tainted => \A i : Registered(i) =>
        Before(i).available + Cardinality(Units(tokens, i)) = NodeOf(i).total

Books == TokensSound /\ LatencySound /\ Named /\ Balance

\* The inductive invariant.
EngineInv == MeshInv /\ WaySound /\ Forest /\ Books

LEMMA BooksKeepSane ==
    ASSUME MeshInv, WaySound, Books
    PROVE  MeshSane
<1>1. SUFFICES ASSUME ~tainted, phase = "search", NEW i, Registered(i)
               PROVE  Sane(NodeOf(i))
  BY DEF MeshSane, LiveSane
<1>2. NodeOf(i).available + Cardinality(Units(tokens, i)) = NodeOf(i).total
  BY <1>1, NoDebitYet DEF Books, Balance
<1>3. Cardinality(Units(tokens, i)) \in Nat
  BY UnitsAreFinite DEF MeshInv, TypeOK, TokenTypeOK
<1>4. NodeOf(i).available \in Nat /\ NodeOf(i).total \in Nat
  BY <1>1, NeighboursAreCells DEF Cell
<1> QED BY <1>1, <1>2, <1>3, <1>4 DEF Sane, Books, LatencySound

LEMMA NothingHeld == \A i : ToSet(<<>>) = {} /\ i \notin ToSet(<<>>)
BY DEF ToSet

\* The steps that neither move bandwidth nor touch a token.
Quiet ==
    /\ UNCHANGED <<mesh, tokens>>
    /\ tainted => tainted'
    /\ \A i : Before(i)' = Before(i)

LEMMA QuietSteps ==
    ASSUME MeshInv, WaySound,
           \/ \E r \in Request : StartSearch(r)
           \/ SkipMissing \/ FoundGateway \/ HopLimitReached \/ Relax \/ NoRoute
           \/ UNCHANGED vars
    PROVE  Quiet
<1>1. CASE \E r \in Request : StartSearch(r)
  <2>1. route = <<>> /\ UNCHANGED <<mesh, route, tokens, tainted>>
    BY <1>1 DEF StartSearch, WaySound, WalkSound
  <2> QED BY <2>1, NothingHeld DEF Quiet, Before, NodeOf, mesh
<1>2. CASE NoRoute
  <2>1. route = <<>> /\ route' = <<>> /\ UNCHANGED <<mesh, tokens, tainted>>
    BY <1>2 DEF NoRoute, Return, WaySound, WalkSound
  <2> QED BY <2>1, NothingHeld DEF Quiet, Before, NodeOf, mesh
<1>3. CASE SkipMissing \/ FoundGateway \/ HopLimitReached \/ UNCHANGED vars
  <2>1. UNCHANGED <<mesh, route, request, tokens, tainted>>
    BY <1>3 DEF SkipMissing, FoundGateway, HopLimitReached, vars, search, mesh
  <2> QED BY <2>1 DEF Quiet, Before, NodeOf, mesh
<1>4. CASE Relax
  <2>1. UNCHANGED <<mesh, route, request, tokens>> /\ (tainted => tainted')
    BY <1>4 DEF Relax
  <2> QED BY <2>1 DEF Quiet, Before, NodeOf, mesh
<1> QED BY <1>1, <1>2, <1>3, <1>4

LEMMA SoundTokensStay ==
    ASSUME NEW t \in Token
    PROVE  /\ SoundToken(t) => SoundToken(Outdate(t)) /\ SoundToken(Returned(t))
           /\ ~Kept(Outdate(t)) /\ ~Kept(Returned(t))
<1>1. Outdate(t).path = t.path /\ Outdate(t).bandwidth = t.bandwidth
      /\ ~Outdate(t).current
  BY DEF Outdate, Token
<1>2. Returned(t).path = t.path /\ Returned(t).bandwidth = t.bandwidth
      /\ Returned(t).returned
  BY DEF Returned, Token
<1> QED BY <1>1, <1>2 DEF SoundToken, Kept

\* The tokens a release leaves: the others, and perhaps this one, spent.
LEMMA ReleasedTokens ==
    ASSUME MeshInv, NEW k \in DOMAIN tokens, NEW cleared \in BOOLEAN,
           RemoveUser(k, cleared)
    PROVE  /\ \A m \in DOMAIN tokens' :
                 \/ \E j \in DOMAIN tokens : tokens'[m] = tokens[j]
                 \/ tokens'[m] = Returned(tokens[k])
           /\ \A i : Cardinality(Units(tokens', i))
                        = Cardinality(Units(tokens, i)) - Stake(tokens[k], i)
           /\ \A q, b : Cardinality(Granted(tokens', q, b))
                          = Cardinality(Granted(tokens, q, b))
                            - IF StandsFor(tokens[k], q, b) THEN 1 ELSE 0
<1>1. tokens \in Seq(Token)
  BY DEF MeshInv, TypeOK, TokenTypeOK
<1>2. CASE tokens' = RemoveAt(tokens, k)
  <2>1. \A m \in DOMAIN RemoveAt(tokens, k) :
           \E j \in DOMAIN tokens : RemoveAt(tokens, k)[m] = tokens[j]
    BY <1>1, MovedEntries
  <2> QED BY <1>1, <1>2, <2>1, UnitsOfRemoveAt, GrantedOfRemoveAt
<1>3. CASE tokens' = [tokens EXCEPT ![k] = Returned(tokens[k])]
  <2>1. \A m \in DOMAIN tokens' :
           \/ \E j \in DOMAIN tokens : tokens'[m] = tokens[j]
           \/ tokens'[m] = Returned(tokens[k])
    BY <1>1, <1>3
  <2>2. ASSUME NEW i
        PROVE  Cardinality(Units(tokens', i))
                 = Cardinality(Units(tokens, i)) - Stake(tokens[k], i)
    BY <1>1, <1>3, UnitsOfReturned
  <2>3. ASSUME NEW q, NEW b
        PROVE  Cardinality(Granted(tokens', q, b))
                 = Cardinality(Granted(tokens, q, b))
                   - IF StandsFor(tokens[k], q, b) THEN 1 ELSE 0
    <3>1. Cardinality(Granted([tokens EXCEPT ![k] = Returned(tokens[k])], q, b))
            = Cardinality(Granted(tokens, q, b))
              - IF StandsFor(tokens[k], q, b) THEN 1 ELSE 0
      BY <1>1, GrantedOfReturned
    <3> QED BY <1>3, <3>1
  <2> QED BY <2>1, <2>2, <2>3
<1> QED BY <1>2, <1>3 DEF RemoveUser

\* The token a grant adds.
Issued == [bandwidth |-> request.bandwidth, path |-> route,
           current |-> TRUE, returned |-> FALSE]

LEMMA IssuedToken ==
    ASSUME MeshInv, WaySound, GrantRoute
    PROVE  /\ Issued \in Token /\ SoundToken(Issued) /\ Kept(Issued)
           /\ Issued.path = route /\ Issued.bandwidth = request.bandwidth
           /\ request.bandwidth \in Nat \ {0}
           /\ tokens' = Append(tokens, Issued) /\ tokens \in Seq(Token)
           /\ \A i \in ToSet(route) : Registered(i)
           /\ UNCHANGED <<mesh, tainted>> /\ route' = <<>>
<1>1. /\ phase = "reserve" /\ cursor = NoParent /\ request \in Request
      /\ request.bandwidth > 0 /\ route \in Seq(Id) /\ tokens \in Seq(Token)
      /\ Walked(route, NoParent)
  BY DEF GrantRoute, MeshInv, TypeOK, SearchTypeOK, TokenTypeOK, WaySound, WalkSound
<1>2. request.bandwidth \in Nat \ {0} /\ request.bandwidth \in Asked
  BY <1>1, ConstantAssumption DEF Asked
<1>3. Issued \in Token
  BY <1>1, <1>2 DEF Issued, Token
<1>4. /\ Issued.path = route /\ Issued.bandwidth = request.bandwidth
      /\ Kept(Issued)
  BY DEF Issued, Kept
<1>5. SoundToken(Issued)
  BY <1>1, <1>2, <1>4, WalkIsInjective DEF SoundToken, Walked
<1>6. \A i \in ToSet(route) : Registered(i)
  BY <1>1 DEF Walked, ToSet
<1> QED BY <1>1, <1>2, <1>3, <1>4, <1>5, <1>6 DEF GrantRoute, Issued, Return

LEMMA NextKeepsTokens ==
    ASSUME MeshInv, WaySound, TokensSound, [Next]_vars
    PROVE  TokensSound'
<1>1. tokens \in Seq(Token) /\ \A k \in DOMAIN tokens : tokens[k] \in Token
  BY DEF MeshInv, TypeOK, TokenTypeOK
<1>2. CASE tokens' = tokens
  BY <1>2 DEF TokensSound
<1>3. CASE tokens' = Outdated
  <2>1. \A k \in DOMAIN tokens : SoundToken(Outdate(tokens[k]))
    BY <1>1, SoundTokensStay DEF TokensSound
  <2> QED BY <1>3, <2>1 DEF TokensSound, Outdated
<1>4. CASE \E k \in DOMAIN tokens, cleared \in BOOLEAN : RemoveUser(k, cleared)
  <2>1. PICK k \in DOMAIN tokens, cleared \in BOOLEAN : RemoveUser(k, cleared)
    BY <1>4
  <2>2. \A m \in DOMAIN tokens' :
           \/ \E j \in DOMAIN tokens : tokens'[m] = tokens[j]
           \/ tokens'[m] = Returned(tokens[k])
    BY <2>1, ReleasedTokens
  <2>3. SoundToken(Returned(tokens[k]))
    BY <1>1, SoundTokensStay DEF TokensSound
  <2> QED BY <2>2, <2>3 DEF TokensSound
<1>5. CASE GrantRoute
  <2>1. /\ tokens' = Append(tokens, Issued) /\ SoundToken(Issued)
        /\ Issued \in Token
    BY <1>5, IssuedToken
  <2>2. \A m \in DOMAIN tokens' :
           \/ \E j \in DOMAIN tokens : tokens'[m] = tokens[j]
           \/ tokens'[m] = Issued
    BY <1>1, <2>1
  <2> QED BY <2>1, <2>2 DEF TokensSound
<1>6. CASE \/ \E b \in Batch : InitialReboot(b)
           \/ Restart
  BY <1>3, <1>6 DEF InitialReboot, Restart
<1>7. CASE \/ \E p \in Joining : AddNode(p)
           \/ \E i \in Id : RemoveNode(i)
           \/ ReserveNode \/ ReserveFails
  BY <1>2, <1>7 DEF AddNode, RemoveNode, ReserveNode, ReserveFails
<1>8. CASE \/ \E r \in Request : StartSearch(r)
           \/ SkipMissing \/ FoundGateway \/ HopLimitReached \/ Relax \/ NoRoute
           \/ UNCHANGED vars
  <2>1. Quiet
    BY <1>8, QuietSteps
  <2>2. tokens' = tokens
    BY <2>1 DEF Quiet
  <2> QED BY <1>2, <2>2
<1> QED BY <1>4, <1>5, <1>6, <1>7, <1>8 DEF Next, SearchStep

LEMMA NextKeepsLatency ==
    ASSUME MeshInv, WaySound, LatencySound, [Next]_vars
    PROVE  LatencySound'
<1>1. CASE UNCHANGED mesh
  BY <1>1 DEF LatencySound, Registered, NodeOf, mesh
<1>2. CASE \E b \in Batch : InitialReboot(b)
  BY <1>2, Reboots DEF LatencySound, Fresh
<1>3. CASE \E p \in Joining : AddNode(p)
  BY <1>3, Additions DEF LatencySound, Fresh
<1>4. CASE \E i \in Id : RemoveNode(i)
  BY <1>4, Removals DEF LatencySound
<1>5. CASE \E k \in DOMAIN tokens, cleared \in BOOLEAN : RemoveUser(k, cleared)
  <2>1. PICK k \in DOMAIN tokens, cleared \in BOOLEAN : RemoveUser(k, cleared)
    BY <1>5
  <2>2. tokens[k] \in Token /\ tokens[k].bandwidth \in Int
    BY <2>1, Credits DEF Token
  <2>3. \A i : Registered(i) => NodeOf(i) \in Cell
    BY NeighboursAreCells
  <2>4. \A i : Registered(i) =>
           UpdateNode(NodeOf(i), tokens[k].bandwidth).latency = NodeOf(i).latency
    BY <2>2, <2>3, UpdatedFields
  <2> QED BY <2>1, <2>4, Credits DEF LatencySound
<1>6. CASE ReserveNode
  <2>1. request.bandwidth \in Nat /\ -request.bandwidth \in Int
    BY <1>6, Debits
  <2>2. \A i : Registered(i) =>
           UpdateNode(NodeOf(i), -request.bandwidth).latency = NodeOf(i).latency
    BY <2>1, NeighboursAreCells, UpdatedFields
  <2> QED BY <1>6, <2>2, Debits DEF LatencySound
<1>7. CASE Restart
  BY <1>7 DEF Restart, LatencySound, Registered
<1>8. CASE ReserveFails \/ GrantRoute
  BY <1>1, <1>8 DEF ReserveFails, GrantRoute
<1>9. CASE \/ \E r \in Request : StartSearch(r)
           \/ SkipMissing \/ FoundGateway \/ HopLimitReached \/ Relax \/ NoRoute
           \/ UNCHANGED vars
  <2>1. Quiet
    BY <1>9, QuietSteps
  <2>2. UNCHANGED mesh
    BY <2>1 DEF Quiet
  <2> QED BY <1>1, <2>2
<1> QED BY <1>2, <1>3, <1>4, <1>5, <1>6, <1>7, <1>8, <1>9 DEF Next, SearchStep

-----------------------------------------------------------------------------
(* What each step does to the books. *)

\* A node that a kept token names counts some unit as held, and the other way.
LEMMA NamedAreHeld ==
    ASSUME MeshInv, NEW i
    PROVE  Cardinality(Units(tokens, i)) = 0 <=>
               \A k \in DOMAIN tokens :
                   Kept(tokens[k]) => i \notin ToSet(tokens[k].path)
<1>1. tokens \in Seq(Token)
  BY DEF MeshInv, TypeOK, TokenTypeOK
<1>2. IsFiniteSet(Units(tokens, i))
  BY <1>1, UnitsAreFinite
<1>3. Cardinality(Units(tokens, i)) = 0 <=> Units(tokens, i) = {}
  BY <1>2, FS_EmptySet
<1>4. ASSUME NEW k \in DOMAIN tokens, Kept(tokens[k]), i \in ToSet(tokens[k].path)
      PROVE  <<k, 1>> \in Units(tokens, i)
  <2>1. 1 \in 1 .. tokens[k].bandwidth
    BY <1>1, UnitsElements
  <2>2. <<k, 1>> \in {k} \X (1 .. tokens[k].bandwidth)
    BY <2>1
  <2> QED BY <1>1, <1>4, <2>2, UnitsElements
<1>5. ASSUME NEW x \in Units(tokens, i)
      PROVE  \E k \in DOMAIN tokens : Kept(tokens[k]) /\ i \in ToSet(tokens[k].path)
  BY <1>1, UnitsElements
<1> QED BY <1>3, <1>4, <1>5

LEMMA RebootBooks ==
    ASSUME MeshInv, WaySound, (\E b \in Batch : InitialReboot(b)) \/ Restart
    PROVE  Named' /\ Balance'
<1>1. tokens' = Outdated /\ route' = <<>>
  BY DEF InitialReboot, Restart, Return, search, WaySound, WalkSound
<1>2. tokens \in Seq(Token)
  BY DEF MeshInv, TypeOK, TokenTypeOK
<1>3. /\ \A k \in DOMAIN tokens' : ~Kept(tokens'[k])
      /\ \A i : Cardinality(Units(tokens', i)) = 0
  BY <1>1, <1>2, OutdatedCount, FS_EmptySet
<1>4. \A i : Registered(i)' => Fresh(NodeOf(i)')
  <2>1. CASE \E b \in Batch : InitialReboot(b)
    BY <2>1, Reboots
  <2>2. CASE Restart
    BY <2>2 DEF Restart, Registered
  <2> QED BY <2>1, <2>2
<1>5. \A i : Before(i)' = NodeOf(i)'
  BY <1>1, NothingHeld DEF Before
<1>6. Named'
  BY <1>3 DEF Named
<1>7. Balance'
  BY <1>3, <1>4, <1>5 DEF Balance, Fresh
<1> QED BY <1>6, <1>7

LEMMA AddNodeBooks ==
    ASSUME MeshInv, WaySound, Books, NEW p \in Joining, AddNode(p)
    PROVE  Named' /\ Balance'
<1>1. /\ route = <<>> /\ route' = <<>> /\ tokens' = tokens /\ tainted' = tainted
  BY DEF AddNode, search, WaySound, WalkSound
<1>2. \A i : Before(i) = NodeOf(i) /\ Before(i)' = NodeOf(i)'
  BY <1>1, NothingHeld DEF Before
<1>3. Named'
  BY <1>1, Additions DEF Books, Named
<1>4. ASSUME ~tainted, NEW i, Registered(i)'
      PROVE  NodeOf(i)'.available + Cardinality(Units(tokens, i)) = NodeOf(i)'.total
  <2>1. CASE Registered(i)
    BY <1>2, <1>4, <2>1, Additions DEF Books, Balance
  <2>2. CASE ~Registered(i)
    <3>1. i = p.id /\ Fresh(NodeOf(i)')
      BY <1>4, <2>2, Additions
    <3>2. Cardinality(Units(tokens, i)) = 0
      BY <1>4, <2>2, NamedAreHeld DEF Books, Named
    <3> QED BY <3>1, <3>2 DEF Fresh
  <2> QED BY <2>1, <2>2
<1>5. Balance'
  BY <1>1, <1>2, <1>4 DEF Balance
<1> QED BY <1>3, <1>5

\* A node leaves with nothing of it held, although the Engine only compares
\* what is available with what there is.
LEMMA LeavesUnused ==
    ASSUME MeshInv, WaySound, Books, NEW i \in Id, RemoveNode(i), ~tainted
    PROVE  Cardinality(Units(tokens, i)) = 0 /\ NodeOf(i).available = NodeOf(i).total
<1>1. route = <<>> /\ Before(i) = NodeOf(i)
  BY NothingHeld DEF RemoveNode, WaySound, WalkSound, Before
<1>2. Registered(i) /\ NodeOf(i).available >= NodeOf(i).total
  BY Removals
<1>3. NodeOf(i).available + Cardinality(Units(tokens, i)) = NodeOf(i).total
  BY <1>1, <1>2 DEF Books, Balance
<1>4. NodeOf(i).available \in Nat /\ NodeOf(i).total \in Nat
  BY <1>2, NeighboursAreCells DEF Cell
<1>5. Cardinality(Units(tokens, i)) \in Nat
  BY UnitsAreFinite DEF MeshInv, TypeOK, TokenTypeOK
<1> QED BY <1>2, <1>3, <1>4, <1>5

LEMMA RemoveNodeBooks ==
    ASSUME MeshInv, WaySound, Books, NEW i \in Id, RemoveNode(i)
    PROVE  Named' /\ Balance'
<1>1. route = <<>> /\ route' = <<>> /\ tokens' = tokens /\ tainted' = tainted
  BY DEF RemoveNode, search, WaySound, WalkSound
<1>2. \A j : Before(j) = NodeOf(j) /\ Before(j)' = NodeOf(j)'
  BY <1>1, NothingHeld DEF Before
<1>3. ~tainted => \A k \in DOMAIN tokens :
                     Kept(tokens[k]) => i \notin ToSet(tokens[k].path)
  BY LeavesUnused, NamedAreHeld
<1>4. Named'
  BY <1>1, <1>3, Removals DEF Books, Named
<1>5. Balance'
  BY <1>1, <1>2, Removals DEF Books, Balance
<1> QED BY <1>4, <1>5

\* A release that breaks no rule is of a token the Engine keeps.
LEMMA ReleasesKept ==
    ASSUME MeshInv, WaySound, NEW k \in DOMAIN tokens, NEW cleared \in BOOLEAN,
           RemoveUser(k, cleared), ~tainted'
    PROVE  /\ ~tainted /\ Kept(tokens[k]) /\ route = <<>> /\ route' = <<>>
           /\ \A i : Before(i) = NodeOf(i) /\ Before(i)' = NodeOf(i)'
<1>1. ~tainted /\ Kept(tokens[k])
  BY DEF RemoveUser, Kept
<1>2. route = <<>> /\ route' = <<>>
  BY DEF RemoveUser, search, WaySound, WalkSound
<1> QED BY <1>1, <1>2, NothingHeld DEF Before

LEMMA RemoveUserBooks ==
    ASSUME MeshInv, WaySound, Books, NEW k \in DOMAIN tokens,
           NEW cleared \in BOOLEAN, RemoveUser(k, cleared)
    PROVE  Named' /\ Balance'
<1>1. SUFFICES ASSUME ~tainted' PROVE Named' /\ Balance'
  BY DEF Named, Balance
<1>2. /\ ~tainted /\ Kept(tokens[k])
      /\ \A i : Before(i) = NodeOf(i) /\ Before(i)' = NodeOf(i)'
  BY <1>1, ReleasesKept
<1>3. tokens[k] \in Token
  BY Credits
<1>4. Named'
  <2>1. \A m \in DOMAIN tokens' : Kept(tokens'[m]) =>
           \E j \in DOMAIN tokens : tokens'[m] = tokens[j]
    BY <1>3, ReleasedTokens, SoundTokensStay
  <2>2. \A i : Registered(i)' <=> Registered(i)
    BY Credits
  <2> QED BY <1>2, <2>1, <2>2 DEF Books, Named
<1>5. ASSUME NEW i, Registered(i)'
      PROVE  Before(i)'.available + Cardinality(Units(tokens', i)) = NodeOf(i)'.total
  <2> DEFINE b == tokens[k].bandwidth
  <2>1. Registered(i) /\ NodeOf(i) \in Cell /\ b \in Int
    BY <1>3, <1>5, Credits, NeighboursAreCells DEF Token
  <2>2. NodeOf(i).available + Cardinality(Units(tokens, i)) = NodeOf(i).total
    BY <1>2, <2>1 DEF Books, Balance
  <2>3. Cardinality(Units(tokens', i))
          = Cardinality(Units(tokens, i)) - Stake(tokens[k], i)
    BY ReleasedTokens
  <2>4. /\ Cardinality(Units(tokens, i)) \in Nat
        /\ NodeOf(i).available \in Int /\ NodeOf(i).total \in Int
    BY <2>1, UnitsAreFinite DEF MeshInv, TypeOK, TokenTypeOK, Cell
  <2>5. /\ UpdateNode(NodeOf(i), b).available = NodeOf(i).available + b
        /\ UpdateNode(NodeOf(i), b).total = NodeOf(i).total
    BY <2>1, UpdatedFields
  <2>6. NodeOf(i)' = IF i \in ToSet(tokens[k].path) THEN UpdateNode(NodeOf(i), b)
                                                   ELSE NodeOf(i)
    BY <2>1, Credits
  <2>7. CASE i \in ToSet(tokens[k].path)
    <3>1. Stake(tokens[k], i) = b
      BY <1>2, <2>7 DEF Stake
    <3>2. /\ NodeOf(i)'.available = NodeOf(i).available + b
          /\ NodeOf(i)'.total = NodeOf(i).total
      BY <2>5, <2>6, <2>7
    <3> HIDE DEF b
    <3> QED BY <1>2, <2>1, <2>2, <2>3, <2>4, <3>1, <3>2
  <2>8. CASE i \notin ToSet(tokens[k].path)
    <3>1. Stake(tokens[k], i) = 0 /\ NodeOf(i)' = NodeOf(i)
      BY <2>6, <2>8 DEF Stake
    <3> QED BY <1>2, <2>2, <2>3, <2>4, <3>1
  <2> QED BY <2>7, <2>8
<1>6. Balance'
  BY <1>5 DEF Balance
<1> QED BY <1>4, <1>6

LEMMA ReserveNodeBooks ==
    ASSUME MeshInv, WaySound, Forest, Books, ReserveNode
    PROVE  Named' /\ Balance'
<1>1. SUFFICES ASSUME ~tainted' PROVE Named' /\ Balance'
  BY DEF Named, Balance
<1>2. ~tainted /\ tokens' = tokens
  BY <1>1 DEF ReserveNode
<1>3. \A i : Registered(i)' <=> Registered(i)
  BY Debits
<1>4. \A i : Registered(i) =>
         Before(i)' = Before(i) /\ NodeOf(i)'.total = NodeOf(i).total
  BY <1>2, BeforeKept, Debits
<1>5. Named'
  BY <1>2, <1>3 DEF Books, Named
<1>6. Balance'
  BY <1>2, <1>3, <1>4 DEF Books, Balance
<1> QED BY <1>5, <1>6

\* As long as the books are in order, the walk does not throw.
LEMMA WalkNeverFails ==
    ASSUME MeshInv, WaySound, Forest, ReserveFails
    PROVE  tainted /\ tainted'
<1>1. ReservationSucceeds
  BY ForestReserves
<1> QED BY <1>1 DEF ReservationSucceeds, ReserveFails

LEMMA GrantRouteBooks ==
    ASSUME MeshInv, WaySound, Books, GrantRoute
    PROVE  Named' /\ Balance'
<1>1. SUFFICES ASSUME ~tainted' PROVE Named' /\ Balance'
  BY DEF Named, Balance
<1>2. /\ ~tainted /\ route' = <<>> /\ tokens' = Append(tokens, Issued)
      /\ tokens \in Seq(Token) /\ Issued \in Token /\ Kept(Issued)
      /\ Issued.path = route /\ Issued.bandwidth = request.bandwidth
      /\ request.bandwidth \in Nat /\ \A i \in ToSet(route) : Registered(i)
  BY <1>1, IssuedToken
<1>3. \A i : (Registered(i)' <=> Registered(i)) /\ NodeOf(i)' = NodeOf(i)
  BY IssuedToken DEF mesh, Registered, NodeOf
<1>4. Named'
  <2>1. \A m \in DOMAIN tokens' : tokens'[m] = Issued \/
           \E j \in DOMAIN tokens : tokens'[m] = tokens[j]
    BY <1>2
  <2> QED BY <1>2, <1>3, <2>1 DEF Books, Named
<1>5. \A i : Before(i)' = NodeOf(i)
  BY <1>2, <1>3, NothingHeld DEF Before
<1>6. ASSUME NEW i, Registered(i)
      PROVE  NodeOf(i).available + Cardinality(Units(tokens', i)) = NodeOf(i).total
  <2>1. /\ Cardinality(Units(tokens', i))
             = Cardinality(Units(tokens, i)) + Stake(Issued, i)
        /\ Cardinality(Units(tokens, i)) \in Nat
    BY <1>2, UnitsOfAppend, UnitsAreFinite
  <2>2. Before(i).available + Cardinality(Units(tokens, i)) = NodeOf(i).total
    BY <1>2, <1>6 DEF Books, Balance
  <2>3. NodeOf(i) \in Cell /\ NodeOf(i).available \in Int /\ NodeOf(i).total \in Int
    BY <1>6, NeighboursAreCells DEF Cell
  <2>4. CASE i \in ToSet(route)
    <3>1. Stake(Issued, i) = request.bandwidth
      BY <1>2, <2>4 DEF Stake
    <3>2. Before(i).available = NodeOf(i).available + request.bandwidth
      <4>1. UpdateNode(NodeOf(i), request.bandwidth).available
              = NodeOf(i).available + request.bandwidth
        <5>1. request.bandwidth \in Int /\ NodeOf(i) \in Cell
          BY <1>2, <2>3
        <5> QED BY <5>1, UpdatedFields
      <4> QED BY <2>4, <4>1 DEF Before
    <3> QED BY <1>2, <2>1, <2>2, <2>3, <3>1, <3>2
  <2>5. CASE i \notin ToSet(route)
    <3>1. Stake(Issued, i) = 0 /\ Before(i) = NodeOf(i)
      BY <1>2, <2>5 DEF Stake, Before
    <3> QED BY <2>1, <2>2, <2>3, <3>1
  <2> QED BY <2>4, <2>5
<1>7. Balance'
  BY <1>3, <1>5, <1>6 DEF Balance
<1> QED BY <1>4, <1>7

LEMMA QuietBooks ==
    ASSUME Books, Quiet
    PROVE  Named' /\ Balance'
<1>1. /\ \A i : (Registered(i)' <=> Registered(i)) /\ NodeOf(i)' = NodeOf(i)
      /\ \A i : Before(i)' = Before(i)
      /\ tokens' = tokens /\ (tainted => tainted')
  BY DEF Quiet, mesh, Registered, NodeOf
<1> QED BY <1>1 DEF Books, Named, Balance

LEMMA NextKeepsBooks ==
    ASSUME EngineInv, [Next]_vars
    PROVE  Books'
<1> USE DEF EngineInv
<1>1. TokensSound' /\ LatencySound'
  BY NextKeepsTokens, NextKeepsLatency DEF Books
<1>2. CASE (\E b \in Batch : InitialReboot(b)) \/ Restart
  BY <1>1, <1>2, RebootBooks DEF Books
<1>3. CASE \E p \in Joining : AddNode(p)
  BY <1>1, <1>3, AddNodeBooks DEF Books
<1>4. CASE \E i \in Id : RemoveNode(i)
  BY <1>1, <1>4, RemoveNodeBooks DEF Books
<1>5. CASE \E k \in DOMAIN tokens, cleared \in BOOLEAN : RemoveUser(k, cleared)
  BY <1>1, <1>5, RemoveUserBooks DEF Books
<1>6. CASE ReserveNode
  BY <1>1, <1>6, ReserveNodeBooks DEF Books
<1>7. CASE ReserveFails
  <2>1. Named' /\ Balance'
    BY <1>7, WalkNeverFails DEF Named, Balance
  <2> QED BY <1>1, <2>1 DEF Books
<1>8. CASE GrantRoute
  BY <1>1, <1>8, GrantRouteBooks DEF Books
<1>9. CASE \/ \E r \in Request : StartSearch(r)
           \/ SkipMissing \/ FoundGateway \/ HopLimitReached \/ Relax \/ NoRoute
           \/ UNCHANGED vars
  <2>1. Quiet
    BY <1>9, QuietSteps
  <2> QED BY <1>1, <2>1, QuietBooks DEF Books
<1> QED BY <1>2, <1>3, <1>4, <1>5, <1>6, <1>7, <1>8, <1>9 DEF Next, SearchStep

LEMMA InitEngine == Init => EngineInv
<1>1. SUFFICES ASSUME Init PROVE Books
  BY InitEstablishesInv, InitWaySound, InitForest DEF EngineInv
<1>2. tokens = <<>> /\ \A i : ~Registered(i)
  BY <1>1 DEF Init, Registered
<1> QED BY <1>2 DEF Books, TokensSound, LatencySound, Named, Balance

LEMMA NextKeepsEngine == EngineInv /\ [Next]_vars => EngineInv'
<1>1. SUFFICES ASSUME EngineInv, [Next]_vars PROVE EngineInv'
  OBVIOUS
<1>2. MeshSane
  BY <1>1, BooksKeepSane DEF EngineInv
<1>3. MeshInv' /\ WaySound' /\ Forest'
  BY <1>1, <1>2, NextKeepsInv, NextKeepsWay, NextKeepsForest DEF EngineInv
<1> QED BY <1>1, <1>3, NextKeepsBooks DEF EngineInv

\* The search, the reservation and the tokens agree in every reachable state.
THEOREM EngineInvariantHolds == Spec => []EngineInv
<1> QED BY InitEngine, NextKeepsEngine, PTL DEF Spec

LEMMA BalanceIsTheBooks ==
    ASSUME MeshInv, WaySound, Balance
    PROVE  BooksBalance
<1>1. SUFFICES ASSUME ~tainted, NEW i \in Id, Registered(i)
               PROVE  NodeOf(i).available + Held(i) = NodeOf(i).total
  BY DEF BooksBalance
<1> DEFINE n == Cardinality(Units(tokens, i))
<1>2. Before(i).available + n = NodeOf(i).total
  BY <1>1 DEF Balance
<1>3. NodeOf(i) \in Cell /\ NodeOf(i).available \in Int
  BY <1>1, NeighboursAreCells DEF Cell
<1>4. n \in Nat
  BY UnitsAreFinite DEF MeshInv, TypeOK, TokenTypeOK
<1>5. Held(i) = n + IF i \in ToSet(route) THEN request.bandwidth ELSE 0
  BY DEF Held
<1>6. CASE i \in ToSet(route)
  <2>1. request.bandwidth \in Int
    <3>1. route # <<>>
      BY <1>6, NothingHeld
    <3>2. phase = "reserve" /\ request \in Request
      BY <3>1 DEF WaySound, WalkSound, MeshInv, TypeOK, SearchTypeOK
    <3> QED BY <3>2, ConstantAssumption
  <2>2. Before(i).available = NodeOf(i).available + request.bandwidth
    <3>1. UpdateNode(NodeOf(i), request.bandwidth).available
            = NodeOf(i).available + request.bandwidth
      BY <1>3, <2>1, UpdatedFields
    <3> QED BY <1>6, <3>1 DEF Before
  <2> HIDE DEF n
  <2> QED BY <1>2, <1>3, <1>4, <1>5, <1>6, <2>1, <2>2
<1>7. CASE i \notin ToSet(route)
  <2>1. Before(i) = NodeOf(i)
    BY <1>7 DEF Before
  <2> HIDE DEF n
  <2> QED BY <1>2, <1>3, <1>4, <1>5, <1>7, <2>1
<1> QED BY <1>6, <1>7

\* Whatever searches, releases, additions, removals and crashes come between:
\* as long as every token is released once, on the mesh it was issued for, what
\* a node has available and what users hold of it add up to what it brought.
THEOREM BooksAlwaysBalance == Spec => []BooksBalance
<1>1. EngineInv => BooksBalance
  BY BalanceIsTheBooks DEF EngineInv, Books
<1> QED BY <1>1, EngineInvariantHolds, PTL

\* The walk in getShortestPath that debits the route never throws half way: no
\* entry of visited is stale in a way that leads it to a node without bandwidth.
THEOREM ReservationAlwaysSucceeds == Spec => []ReservationSucceeds
<1>1. EngineInv => ReservationSucceeds
  BY ForestReserves DEF EngineInv
<1> QED BY <1>1, EngineInvariantHolds, PTL

\* Every path that GetShortestPath returns is simple, starts within 30 m of the
\* user, ends in a gateway and follows links of the mesh, although the parent
\* entries it is read from are overwritten while the search runs.
THEOREM GrantedPathIsAlwaysARoute == Spec => []GrantedPathIsARoute
<1>1. EngineInv => GrantedPathIsARoute
  BY ForestGrants DEF EngineInv
<1> QED BY <1>1, EngineInvariantHolds, PTL

-----------------------------------------------------------------------------
(* The Engine implements MeshService. *)

LEMMA PathsAreSimple == Service!Path = Simple
BY DEF Service!Path, Simple, Service!IsInjective, IsInjective,
       Service!Cardinality, Cardinality

LEMMA InitImplements == Init => Service!Init
<1>1. SUFFICES ASSUME Init PROVE Service!Init
  OBVIOUS
<1>2. tokens = <<>> /\ ~tainted /\ \A i : ~Registered(i)
  BY <1>1 DEF Init, Registered
<1>3. \A q, b : Cardinality(Granted(tokens, q, b)) = 0
  <2>1. \A q, b : Granted(tokens, q, b) = {}
    BY <1>2 DEF Granted
  <2> QED BY <2>1, FS_EmptySet
<1>4. \A i : Total(i) = 0 /\ Free(i) = 0
  BY <1>2 DEF Total, Free
<1>5. tainted = FALSE
  BY <1>1 DEF Init
<1> QED BY <1>3, <1>4, <1>5, PathsAreSimple DEF Service!Init

LEMMA PathIsSimple ==
    ASSUME NEW q \in Seq(Id), q # <<>>, IsInjective(q)
    PROVE  q \in Simple
<1>1. Len(q) \in Nat /\ Len(q) >= 1 /\ q \in [1 .. Len(q) -> Id]
  OBVIOUS
<1>2. q \in Injection(1 .. Len(q), Id)
  BY <1>1 DEF Injection
<1>3. IsFiniteSet(Id)
  BY ConstantAssumption
<1>4. Cardinality(1 .. Len(q)) <= Cardinality(Id)
  BY <1>2, <1>3, FS_Injection
<1>5. Cardinality(1 .. Len(q)) = Len(q)
  BY <1>1, FS_Interval
<1>6. Cardinality(Id) \in Nat
  BY <1>3, FS_CardinalityType
<1>7. Len(q) \in 1 .. Cardinality(Id)
  BY <1>1, <1>4, <1>5, <1>6
<1> QED BY <1>1, <1>7 DEF Simple

LEMMA SimpleIsAPath ==
    ASSUME NEW q \in Simple
    PROVE  q # <<>> /\ ToSet(q) \subseteq Id
<1>1. IsFiniteSet(Id)
  BY ConstantAssumption
<1>2. Cardinality(Id) \in Nat
  BY <1>1, FS_CardinalityType
<1>3. PICK n \in 1 .. Cardinality(Id) : q \in [1 .. n -> Id]
  BY DEF Simple
<1> QED BY <1>2, <1>3 DEF ToSet

LEMMA Views ==
    ASSUME MeshInv, WaySound
    PROVE  \A i : /\ Total(i) \in Nat /\ Free(i) \in Int
                  /\ Registered(i) => Total(i) = NodeOf(i).total /\ Total(i) > 0
                                      /\ Free(i) = Before(i).available
                  /\ ~Registered(i) => Total(i) = 0 /\ Free(i) = 0
<1>1. TAKE i
<1>2. CASE Registered(i)
  <2>1. NodeOf(i) \in Cell /\ NodeOf(i).total \in Nat \ {0} /\ NodeOf(i).available \in Int
    BY <1>2, NeighboursAreCells DEF Cell
  <2>2. Before(i).available \in Int
    <3>1. CASE i \in ToSet(route)
      <4>1. route # <<>>
        BY <3>1, NothingHeld
      <4>2. phase = "reserve" /\ request \in Request
        BY <4>1 DEF WaySound, WalkSound, MeshInv, TypeOK, SearchTypeOK
      <4>3. request.bandwidth \in Int
        BY <4>2, ConstantAssumption
      <4>4. UpdateNode(NodeOf(i), request.bandwidth).available
              = NodeOf(i).available + request.bandwidth
        BY <2>1, <4>3, UpdatedFields
      <4> QED BY <2>1, <3>1, <4>3, <4>4 DEF Before
    <3>2. CASE i \notin ToSet(route)
      BY <2>1, <3>2 DEF Before
    <3> QED BY <3>1, <3>2
  <2> QED BY <1>2, <2>1, <2>2 DEF Total, Free
<1>3. CASE ~Registered(i)
  BY <1>3 DEF Total, Free
<1> QED BY <1>2, <1>3

\* A step that changes nothing in the service's eyes.
LEMMA Unseen ==
    ASSUME tokens' = tokens, tainted' = tainted,
           \A i : Total(i)' = Total(i) /\ Free(i)' = Free(i)
    PROVE  UNCHANGED Service!vars
BY DEF Service!vars

LEMMA ReplaceImplements ==
    ASSUME EngineInv, ~tainted', (\E b \in Batch : InitialReboot(b)) \/ Restart
    PROVE  Service!Replace
<1>1. MeshInv /\ WaySound
  BY DEF EngineInv
<1>2. tokens' = Outdated /\ route' = <<>> /\ tokens \in Seq(Token)
  BY <1>1 DEF InitialReboot, Restart, Return, search, WaySound, WalkSound,
              MeshInv, TypeOK, TokenTypeOK
<1>3. \A q, b : Cardinality(Granted(tokens', q, b)) = 0
  BY <1>2, OutdatedCount, FS_EmptySet
<1>4. \A i : Registered(i)' => Fresh(NodeOf(i)')
  <2>1. CASE \E b \in Batch : InitialReboot(b)
    BY <1>1, <2>1, Reboots
  <2>2. CASE Restart
    BY <2>2 DEF Restart, Registered
  <2> QED BY <2>1, <2>2
<1>5. \A i : Before(i)' = NodeOf(i)'
  BY <1>2, NothingHeld DEF Before
<1>6. \A i : Free(i)' = Total(i)'
  BY <1>4, <1>5 DEF Free, Total, Fresh
<1> QED BY <1>3, <1>6, PathsAreSimple DEF Service!Replace

LEMMA AddNodeImplements ==
    ASSUME EngineInv, NEW p \in Joining, AddNode(p)
    PROVE  p.id \in Id /\ Service!Join(p.id, Total(p.id)')
<1>1. MeshInv /\ WaySound
  BY DEF EngineInv
<1>2. /\ route = <<>> /\ route' = <<>> /\ tokens' = tokens /\ tainted' = tainted
  BY <1>1 DEF AddNode, search, WaySound, WalkSound
<1>3. \A i : Before(i) = NodeOf(i) /\ Before(i)' = NodeOf(i)'
  BY <1>2, NothingHeld DEF Before
<1>4. /\ p.id \in Id /\ ~Registered(p.id) /\ Fresh(NodeOf(p.id)')
      /\ \A i : Registered(i)' <=> Registered(i) \/ i = p.id
      /\ \A i : Registered(i) => NodeOf(i)' = NodeOf(i)
  BY <1>1, Additions
<1>5. /\ Total(p.id) = 0 /\ Total(p.id)' > 0 /\ Free(p.id)' = Total(p.id)'
  BY <1>3, <1>4 DEF Total, Free, Fresh
<1>6. \A i : i # p.id => Total(i)' = Total(i) /\ Free(i)' = Free(i)
  BY <1>3, <1>4 DEF Total, Free
<1> QED BY <1>2, <1>4, <1>5, <1>6 DEF Service!Join, Service!Absent

LEMMA RemoveNodeImplements ==
    ASSUME EngineInv, ~tainted, NEW i \in Id, RemoveNode(i)
    PROVE  Service!Leave(i)
<1>1. MeshInv /\ WaySound /\ Books
  BY DEF EngineInv
<1>2. /\ route = <<>> /\ route' = <<>> /\ tokens' = tokens /\ tainted' = tainted
  BY <1>1 DEF RemoveNode, search, WaySound, WalkSound
<1>3. \A j : Before(j) = NodeOf(j) /\ Before(j)' = NodeOf(j)'
  BY <1>2, NothingHeld DEF Before
<1>4. /\ Registered(i) /\ NodeOf(i).available = NodeOf(i).total
      /\ \A j : Registered(j)' <=> Registered(j) /\ j # i
      /\ \A j : Registered(j)' => NodeOf(j)' = NodeOf(j)
  BY <1>1, Removals, LeavesUnused
<1>5. Total(i) # 0 /\ Free(i) = Total(i) /\ Total(i)' = 0 /\ Free(i)' = 0
  <2>1. NodeOf(i).total # 0
    BY <1>1, <1>4, NeighboursAreCells DEF Cell
  <2> QED BY <1>3, <1>4, <2>1 DEF Total, Free
<1>6. \A j : j # i => Total(j)' = Total(j) /\ Free(j)' = Free(j)
  BY <1>3, <1>4 DEF Total, Free
<1> QED BY <1>2, <1>5, <1>6 DEF Service!Leave, Service!Absent, Service!Unused

LEMMA RemoveUserImplements ==
    ASSUME EngineInv, ~tainted', NEW k \in DOMAIN tokens,
           NEW cleared \in BOOLEAN, RemoveUser(k, cleared)
    PROVE  /\ tokens[k].path \in Service!Path /\ tokens[k].bandwidth \in Asked
           /\ Service!Release(tokens[k].path, tokens[k].bandwidth)
<1>1. MeshInv /\ WaySound /\ Books
  BY DEF EngineInv
<1>2. /\ ~tainted /\ Kept(tokens[k])
      /\ \A i : Before(i) = NodeOf(i) /\ Before(i)' = NodeOf(i)'
  BY <1>1, ReleasesKept
<1>3. tainted' = tainted
  BY <1>1, <1>2 DEF RemoveUser, MeshInv, TypeOK, TokenTypeOK
<1> DEFINE q == tokens[k].path
           b == tokens[k].bandwidth
<1>4. /\ tokens[k] \in Token /\ q \in Seq(Id) /\ b \in Int /\ b \in Asked
      /\ q # <<>> /\ IsInjective(q) /\ tokens \in Seq(Token)
  <2>1. tokens[k] \in Token
    BY <1>1, Credits
  <2> QED BY <1>1, <2>1
          DEF Token, Books, TokensSound, SoundToken, MeshInv, TypeOK, TokenTypeOK
<1>5. q \in Simple
  BY <1>4, PathIsSimple
<1>6. \A i \in ToSet(q) : Registered(i)
  BY <1>1, <1>2 DEF Books, Named
<1>7. \A i : Registered(i) =>
         /\ NodeOf(i)'.total = NodeOf(i).total
         /\ NodeOf(i)'.available
              = NodeOf(i).available + IF i \in ToSet(q) THEN b ELSE 0
  <2>1. TAKE i
  <2>2. HAVE Registered(i)
  <2>3. NodeOf(i) \in Cell /\ NodeOf(i).available \in Int
    BY <1>1, <2>2, NeighboursAreCells DEF Cell
  <2>4. NodeOf(i)' = IF i \in ToSet(q) THEN UpdateNode(NodeOf(i), b) ELSE NodeOf(i)
    BY <1>1, <2>2, Credits
  <2>5. /\ UpdateNode(NodeOf(i), b).available = NodeOf(i).available + b
        /\ UpdateNode(NodeOf(i), b).total = NodeOf(i).total
    BY <1>4, <2>3, UpdatedFields
  <2> HIDE DEF q, b
  <2> QED BY <2>3, <2>4, <2>5
<1>8. \A i : Registered(i)' <=> Registered(i)
  BY <1>1, Credits
<1>9. /\ \A i : Total(i)' = Total(i)
      /\ \A i : Free(i)' = IF i \in ToSet(q) THEN Free(i) + b ELSE Free(i)
  <2> HIDE DEF q, b
  <2>1. \A i : Registered(i) => NodeOf(i).available \in Int
    BY <1>1, NeighboursAreCells DEF Cell
  <2> QED BY <1>2, <1>6, <1>7, <1>8, <2>1 DEF Total, Free
<1>10. \A p, c : Cardinality(Granted(tokens', p, c))
                   = IF p = q /\ c = b THEN Cardinality(Granted(tokens, p, c)) - 1
                                       ELSE Cardinality(Granted(tokens, p, c))
  <2>1. ASSUME NEW p, NEW c
        PROVE  /\ Cardinality(Granted(tokens', p, c))
                    = Cardinality(Granted(tokens, p, c))
                      - IF StandsFor(tokens[k], p, c) THEN 1 ELSE 0
               /\ Cardinality(Granted(tokens, p, c)) \in Int
               /\ StandsFor(tokens[k], p, c) <=> p = q /\ c = b
    <3>1. StandsFor(tokens[k], p, c) <=> p = q /\ c = b
      BY <1>2 DEF StandsFor
    <3>2. Cardinality(Granted(tokens, p, c)) \in Nat
      BY <1>4, GrantedIsFinite
    <3> QED BY <1>1, <3>1, <3>2, ReleasedTokens
  <2> QED BY <2>1
<1>11. Cardinality(Granted(tokens, q, b)) > 0
  <2>1. k \in Granted(tokens, q, b)
    BY <1>2 DEF Granted
  <2>2. IsFiniteSet(Granted(tokens, q, b)) /\ Cardinality(Granted(tokens, q, b)) \in Nat
    BY <1>4, GrantedIsFinite
  <2>3. Cardinality(Granted(tokens, q, b)) # 0
    BY <2>1, <2>2, FS_EmptySet
  <2> QED BY <2>2, <2>3
<1> HIDE DEF q, b
<1>12. Service!Release(q, b)
  <2>1. \A i \in Id : i \in Service!ToSet(q) <=> i \in ToSet(q)
    BY DEF Service!ToSet, ToSet
  <2>2. /\ <<q, b>> \in Simple \X Asked
        /\ <<q, b>>[1] = q /\ <<q, b>>[2] = b
        /\ \A g \in Simple \X Asked :
              g = <<g[1], g[2]>> /\ (g = <<q, b>> <=> g[1] = q /\ g[2] = b)
    BY <1>4, <1>5
  <2>3. [g \in Simple \X Asked |-> Cardinality(Granted(tokens', g[1], g[2]))]
          = [[g \in Simple \X Asked |-> Cardinality(Granted(tokens, g[1], g[2]))]
               EXCEPT ![<<q, b>>] = Cardinality(Granted(tokens, q, b)) - 1]
    <3>1. ASSUME NEW g \in Simple \X Asked
          PROVE  Cardinality(Granted(tokens', g[1], g[2]))
                   = IF g = <<q, b>> THEN Cardinality(Granted(tokens, q, b)) - 1
                                     ELSE Cardinality(Granted(tokens, g[1], g[2]))
      BY <1>10, <2>2
    <3> QED BY <2>2, <3>1
  <2>4. [g \in Simple \X Asked |-> Cardinality(Granted(tokens, g[1], g[2]))][<<q, b>>]
          = Cardinality(Granted(tokens, q, b))
    BY <2>2
  <2>5. [i \in Id |-> Free(i)']
          = [i \in Id |-> IF i \in Service!ToSet(q) THEN Free(i) + b ELSE Free(i)]
    BY <1>9, <2>1
  <2> QED BY <1>3, <1>9, <1>11, <2>3, <2>4, <2>5 DEF Service!Release
<1> QED BY <1>4, <1>5, <1>12, PathsAreSimple DEF q, b

LEMMA GrantRouteImplements ==
    ASSUME EngineInv, ~tainted, GrantRoute
    PROVE  /\ route \in Service!Path /\ request.bandwidth \in Asked
           /\ Service!Grant(route, request.bandwidth)
<1>1. MeshInv /\ WaySound
  BY DEF EngineInv
<1> DEFINE b == request.bandwidth
<1>2. /\ Issued \in Token /\ SoundToken(Issued) /\ Kept(Issued)
      /\ Issued.path = route /\ Issued.bandwidth = b
      /\ tokens' = Append(tokens, Issued) /\ tokens \in Seq(Token)
      /\ b \in Nat \ {0} /\ \A i \in ToSet(route) : Registered(i)
      /\ UNCHANGED <<mesh, tainted>> /\ route' = <<>>
  BY <1>1, IssuedToken
<1>3. route \in Simple /\ b \in Asked
  <2>1. route \in Seq(Id)
    BY <1>1 DEF MeshInv, TypeOK, SearchTypeOK
  <2> QED BY <1>2, <2>1, PathIsSimple DEF SoundToken
<1>4. \A i : (Registered(i)' <=> Registered(i)) /\ NodeOf(i)' = NodeOf(i)
  BY <1>2 DEF mesh, Registered, NodeOf
<1>5. \A i : Before(i)' = NodeOf(i)
  BY <1>2, <1>4, NothingHeld DEF Before
<1>6. ASSUME NEW i \in ToSet(route)
      PROVE  /\ Total(i) > 0 /\ Free(i) >= b
             /\ Free(i) \in Int /\ Free(i)' = Free(i) - b
  <2>1. Registered(i) /\ NodeOf(i) \in Cell /\ NodeOf(i).available \in Nat
    BY <1>1, <1>2, NeighboursAreCells DEF Cell
  <2>2. UpdateNode(NodeOf(i), b).available = NodeOf(i).available + b
    <3>1. b \in Int /\ NodeOf(i) \in Cell
      BY <1>2, <2>1
    <3> HIDE DEF b
    <3> QED BY <3>1, UpdatedFields
  <2>3. Before(i).available = NodeOf(i).available + b
    BY <2>2 DEF Before
  <2>4. Free(i) = NodeOf(i).available + b /\ Free(i)' = NodeOf(i).available
    BY <1>4, <1>5, <2>1, <2>3 DEF Free
  <2>5. Total(i) > 0
    BY <1>1, <2>1, Views
  <2> HIDE DEF b
  <2> QED BY <1>2, <2>1, <2>4, <2>5
<1>7. \A i : i \notin ToSet(route) => Before(i)' = Before(i)
  BY <1>5 DEF Before
<1>8. /\ \A i : Total(i)' = Total(i)
      /\ \A i : i \notin ToSet(route) => Free(i)' = Free(i)
  BY <1>4, <1>7 DEF Total, Free
<1>9. \A p, c : Cardinality(Granted(tokens', p, c))
                  = IF p = route /\ c = b
                    THEN Cardinality(Granted(tokens, p, c)) + 1
                    ELSE Cardinality(Granted(tokens, p, c))
  <2>1. ASSUME NEW p, NEW c
        PROVE  /\ Cardinality(Granted(tokens', p, c))
                    = Cardinality(Granted(tokens, p, c))
                      + IF StandsFor(Issued, p, c) THEN 1 ELSE 0
               /\ Cardinality(Granted(tokens, p, c)) \in Int
               /\ StandsFor(Issued, p, c) <=> p = route /\ c = b
    <3>1. StandsFor(Issued, p, c) <=> p = route /\ c = b
      BY <1>2 DEF StandsFor
    <3>2. Cardinality(Granted(tokens, p, c)) \in Nat
      BY <1>2, GrantedIsFinite
    <3> QED BY <1>2, <3>1, <3>2, GrantedOfAppend
  <2> QED BY <2>1
<1> HIDE DEF b
<1>10. Service!Grant(route, b)
  <2>1. \A i : i \in Service!ToSet(route) <=> i \in ToSet(route)
    BY DEF Service!ToSet, ToSet
  <2>2. /\ <<route, b>> \in Simple \X Asked
        /\ <<route, b>>[1] = route /\ <<route, b>>[2] = b
        /\ \A g \in Simple \X Asked :
              g = <<g[1], g[2]>> /\ (g = <<route, b>> <=> g[1] = route /\ g[2] = b)
    BY <1>3
  <2>3. ToSet(route) \subseteq Id
    BY <1>3, SimpleIsAPath
  <2>4. \A i \in ToSet(route) : Total(i) # 0 /\ Free(i) >= b /\ Free(i)' = Free(i) - b
    BY <1>6
  <2>5. [g \in Simple \X Asked |-> Cardinality(Granted(tokens', g[1], g[2]))]
          = [[g \in Simple \X Asked |-> Cardinality(Granted(tokens, g[1], g[2]))]
               EXCEPT ![<<route, b>>] = Cardinality(Granted(tokens, route, b)) + 1]
    <3>1. ASSUME NEW g \in Simple \X Asked
          PROVE  Cardinality(Granted(tokens', g[1], g[2]))
                   = IF g = <<route, b>>
                     THEN Cardinality(Granted(tokens, route, b)) + 1
                     ELSE Cardinality(Granted(tokens, g[1], g[2]))
      BY <1>9, <2>2
    <3> QED BY <2>2, <3>1
  <2>6. [g \in Simple \X Asked |-> Cardinality(Granted(tokens, g[1], g[2]))][<<route, b>>]
          = Cardinality(Granted(tokens, route, b))
    BY <2>2
  <2>7. [i \in Id |-> Free(i)']
          = [i \in Id |-> IF i \in Service!ToSet(route) THEN Free(i) - b ELSE Free(i)]
    BY <1>8, <2>1, <2>4
  <2>8. tainted' = tainted
    BY <1>2
  <2>9. \A i \in Service!ToSet(route) : i \in Id /\ Total(i) # 0 /\ Free(i) >= b
    BY <2>1, <2>3, <2>4
  <2> QED BY <1>8, <2>5, <2>6, <2>7, <2>8, <2>9 DEF Service!Grant, Service!Absent
<1> QED BY <1>3, <1>10, PathsAreSimple DEF b

LEMMA ReserveNodeImplements ==
    ASSUME EngineInv, ~tainted, ReserveNode
    PROVE  UNCHANGED Service!vars
<1>1. MeshInv /\ WaySound /\ Forest
  BY DEF EngineInv
<1>2. tokens' = tokens /\ tainted' = tainted
  BY DEF ReserveNode
<1>3. \A i : /\ Registered(i)' <=> Registered(i)
             /\ Registered(i) => /\ Before(i)' = Before(i)
                                 /\ NodeOf(i)'.total = NodeOf(i).total
  BY <1>1, BeforeKept, Debits
<1>4. \A i : Total(i)' = Total(i) /\ Free(i)' = Free(i)
  BY <1>3 DEF Total, Free
<1> QED BY <1>2, <1>4, Unseen

LEMMA QuietImplements ==
    ASSUME MeshInv, MeshInv', Quiet, ~tainted'
    PROVE  UNCHANGED Service!vars
<1>1. tokens' = tokens /\ tainted' = tainted
  BY DEF Quiet, MeshInv, TypeOK, TokenTypeOK
<1>2. \A i : /\ Registered(i)' <=> Registered(i)
             /\ Before(i)' = Before(i) /\ NodeOf(i)' = NodeOf(i)
  BY DEF Quiet, mesh, Registered, NodeOf
<1>3. \A i : Total(i)' = Total(i) /\ Free(i)' = Free(i)
  BY <1>2 DEF Total, Free
<1> QED BY <1>1, <1>3, Unseen

LEMMA StepImplements ==
    ASSUME EngineInv, EngineInv', [Next]_vars
    PROVE  [Service!Next]_(Service!vars)
<1>1. CASE tainted'
  BY <1>1 DEF Service!Next, Service!Break
<1>2. CASE ~tainted'
  <2>1. MeshInv /\ MeshInv' /\ WaySound /\ Forest
    BY DEF EngineInv
  <2>2. CASE (\E b \in Batch : InitialReboot(b)) \/ Restart
    BY <1>2, <2>2, ReplaceImplements DEF Service!Next
  <2>3. CASE \E p \in Joining : AddNode(p)
    <3>1. PICK p \in Joining : AddNode(p)
      BY <2>3
    <3>2. p.id \in Id /\ Service!Join(p.id, Total(p.id)')
      BY <3>1, AddNodeImplements
    <3>3. ~tainted
      BY <1>2, <3>1 DEF AddNode
    <3>4. Service!Join(p.id, [i \in Id |-> Total(i)'][p.id])
      BY <3>2
    <3> QED BY <3>2, <3>3, <3>4 DEF Service!Next
  <2>4. CASE \E i \in Id : RemoveNode(i)
    <3>1. PICK i \in Id : RemoveNode(i)
      BY <2>4
    <3>2. ~tainted
      BY <1>2, <3>1 DEF RemoveNode
    <3>3. Service!Leave(i)
      BY <3>1, <3>2, RemoveNodeImplements
    <3> QED BY <3>2, <3>3 DEF Service!Next
  <2>5. CASE \E k \in DOMAIN tokens, cleared \in BOOLEAN : RemoveUser(k, cleared)
    <3>1. PICK k \in DOMAIN tokens, cleared \in BOOLEAN : RemoveUser(k, cleared)
      BY <2>5
    <3>2. ~tainted
      BY <1>2, <3>1 DEF RemoveUser
    <3>3. /\ tokens[k].path \in Service!Path /\ tokens[k].bandwidth \in Asked
          /\ Service!Release(tokens[k].path, tokens[k].bandwidth)
      BY <1>2, <3>1, RemoveUserImplements
    <3> QED BY <3>2, <3>3 DEF Service!Next
  <2>6. CASE GrantRoute
    <3>1. ~tainted
      BY <1>2, <2>6 DEF GrantRoute
    <3>2. /\ route \in Service!Path /\ request.bandwidth \in Asked
          /\ Service!Grant(route, request.bandwidth)
      BY <2>6, <3>1, GrantRouteImplements
    <3> QED BY <3>1, <3>2 DEF Service!Next
  <2>7. CASE ReserveNode
    <3>1. ~tainted
      BY <1>2, <2>7 DEF ReserveNode
    <3> QED BY <2>7, <3>1, ReserveNodeImplements
  <2>8. CASE ReserveFails
    BY <1>2, <2>1, <2>8, WalkNeverFails
  <2>9. CASE \/ \E r \in Request : StartSearch(r)
             \/ SkipMissing \/ FoundGateway \/ HopLimitReached \/ Relax \/ NoRoute
             \/ UNCHANGED vars
    <3>1. Quiet
      BY <2>1, <2>9, QuietSteps
    <3> QED BY <1>2, <2>1, <3>1, QuietImplements
  <2> QED BY <2>2, <2>3, <2>4, <2>5, <2>6, <2>7, <2>8, <2>9 DEF Next, SearchStep
<1> QED BY <1>1, <1>2

\* For every mesh and every sequence of RPCs the Engine does what MeshService
\* says: a search and the walk that debits its route appear to the Orchestrator
\* as one reservation of the whole route or as nothing at all, a release gives
\* back exactly one such reservation, and no node leaves that is in one.
THEOREM EngineImplementsService == Spec => ImplementsService
<1>1. EngineInv /\ EngineInv' /\ [Next]_vars => [Service!Next]_(Service!vars)
  BY StepImplements
<1> QED BY <1>1, EngineInvariantHolds, InitImplements, PTL
        DEF Spec, ImplementsService, Service!Spec

-----------------------------------------------------------------------------
(* The choice of the route. *)

\* The inductive invariant, with what the queue still guarantees to find.
ChoiceInv == EngineInv /\ Frontier /\ GateIsCheapest

LEMMA NextKeepsChoice == ChoiceInv /\ [Next]_vars => ChoiceInv'
<1>1. SUFFICES ASSUME ChoiceInv, [Next]_vars PROVE ChoiceInv'
  OBVIOUS
<1>2. MeshInv /\ WaySound /\ Forest /\ MeshSane
  BY <1>1, BooksKeepSane DEF ChoiceInv, EngineInv
<1>3. EngineInv'
  BY <1>1, NextKeepsEngine DEF ChoiceInv
<1> QED BY <1>1, <1>2, <1>3, NextKeepsFrontier, NextKeepsGate DEF ChoiceInv

\* The search works on every mesh as it should: no node is forgotten.
THEOREM ChoiceInvariantHolds == Spec => []ChoiceInv
<1>1. Init => ChoiceInv
  BY InitEngine DEF Init, ChoiceInv, Frontier, Searching, GateIsCheapest
<1> QED BY <1>1, NextKeepsChoice, PTL DEF Spec

\* No route over the adjacency lists that has the bandwidth and the latency
\* costs less than the one dijkstra.cpp grants, unless HopLimit - 1 nearer nodes
\* hide it: that the code keeps no closed set, expands entries whose cost is out
\* of date and reads the path from the overwritten entries of visited does no
\* harm, and what the hop limit may prune is bounded.
THEOREM GrantedPathIsAlwaysCheapest == Spec => []GrantedPathIsCheapest
<1>1. ChoiceInv => GrantedPathIsCheapest
  BY GateGrantsCheapest DEF ChoiceInv, EngineInv
<1> QED BY <1>1, ChoiceInvariantHolds, PTL

\* Nobody is told to be far away from the mesh while it has a route for the
\* request that is not hidden.
THEOREM RefusalIsAlwaysJustified == Spec => []RefusalIsJustified
<1>1. ChoiceInv => RefusalIsJustified
  BY BooksKeepSane, FrontierJustifiesRefusal DEF ChoiceInv, EngineInv
<1> QED BY <1>1, ChoiceInvariantHolds, PTL

\* As long as the mesh has at most HopLimit nodes, 20 in getShortestPath, no
\* route is hidden: the granted path is the cheapest of all, and a refusal
\* means that there is none.
THEOREM SmallMeshesHideNothing == Spec => []NothingIsHidden
<1>1. EngineInv => NothingIsHidden
  BY SmallMeshHidesNothing DEF EngineInv
<1> QED BY <1>1, EngineInvariantHolds, PTL

\* On such a mesh the granted path also keeps the limit that engine.md states,
\* which no larger mesh is sure of: it visits no node twice.
THEOREM SmallMeshesKeepTheLimit ==
    Spec => [](Cardinality({i \in Id : Registered(i)}) <= HopLimit
               => RouteWithinHopLimit)
<1>1. EngineInv /\ Cardinality({i \in Id : Registered(i)}) <= HopLimit
         => RouteWithinHopLimit
  <2>1. SUFFICES ASSUME EngineInv, phase = "reserve", cursor = NoParent,
                        Cardinality({i \in Id : Registered(i)}) <= HopLimit
                 PROVE  Len(route) <= HopLimit
    BY DEF RouteWithinHopLimit
  <2>2. Len(route) <= Cardinality({i \in Id : Registered(i)})
    BY <2>1, WalkFits DEF EngineInv, GrantedPathFits
  <2>3. Len(route) \in Nat
    BY <2>1 DEF EngineInv, MeshInv, TypeOK, SearchTypeOK
  <2>4. Cardinality({i \in Id : Registered(i)}) \in Nat
    BY WithinIsFinite
  <2> QED BY <2>1, <2>2, <2>3, <2>4, ConstantAssumption
<1> QED BY <1>1, EngineInvariantHolds, PTL

=============================================================================
