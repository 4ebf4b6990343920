--------------------------- MODULE MeshIndexProofs ---------------------------
(***************************************************************************)
(* Proofs about the Engine's index: for every capacity, every boundary,    *)
(* every batch and every sequence of RPCs, each node the map owns is in    *)
(* one subtree, no freed one is in any, and a query returns what is in its *)
(* box, whichever abs the build takes.                                     *)
(*                                                                         *)
(* The argument is about the boxes.  A node is filed below boxes that all  *)
(* have its place: insert goes down only through full subtrees and into a  *)
(* child whose box has the place, and the four children of a box cover it. *)
(* A query with the place in its range therefore overlaps every box above  *)
(* the node, and remove, which goes down by the place, comes to it too.    *)
(***************************************************************************)
EXTENDS MeshBooks, MeshIndex, SequenceTheorems

-----------------------------------------------------------------------------
(* Boxes. *)

Place == [lat : Int, lon : Int]
Box == [lat : Int, lon : Int, halfLat : Nat, halfLon : Nat, unit : Nat \ {0}]
Range1 == [lat : Int, lon : Int, halfLat : Nat, halfLon : Nat, unit : {1}]

LEMMA RootIsBox == Root \in Box
BY QuadtreeAssumption DEF Root, Box

\* The parts of a child's box.
LEMMA QuarterIsBox ==
    ASSUME NEW b \in Box, NEW q \in Quadrant
    PROVE  /\ Quarter(b, q) \in Box
           /\ Quarter(b, q).lat
                 = 2 * b.lat + (IF q \in {1, 2} THEN b.halfLat ELSE -b.halfLat)
           /\ Quarter(b, q).lon
                 = 2 * b.lon + (IF q \in {1, 3} THEN -b.halfLon ELSE b.halfLon)
           /\ Quarter(b, q).halfLat = b.halfLat
           /\ Quarter(b, q).halfLon = b.halfLon
           /\ Quarter(b, q).unit = 2 * b.unit
<1>1. /\ b.lat \in Int /\ b.lon \in Int /\ b.halfLat \in Nat /\ b.halfLon \in Nat
      /\ b.unit \in Nat \ {0}
      /\ DOMAIN b = {"lat", "lon", "halfLat", "halfLon", "unit"}
  BY DEF Box
<1> DEFINE lat == 2 * b.lat + (IF q \in {1, 2} THEN b.halfLat ELSE -b.halfLat)
           lon == 2 * b.lon + (IF q \in {1, 3} THEN -b.halfLon ELSE b.halfLon)
<1>2. lat \in Int /\ lon \in Int /\ 2 * b.unit \in Nat \ {0}
  BY <1>1
<1>3. Quarter(b, q) = [b EXCEPT !.lat = lat, !.lon = lon, !.unit = 2 * b.unit]
  BY <1>1 DEF Quarter
<1> HIDE DEF lat, lon
<1>4. /\ Quarter(b, q).lat = lat /\ Quarter(b, q).lon = lon
      /\ Quarter(b, q).halfLat = b.halfLat /\ Quarter(b, q).halfLon = b.halfLon
      /\ Quarter(b, q).unit = 2 * b.unit /\ Quarter(b, q) \in Box
  BY <1>1, <1>2, <1>3 DEF Box
<1> QED BY <1>4 DEF lat, lon

\* The four children of a box cover it.
LEMMA QuartersCover ==
    ASSUME NEW b \in Box, NEW l \in Place, contains(b, l)
    PROVE  \E q \in Quadrant : contains(Quarter(b, q), l)
<1> DEFINE x == b.unit * l.lat
           y == b.unit * l.lon
           q == IF x >= b.lat THEN IF y <= b.lon THEN 1 ELSE 2
                ELSE IF y <= b.lon THEN 3 ELSE 4
           c == Quarter(b, q)
<1>1. /\ b.lat \in Int /\ b.lon \in Int /\ b.halfLat \in Nat /\ b.halfLon \in Nat
      /\ b.unit \in Nat /\ l.lat \in Int /\ l.lon \in Int
  BY DEF Box, Place
<1>2. x \in Int /\ y \in Int /\ c.unit * l.lat = 2 * x /\ c.unit * l.lon = 2 * y
  <2>1. c.unit = 2 * b.unit
    BY QuarterIsBox DEF Quadrant
  <2> QED BY <1>1, <2>1
<1>3. /\ b.lat - b.halfLat <= x /\ x <= b.lat + b.halfLat
      /\ b.lon - b.halfLon <= y /\ y <= b.lon + b.halfLon
  BY DEF contains
<1> HIDE DEF x, y
<1>4. /\ c.lat = 2 * b.lat + (IF x >= b.lat THEN b.halfLat ELSE -b.halfLat)
      /\ c.lon = 2 * b.lon + (IF y <= b.lon THEN -b.halfLon ELSE b.halfLon)
      /\ c.halfLat = b.halfLat /\ c.halfLon = b.halfLon /\ q \in Quadrant
  BY QuarterIsBox DEF Quadrant
<1> HIDE DEF c, q
<1>5. contains(c, l)
  BY <1>1, <1>2, <1>3, <1>4 DEF contains
<1> QED BY <1>4, <1>5 DEF c

\* insert finds the child it goes on to.
LEMMA FirstContains ==
    ASSUME NEW b \in Box, NEW l \in Place, contains(b, l)
    PROVE  First(b, l) \in Quadrant /\ contains(Quarter(b, First(b, l)), l)
<1> DEFINE S == {q \in Quadrant : contains(Quarter(b, q), l)}
           f == [q \in S |-> q]
<1>1. S # {} /\ S \subseteq 1 .. 4
  BY QuartersCover DEF Quadrant
<1>2. IsFiniteSet(S)
  <2> HIDE DEF S
  <2>1. \A n \in Nat : IsFiniteSet(1 .. n)
    BY FS_Interval
  <2>2. IsFiniteSet(1 .. 4)
    BY <2>1
  <2> QED BY <1>1, <2>2, FS_Subset
<1>3. f \in [S -> Int]
  BY <1>1
<1>4. PICK q \in S : \A r \in S : q <= r
  <2>1. PICK q \in S : \A r \in S : f[q] <= f[r]
    <3> HIDE DEF S, f
    <3> QED BY <1>1, <1>2, <1>3, Cheapest
  <2> QED BY <2>1
<1>5. /\ q \in Quadrant /\ contains(Quarter(b, q), l)
      /\ \A r \in 1 .. q - 1 : ~contains(Quarter(b, r), l)
  BY <1>4 DEF Quadrant
<1> QED BY <1>5 DEF First

\* Two intervals with a place in common: their centres are no further apart
\* than their halves together.
LEMMA CentresApart ==
    ASSUME NEW u \in Nat, NEW x \in Int, NEW r \in Int, NEW h \in Int,
           NEW c \in Int, NEW w \in Int,
           r - h <= x, x <= r + h, c - w <= u * x, u * x <= c + w
    PROVE  u * r - c <= u * h + w /\ c - u * r <= u * h + w
<1>1. /\ u * x \in Int /\ u * r \in Int /\ u * h \in Int
      /\ u * (x - r + h) = u * x - u * r + u * h
      /\ u * (r + h - x) = u * r + u * h - u * x
  OBVIOUS
<1>2. x - r + h \in Nat /\ r + h - x \in Nat
  OBVIOUS
<1>3. u * (x - r + h) >= 0 /\ u * (r + h - x) >= 0
  BY <1>2, Products
<1> QED BY <1>1, <1>3

\* Cutting to whole degrees brings nothing further apart.
LEMMA ApartAtMost ==
    ASSUME NEW x \in Int, NEW y \in Int, NEW unit \in Nat \ {0},
           NEW cut \in BOOLEAN, NEW bound \in Int, x - y <= bound, y - x <= bound
    PROVE  Apart(x, y, unit, cut) <= bound
<1> DEFINE d == IF x < y THEN y - x ELSE x - y
           m == Degree * unit
<1>1. d \in Nat /\ d <= bound
  OBVIOUS
<1>2. m \in Nat \ {0}
  BY QuadtreeAssumption
<1> HIDE DEF d, m
<1>3. (d \div m) * m <= d /\ (d \div m) * m \in Int
  BY <1>1, <1>2
<1>4. Apart(x, y, unit, cut) = IF cut THEN (d \div m) * m ELSE d
  BY DEF Apart, d, m
<1> QED BY <1>1, <1>3, <1>4

\* A query does not skip a box that has a place of its range.
LEMMA CommonPlaceOverlaps ==
    ASSUME NEW b \in Box, NEW range \in Range1, NEW l \in Place,
           contains(b, l), contains(range, l), NEW cut \in BOOLEAN
    PROVE  Overlaps(b, range, cut)
<1>1. /\ b.lat \in Int /\ b.lon \in Int /\ b.halfLat \in Nat /\ b.halfLon \in Nat
      /\ b.unit \in Nat \ {0} /\ l.lat \in Int /\ l.lon \in Int
  BY DEF Box, Place
<1>2. /\ range.lat \in Int /\ range.lon \in Int
      /\ range.halfLat \in Nat /\ range.halfLon \in Nat /\ range.unit = 1
  BY DEF Range1
<1>3. /\ range.lat - range.halfLat <= l.lat /\ l.lat <= range.lat + range.halfLat
      /\ range.lon - range.halfLon <= l.lon /\ l.lon <= range.lon + range.halfLon
  BY <1>1, <1>2 DEF contains
<1>4. /\ b.lat - b.halfLat <= b.unit * l.lat /\ b.unit * l.lat <= b.lat + b.halfLat
      /\ b.lon - b.halfLon <= b.unit * l.lon /\ b.unit * l.lon <= b.lon + b.halfLon
  BY DEF contains
<1>5. /\ b.unit \in Nat /\ b.halfLat \in Int /\ b.halfLon \in Int
      /\ range.halfLat \in Int /\ range.halfLon \in Int
      /\ b.unit * range.lat \in Int /\ b.unit * range.halfLat + b.halfLat \in Int
      /\ b.unit * range.lon \in Int /\ b.unit * range.halfLon + b.halfLon \in Int
  BY <1>1, <1>2
<1>6. /\ b.unit * range.lat - b.lat <= b.unit * range.halfLat + b.halfLat
      /\ b.lat - b.unit * range.lat <= b.unit * range.halfLat + b.halfLat
  BY <1>1, <1>2, <1>3, <1>4, <1>5, CentresApart
<1>7. /\ b.unit * range.lon - b.lon <= b.unit * range.halfLon + b.halfLon
      /\ b.lon - b.unit * range.lon <= b.unit * range.halfLon + b.halfLon
  BY <1>1, <1>2, <1>3, <1>4, <1>5, CentresApart
<1> QED BY <1>1, <1>5, <1>6, <1>7, ApartAtMost DEF Overlaps

-----------------------------------------------------------------------------
(* Names of subtrees. *)

\* The name of a subtree above another.
LEMMA PrefixName ==
    ASSUME NEW p \in Name, NEW k \in 0 .. Len(p)
    PROVE  /\ SubSeq(p, 1, k) \in Name /\ Len(SubSeq(p, 1, k)) = k
           /\ \A i \in 1 .. k : SubSeq(p, 1, k)[i] = p[i]
<1>1. k \in Int /\ \A i \in 1 .. k : p[i] \in Quadrant
  BY DEF Name
<1>2. /\ SubSeq(p, 1, k) \in Seq(Quadrant)
      /\ Len(SubSeq(p, 1, k)) = IF 1 <= k THEN k - 1 + 1 ELSE 0
      /\ \A i \in 1 .. k - 1 + 1 : SubSeq(p, 1, k)[i] = p[1 + i - 1]
  BY <1>1, SubSeqProperties
<1>3. k \in Nat /\ k - 1 + 1 = k /\ \A i \in 1 .. k : 1 + i - 1 = i
  BY DEF Name
<1> QED BY <1>2, <1>3 DEF Name

\* Names with the same quadrants are the same.
LEMMA SameName ==
    ASSUME NEW p \in Name, NEW q \in Name, Len(p) = Len(q),
           \A i \in 1 .. Len(p) : p[i] = q[i]
    PROVE  p = q
BY SeqEqual DEF Name

LEMMA PrefixOfPrefix ==
    ASSUME NEW p \in Name, NEW k \in 0 .. Len(p), NEW j \in 0 .. k
    PROVE  SubSeq(SubSeq(p, 1, k), 1, j) = SubSeq(p, 1, j)
<1> DEFINE q == SubSeq(p, 1, k)
<1>1. q \in Name /\ Len(q) = k /\ (\A i \in 1 .. k : q[i] = p[i])
  BY PrefixName
<1>2. Len(p) \in Nat /\ k \in Nat /\ j \in Nat /\ j \in 0 .. Len(p)
  BY DEF Name
<1>3. /\ SubSeq(p, 1, j) \in Name /\ Len(SubSeq(p, 1, j)) = j
      /\ \A i \in 1 .. j : SubSeq(p, 1, j)[i] = p[i]
  BY <1>2, PrefixName
<1> HIDE DEF q
<1>4. /\ SubSeq(q, 1, j) \in Name /\ Len(SubSeq(q, 1, j)) = j
      /\ \A i \in 1 .. j : SubSeq(q, 1, j)[i] = q[i]
  BY <1>1, <1>2, PrefixName
<1>5. \A i \in 1 .. j : SubSeq(q, 1, j)[i] = SubSeq(p, 1, j)[i]
  BY <1>1, <1>2, <1>3, <1>4
<1>6. SubSeq(q, 1, j) = SubSeq(p, 1, j)
  BY <1>3, <1>4, <1>5, SameName
<1> QED BY <1>6 DEF q

\* The first and the last prefix.
LEMMA EndsOfName ==
    ASSUME NEW p \in Name
    PROVE  /\ Len(p) \in Nat /\ <<>> \in Name /\ Len(<<>>) = 0
           /\ SubSeq(p, 1, 0) = <<>> /\ SubSeq(p, 1, Len(p)) = p
           /\ \A i \in 1 .. Len(p) : p[i] \in Quadrant
<1>1. Len(p) \in Nat /\ <<>> \in Name /\ Len(<<>>) = 0
      /\ \A i \in 1 .. Len(p) : p[i] \in Quadrant
  BY DEF Name
<1>2. SubSeq(p, 1, 0) = <<>> /\ SubSeq(p, 1, Len(p)) = p
  BY SubSeqEmpty, SubSeqFull DEF Name
<1> QED BY <1>1, <1>2

\* A child's name.
LEMMA ChildName ==
    ASSUME NEW p \in Name, NEW q \in Quadrant
    PROVE  /\ Append(p, q) \in Name /\ Len(Append(p, q)) = Len(p) + 1
           /\ Append(p, q)[Len(p) + 1] = q /\ Last(Append(p, q)) = q
           /\ \A i \in 1 .. Len(p) : Append(p, q)[i] = p[i]
           /\ \A k \in 0 .. Len(p) : SubSeq(Append(p, q), 1, k) = SubSeq(p, 1, k)
<1> DEFINE c == Append(p, q)
<1>1. /\ c \in Name /\ Len(c) = Len(p) + 1 /\ c[Len(p) + 1] = q
      /\ \A i \in 1 .. Len(p) : c[i] = p[i]
  BY AppendProperties DEF Name
<1> HIDE DEF c
<1>2. ASSUME NEW k \in 0 .. Len(p) PROVE SubSeq(c, 1, k) = SubSeq(p, 1, k)
  <2>1. Len(p) \in Nat /\ k \in 0 .. Len(c) /\ k \in Nat
    BY <1>1, EndsOfName
  <2>2. /\ SubSeq(p, 1, k) \in Name /\ Len(SubSeq(p, 1, k)) = k
        /\ \A i \in 1 .. k : SubSeq(p, 1, k)[i] = p[i]
    BY PrefixName
  <2>3. /\ SubSeq(c, 1, k) \in Name /\ Len(SubSeq(c, 1, k)) = k
        /\ \A i \in 1 .. k : SubSeq(c, 1, k)[i] = c[i]
    BY <1>1, <2>1, PrefixName
  <2>4. \A i \in 1 .. k : SubSeq(c, 1, k)[i] = SubSeq(p, 1, k)[i]
    BY <1>1, <2>1, <2>2, <2>3
  <2> QED BY <2>2, <2>3, <2>4, SameName
<1> QED BY <1>1, <1>2 DEF c, Last

\* A name that is not the root's is a child's.
LEMMA ParentName ==
    ASSUME NEW p \in Name, p # <<>>
    PROVE  /\ Len(p) \in Nat \ {0} /\ p[Len(p)] \in Quadrant
           /\ Front(p) \in Name /\ Front(p) = SubSeq(p, 1, Len(p) - 1)
           /\ Len(Front(p)) = Len(p) - 1 /\ p = Append(Front(p), p[Len(p)])
<1> DEFINE m == Len(p)
           q == SubSeq(p, 1, m - 1)
<1>1. m \in Nat \ {0} /\ p[m] \in Quadrant
  BY EmptySeq, EndsOfName DEF Name
<1>2. q \in Name /\ Len(q) = m - 1 /\ \A i \in 1 .. m - 1 : q[i] = p[i]
  <2>1. m - 1 \in 0 .. Len(p)
    BY <1>1
  <2> QED BY <2>1, PrefixName
<1> HIDE DEF q
<1>3. /\ Append(q, p[m]) \in Name /\ Len(Append(q, p[m])) = m
      /\ Append(q, p[m])[m] = p[m]
      /\ \A i \in 1 .. m - 1 : Append(q, p[m])[i] = q[i]
  BY <1>1, <1>2, ChildName
<1>4. \A i \in 1 .. m : Append(q, p[m])[i] = p[i]
  BY <1>1, <1>2, <1>3
<1>5. p = Append(q, p[m])
  BY <1>3, <1>4, SameName
<1> QED BY <1>1, <1>2, <1>5 DEF q, Front

-----------------------------------------------------------------------------
(* Trees. *)

Subtree == [boundary : Box, nodes : Seq(Addr)]

\* The subtree p has its parent's place, and its box is the quarter of it.
Hangs(t, p) ==
    \A k \in 1 .. Len(p) :
        /\ SubSeq(p, 1, k - 1) \in DOMAIN t /\ SubSeq(p, 1, k) \in DOMAIN t
        /\ t[SubSeq(p, 1, k)].boundary
               = Quarter(t[SubSeq(p, 1, k - 1)].boundary, p[k])

IsTree(t) ==
    /\ DOMAIN t \subseteq Name /\ IsFiniteSet(DOMAIN t) /\ <<>> \in DOMAIN t
    /\ t \in [DOMAIN t -> Subtree]
    /\ t[<<>>].boundary = Root
    /\ \A p \in DOMAIN t : Hangs(t, p)

\* Every node is below boxes that have its place.
Below(t, p, l) == \A k \in 0 .. Len(p) : contains(t[SubSeq(p, 1, k)].boundary, l)

Holds(t, at) ==
    \A p \in DOMAIN t : \A n \in ToSet(t[p].nodes) : Below(t, p, at[n])

\* The invariant of the index: it files held, each node below its place.
TreeInv(t, held, at) == IsTree(t) /\ Filed(t, held) /\ Holds(t, at)

\* The subtrees above one are in the tree.
LEMMA AboveInTree ==
    ASSUME NEW t, IsTree(t), NEW p \in DOMAIN t, NEW k \in 0 .. Len(p)
    PROVE  SubSeq(p, 1, k) \in DOMAIN t
<1>1. p \in Name /\ Hangs(t, p)
  BY DEF IsTree
<1>2. CASE k = 0
  BY <1>1, <1>2, EndsOfName DEF IsTree
<1>3. CASE k # 0
  <2>1. k \in 1 .. Len(p)
    BY <1>1, <1>3, EndsOfName
  <2> QED BY <1>1, <2>1 DEF Hangs
<1> QED BY <1>2, <1>3

\* The nodes of a tree, by subtree.
LEMMA FoundNodes ==
    ASSUME NEW t
    PROVE  \A n : n \in Found(t) <=> \E p \in DOMAIN t : n \in ToSet(t[p].nodes)
BY DEF Found

\* A query finds what is filed in its range.
LEMMA TreeAnswers ==
    ASSUME NEW t, NEW held, NEW at, TreeInv(t, held, at),
           \A n \in held : at[n] \in Place,
           NEW range \in Range1, NEW cut \in BOOLEAN
    PROVE  query(t, range, at, cut) = {n \in held : contains(range, at[n])}
<1>1. IsTree(t) /\ Found(t) = held /\ Holds(t, at)
  BY DEF TreeInv, Filed
<1>2. ASSUME NEW n \in held, contains(range, at[n])
      PROVE  \E p \in DOMAIN t :
                 /\ n \in ToSet(t[p].nodes)
                 /\ \A q \in Above(p) : Overlaps(t[q].boundary, range, cut)
  <2>1. PICK p \in DOMAIN t : n \in ToSet(t[p].nodes)
    BY <1>1, FoundNodes
  <2>2. Below(t, p, at[n])
    BY <1>1, <2>1 DEF Holds
  <2>3. ASSUME NEW k \in 0 .. Len(p)
        PROVE  Overlaps(t[SubSeq(p, 1, k)].boundary, range, cut)
    <3>1. SubSeq(p, 1, k) \in DOMAIN t
      BY <1>1, AboveInTree
    <3>2. t[SubSeq(p, 1, k)].boundary \in Box
      BY <1>1, <3>1 DEF IsTree, Subtree
    <3>3. contains(t[SubSeq(p, 1, k)].boundary, at[n])
      BY <2>2 DEF Below
    <3> QED BY <1>2, <3>2, <3>3, CommonPlaceOverlaps
  <2> QED BY <2>1, <2>3 DEF Above
<1> QED BY <1>1, <1>2 DEF query

-----------------------------------------------------------------------------
(* insert. *)

\* The way insert goes is below boxes with the place.
LEMMA ReachedIsBelow ==
    ASSUME NEW t, IsTree(t), NEW l \in Place, contains(Root, l),
           NEW p \in DOMAIN t, Reaches(t, p, l)
    PROVE  Below(t, p, l)
<1> DEFINE box(k) == t[SubSeq(p, 1, k)].boundary
           S == {k \in Nat : contains(box(k - 1), l)}
<1>1. p \in Name /\ Len(p) \in Nat /\ Hangs(t, p)
  BY EndsOfName DEF IsTree
<1>2. 1 \in S
  <2>1. 1 \in Nat /\ 1 - 1 = 0 /\ SubSeq(p, 1, 0) = <<>>
    BY <1>1, EndsOfName
  <2>2. box(0) = Root
    BY <2>1 DEF IsTree
  <2> QED BY <2>1, <2>2
<1>3. ASSUME NEW k \in 1 .. Len(p), contains(box(k - 1), l) PROVE contains(box(k), l)
  <2>1. k - 1 \in 0 .. Len(p)
    BY <1>1
  <2>2. box(k - 1) \in Box
    BY <2>1, AboveInTree DEF IsTree, Subtree
  <2>3. p[k] = First(box(k - 1), l)
    BY <1>3 DEF Reaches
  <2>4. box(k) = Quarter(box(k - 1), p[k])
    BY <1>1 DEF Hangs
  <2> QED BY <1>3, <2>2, <2>3, <2>4, FirstContains
<1> HIDE DEF box
<1>4. \A k \in 1 .. Len(p) + 1 : k \in S /\ k < Len(p) + 1 => k + 1 \in S
  <2>1. SUFFICES ASSUME NEW k \in 1 .. Len(p) + 1, contains(box(k - 1), l),
                        k < Len(p) + 1
                 PROVE  contains(box(k), l) /\ (k + 1) - 1 = k /\ k + 1 \in Nat
    OBVIOUS
  <2>2. k \in 1 .. Len(p) /\ (k + 1) - 1 = k /\ k + 1 \in Nat
    BY <1>1, <2>1
  <2> QED BY <1>3, <2>1, <2>2
<1>5. Len(p) + 1 \in Nat
  BY <1>1
<1> HIDE DEF S
<1>6. 1 .. Len(p) + 1 \subseteq S
  BY <1>2, <1>4, <1>5, Steps
<1>7. ASSUME NEW k \in 0 .. Len(p) PROVE contains(box(k), l)
  <2>1. k + 1 \in 1 .. Len(p) + 1 /\ (k + 1) - 1 = k
    BY <1>1
  <2> QED BY <1>6, <2>1 DEF S
<1> QED BY <1>7 DEF Below, box

\* From a full subtree insert goes on to the first child with the place.
LEMMA ReachesChild ==
    ASSUME NEW t, NEW p \in Name, NEW l, NEW q \in Quadrant
    PROVE  Reaches(t, Append(p, q), l) <=>
             Reaches(t, p, l) /\ Full(t, p) /\ q = First(t[p].boundary, l)
<1> DEFINE c == Append(p, q)
           m == Len(p)
           goes(k) == /\ Full(t, SubSeq(c, 1, k - 1))
                      /\ c[k] = First(t[SubSeq(c, 1, k - 1)].boundary, l)
<1>1. m \in Nat /\ Len(c) = m + 1 /\ c[m + 1] = q
  BY ChildName, EndsOfName
<1>2. Reaches(t, c, l) <=> \A k \in 1 .. m + 1 : goes(k)
  BY <1>1 DEF Reaches
<1>3. goes(m + 1) <=> Full(t, p) /\ q = First(t[p].boundary, l)
  <2>1. (m + 1) - 1 = m /\ m \in 0 .. Len(p)
    BY <1>1
  <2>2. SubSeq(c, 1, m) = p
    BY <2>1, ChildName, EndsOfName
  <2> QED BY <1>1, <2>1, <2>2
<1>4. Reaches(t, p, l) <=> \A k \in 1 .. m : goes(k)
  <2>1. ASSUME NEW k \in 1 .. m
        PROVE  SubSeq(c, 1, k - 1) = SubSeq(p, 1, k - 1) /\ c[k] = p[k]
    <3>1. k - 1 \in 0 .. Len(p)
      BY <1>1
    <3> QED BY <3>1, ChildName
  <2> HIDE DEF c
  <2> QED BY <2>1 DEF Reaches
<1> HIDE DEF goes
<1>5. (\A k \in 1 .. m + 1 : goes(k)) <=> (\A k \in 1 .. m : goes(k)) /\ goes(m + 1)
  <2>1. \A k : k \in 1 .. m + 1 <=> k \in 1 .. m \/ k = m + 1
    BY <1>1
  <2> QED BY <2>1
<1> QED BY <1>2, <1>3, <1>4, <1>5 DEF c

\* insert comes to a subtree with room: one of the tree, or a child that is yet
\* to be made of a full one.
LEMMA TargetFound ==
    ASSUME NEW t, IsTree(t), NEW l \in Place, contains(Root, l)
    PROVE  LET p == Target(t, l) IN
           /\ Reaches(t, p, l) /\ ~Full(t, p)
           /\ p \notin DOMAIN t =>
                 \E q \in DOMAIN t : \E x \in Quadrant : p = Append(q, x)
<1> DEFINE Q == {q \in DOMAIN t : Reaches(t, q, l)}
           f == [q \in Q |-> -Len(q)]
           C == DOMAIN t \cup UNION {Children(q) : q \in DOMAIN t}
<1>1. DOMAIN t \subseteq Name /\ IsFiniteSet(DOMAIN t) /\ <<>> \in DOMAIN t
      /\ \A q \in DOMAIN t : t[q].boundary \in Box
  BY DEF IsTree, Subtree
<1>2. <<>> \in Q
  <2>1. Len(<<>>) = 0 /\ \A k : k \notin 1 .. 0
    OBVIOUS
  <2> QED BY <1>1, <2>1 DEF Reaches
<1>3. IsFiniteSet(Q) /\ f \in [Q -> Int]
  <2>1. Q \in SUBSET (DOMAIN t)
    OBVIOUS
  <2>2. \A q \in Q : -Len(q) \in Int
    BY <1>1, EndsOfName
  <2> HIDE DEF Q
  <2> QED BY <1>1, <2>1, <2>2, FS_Subset
<1>4. PICK q \in Q : \A r \in Q : f[q] <= f[r]
  <2> HIDE DEF Q, f
  <2> QED BY <1>2, <1>3, Cheapest
<1>5. q \in DOMAIN t /\ q \in Name /\ Reaches(t, q, l)
  BY <1>1
<1>6. \E p \in C : Reaches(t, p, l) /\ ~Full(t, p)
  <2>1. CASE ~Full(t, q)
    BY <1>5, <2>1
  <2>2. CASE Full(t, q)
    <3> DEFINE x == First(t[q].boundary, l)
               c == Append(q, x)
    <3>1. contains(t[q].boundary, l)
      <4>1. Below(t, q, l) /\ SubSeq(q, 1, Len(q)) = q /\ Len(q) \in 0 .. Len(q)
        BY <1>5, ReachedIsBelow, EndsOfName
      <4> QED BY <4>1 DEF Below
    <3>2. x \in Quadrant
      BY <1>1, <1>5, <3>1, FirstContains
    <3>3. Reaches(t, c, l) /\ c \in Children(q)
      BY <1>5, <2>2, <3>2, ReachesChild DEF Children
    <3>4. c \notin DOMAIN t
      <4>1. SUFFICES ASSUME c \in DOMAIN t PROVE FALSE
        OBVIOUS
      <4>2. c \in Q /\ Len(c) = Len(q) + 1 /\ Len(q) \in Nat
        BY <1>5, <3>2, <3>3, <4>1, ChildName, EndsOfName
      <4>3. f[q] <= f[c] /\ f[q] = -Len(q) /\ f[c] = -Len(c)
        BY <1>4, <4>2
      <4> QED BY <4>2, <4>3
    <3> QED BY <1>5, <3>3, <3>4 DEF Full
  <2> QED BY <2>1, <2>2
<1>7. /\ Target(t, l) \in C
      /\ Reaches(t, Target(t, l), l) /\ ~Full(t, Target(t, l))
  BY <1>6 DEF Target
<1> QED BY <1>7 DEF Children

\* What subdivide makes of a tree: subtrees without nodes below p.
LEMMA Subdivided ==
    ASSUME NEW t, IsTree(t), NEW p \in DOMAIN t
    PROVE  LET s == subdivide(t, p) IN
           /\ DOMAIN s = DOMAIN t \cup Children(p)
           /\ \A c \in DOMAIN t : s[c] = t[c]
           /\ \A c \in DOMAIN s : c \notin DOMAIN t =>
                 \E q \in Quadrant :
                    /\ c = Append(p, q)
                    /\ s[c] = [boundary |-> Quarter(t[p].boundary, q),
                               nodes |-> <<>>]
           /\ IsTree(s)
<1> DEFINE s == subdivide(t, p)
<1>1. DOMAIN s = DOMAIN t \cup Children(p) /\ \A c \in DOMAIN t : s[c] = t[c]
  BY DEF subdivide
<1>2. p \in Name /\ DOMAIN t \subseteq Name /\ t[p].boundary \in Box
      /\ \A c \in DOMAIN t : t[c] \in Subtree
  BY DEF IsTree, Subtree
<1>3. ASSUME NEW c \in DOMAIN s, c \notin DOMAIN t
      PROVE  \E q \in Quadrant :
                /\ c = Append(p, q)
                /\ s[c] = [boundary |-> Quarter(t[p].boundary, q), nodes |-> <<>>]
  <2>1. PICK q \in Quadrant : c = Append(p, q)
    BY <1>1, <1>3 DEF Children
  <2>2. s[c] = [boundary |-> Quarter(t[p].boundary, Last(c)), nodes |-> <<>>]
    BY <1>1, <1>3 DEF subdivide
  <2>3. Last(c) = q
    BY <1>2, <2>1, ChildName
  <2> QED BY <2>1, <2>2, <2>3
<1>4. s = [c \in DOMAIN s |-> s[c]]
  BY DEF subdivide
<1> HIDE DEF s
<1>5. IsFiniteSet(DOMAIN s) /\ DOMAIN s \subseteq Name
  <2> DEFINE f == [q \in Quadrant |-> Append(p, q)]
  <2>1. f \in [Quadrant -> Children(p)]
        /\ \A c \in Children(p) : \E q \in Quadrant : f[q] = c
    BY DEF Children
  <2>2. IsFiniteSet(Quadrant)
    <3>1. \A n \in Nat : IsFiniteSet(1 .. n)
      BY FS_Interval
    <3>2. IsFiniteSet(1 .. 4)
      BY <3>1
    <3> QED BY <3>2 DEF Quadrant
  <2> HIDE DEF f
  <2>3. IsFiniteSet(Children(p))
    BY <2>1, <2>2, CoveredIsFinite
  <2>4. Children(p) \subseteq Name
    BY <1>2, ChildName DEF Children
  <2>5. IsFiniteSet(DOMAIN t)
    BY DEF IsTree
  <2>6. IsFiniteSet(DOMAIN t \cup Children(p))
    BY <2>3, <2>5, FS_Union
  <2> QED BY <1>1, <1>2, <2>4, <2>6
<1>6. s \in [DOMAIN s -> Subtree]
  <2>1. ASSUME NEW c \in DOMAIN s PROVE s[c] \in Subtree
    <3>1. CASE c \in DOMAIN t
      BY <1>1, <1>2, <3>1
    <3>2. CASE c \notin DOMAIN t
      <4>1. PICK q \in Quadrant :
               s[c] = [boundary |-> Quarter(t[p].boundary, q), nodes |-> <<>>]
        BY <1>3, <3>2
      <4>2. Quarter(t[p].boundary, q) \in Box /\ <<>> \in Seq(Addr)
        BY <1>2, QuarterIsBox
      <4> QED BY <4>1, <4>2 DEF Subtree
    <3> QED BY <3>1, <3>2
  <2> QED BY <1>4, <2>1
<1>7. <<>> \in DOMAIN s /\ s[<<>>].boundary = Root
  BY <1>1 DEF IsTree
<1>8. ASSUME NEW c \in DOMAIN s PROVE Hangs(s, c)
  <2>1. CASE c \in DOMAIN t
    <3>1. Hangs(t, c)
      BY <2>1 DEF IsTree
    <3> QED BY <1>1, <3>1 DEF Hangs
  <2>2. CASE c \notin DOMAIN t
    <3>1. PICK q \in Quadrant :
             /\ c = Append(p, q)
             /\ s[c] = [boundary |-> Quarter(t[p].boundary, q), nodes |-> <<>>]
      BY <1>3, <2>2
    <3>2. /\ Len(p) \in Nat /\ Len(c) = Len(p) + 1 /\ c[Len(p) + 1] = q
          /\ \A k \in 1 .. Len(p) : c[k] = p[k]
          /\ \A k \in 0 .. Len(p) : SubSeq(c, 1, k) = SubSeq(p, 1, k)
          /\ SubSeq(c, 1, Len(p) + 1) = c /\ SubSeq(p, 1, Len(p)) = p
      BY <1>2, <3>1, ChildName, EndsOfName
    <3>3. Hangs(t, p)
      BY DEF IsTree
    <3>4. ASSUME NEW k \in 1 .. Len(c)
          PROVE  /\ SubSeq(c, 1, k - 1) \in DOMAIN s /\ SubSeq(c, 1, k) \in DOMAIN s
                 /\ s[SubSeq(c, 1, k)].boundary
                       = Quarter(s[SubSeq(c, 1, k - 1)].boundary, c[k])
      <4>1. CASE k = Len(p) + 1
        <5>1. (Len(p) + 1) - 1 = Len(p) /\ Len(p) \in 0 .. Len(p)
          BY <3>2
        <5>2. SubSeq(c, 1, k - 1) = p /\ SubSeq(c, 1, k) = c /\ c[k] = q
          BY <3>2, <4>1, <5>1
        <5>3. s[c].boundary = Quarter(t[p].boundary, q) /\ s[p] = t[p] /\ p \in DOMAIN s
          BY <1>1, <3>1
        <5> QED BY <5>2, <5>3
      <4>2. CASE k # Len(p) + 1
        <5>1. k \in 1 .. Len(p) /\ k \in 0 .. Len(p) /\ k - 1 \in 0 .. Len(p)
          BY <3>2, <4>2
        <5>2. /\ SubSeq(p, 1, k - 1) \in DOMAIN t /\ SubSeq(p, 1, k) \in DOMAIN t
              /\ t[SubSeq(p, 1, k)].boundary
                    = Quarter(t[SubSeq(p, 1, k - 1)].boundary, p[k])
          BY <3>3, <5>1 DEF Hangs
        <5>3. /\ SubSeq(c, 1, k - 1) = SubSeq(p, 1, k - 1)
              /\ SubSeq(c, 1, k) = SubSeq(p, 1, k) /\ c[k] = p[k]
          BY <3>2, <5>1
        <5> QED BY <1>1, <5>2, <5>3
      <4> QED BY <4>1, <4>2
    <3> QED BY <3>4 DEF Hangs
  <2> QED BY <2>1, <2>2
<1>9. IsTree(s)
  BY <1>5, <1>6, <1>7, <1>8 DEF IsTree
<1> QED BY <1>1, <1>3, <1>9 DEF s

\* A step that keeps the boxes of the subtrees keeps what is below them.
LEMMA SameBelow ==
    ASSUME NEW t, IsTree(t), NEW s, NEW p \in DOMAIN t, NEW l,
           \A c \in DOMAIN t : s[c].boundary = t[c].boundary
    PROVE  Below(s, p, l) <=> Below(t, p, l)
BY AboveInTree DEF Below

\* subdivide moves no node.
LEMMA SubdivideKeeps ==
    ASSUME NEW t, NEW held, NEW at, TreeInv(t, held, at), NEW p \in DOMAIN t
    PROVE  TreeInv(subdivide(t, p), held, at)
<1> DEFINE s == subdivide(t, p)
<1>1. /\ IsTree(t) /\ Filed(t, held) /\ Holds(t, at) /\ IsTree(s)
      /\ DOMAIN t \subseteq DOMAIN s /\ \A c \in DOMAIN t : s[c] = t[c]
  BY Subdivided DEF TreeInv
<1>2. ASSUME NEW c \in DOMAIN s, c \notin DOMAIN t PROVE s[c].nodes = <<>>
  <2>1. \A d \in DOMAIN s : d \notin DOMAIN t =>
           \E q \in Quadrant :
              /\ d = Append(p, q)
              /\ s[d] = [boundary |-> Quarter(t[p].boundary, q), nodes |-> <<>>]
    BY <1>1, Subdivided
  <2> HIDE DEF s
  <2>2. PICK q \in Quadrant :
           s[c] = [boundary |-> Quarter(t[p].boundary, q), nodes |-> <<>>]
    BY <1>2, <2>1
  <2> QED BY <2>2
<1> HIDE DEF s
<1>3. \A c \in DOMAIN s : c \notin DOMAIN t =>
        ToSet(s[c].nodes) = {} /\ Len(s[c].nodes) = 0 /\ IsInjective(s[c].nodes)
  <2>1. ToSet(<<>>) = {} /\ Len(<<>>) = 0 /\ IsInjective(<<>>)
    BY DEF ToSet, IsInjective
  <2> QED BY <1>2, <2>1
<1>4. Found(s) = held
  <2>1. \A n : n \in Found(s) <=> n \in Found(t)
    BY <1>1, <1>3, FoundNodes
  <2> QED BY <1>1, <2>1 DEF Filed
<1>5. Filed(s, held)
  <2>1. \A c \in DOMAIN s : Len(s[c].nodes) <= CAPACITY /\ IsInjective(s[c].nodes)
    BY <1>1, <1>3, QuadtreeAssumption DEF Filed
  <2>2. \A c, d \in DOMAIN s :
           c # d => ToSet(s[c].nodes) \cap ToSet(s[d].nodes) = {}
    BY <1>1, <1>3 DEF Filed
  <2> QED BY <1>4, <2>1, <2>2 DEF Filed
<1>6. Holds(s, at)
  <2>1. ASSUME NEW c \in DOMAIN s, NEW n \in ToSet(s[c].nodes) PROVE Below(s, c, at[n])
    <3>1. c \in DOMAIN t /\ n \in ToSet(t[c].nodes)
      BY <1>1, <1>3, <2>1
    <3> QED BY <1>1, <3>1, SameBelow DEF Holds
  <2> QED BY <2>1 DEF Holds
<1> QED BY <1>1, <1>5, <1>6 DEF TreeInv, s

\* A tree that differs in the nodes only.
LEMMA SameBoxes ==
    ASSUME NEW t, IsTree(t), NEW s, DOMAIN s = DOMAIN t, s = [c \in DOMAIN s |-> s[c]],
           \A c \in DOMAIN t : s[c] \in Subtree /\ s[c].boundary = t[c].boundary
    PROVE  IsTree(s) /\ \A l : \A p \in DOMAIN t : Below(s, p, l) <=> Below(t, p, l)
<1>1. s \in [DOMAIN s -> Subtree]
  OBVIOUS
<1>2. \A p \in DOMAIN s : Hangs(s, p)
  <2>1. \A p \in DOMAIN t : Hangs(t, p)
    BY DEF IsTree
  <2> QED BY <2>1 DEF Hangs
<1>3. IsTree(s)
  BY <1>1, <1>2 DEF IsTree
<1> QED BY <1>3, SameBelow

\* push_back.
LEMMA AppendNode ==
    ASSUME NEW m \in Seq(Addr), NEW n \in Addr, n \notin ToSet(m), IsInjective(m)
    PROVE  /\ Append(m, n) \in Seq(Addr) /\ Len(Append(m, n)) = Len(m) + 1
           /\ ToSet(Append(m, n)) = ToSet(m) \cup {n} /\ IsInjective(Append(m, n))
<1> DEFINE u == Append(m, n)
<1>1. /\ u \in Seq(Addr) /\ Len(u) = Len(m) + 1 /\ Len(m) \in Nat
      /\ DOMAIN u = 1 .. Len(m) + 1 /\ DOMAIN m = 1 .. Len(m)
      /\ u[Len(m) + 1] = n /\ \A i \in 1 .. Len(m) : u[i] = m[i]
  OBVIOUS
<1> HIDE DEF u
<1>2. \A i : i \in DOMAIN u <=> i \in DOMAIN m \/ i = Len(m) + 1
  BY <1>1
<1>3. ToSet(u) = ToSet(m) \cup {n}
  BY <1>1, <1>2 DEF ToSet
<1>4. IsInjective(u)
  <2>1. \A i \in DOMAIN m : m[i] # n
    BY DEF ToSet
  <2> QED BY <1>1, <1>2, <2>1 DEF IsInjective
<1> QED BY <1>1, <1>3, <1>4 DEF u

\* A node put into a subtree with room, below boxes that have its place.
LEMMA PushKeeps ==
    ASSUME NEW t, NEW held, NEW at, TreeInv(t, held, at),
           NEW p \in DOMAIN t, ~Full(t, p),
           NEW n \in Addr, n \notin held, Below(t, p, at[n])
    PROVE  TreeInv([t EXCEPT ![p].nodes = Append(@, n)], held \cup {n}, at)
<1> DEFINE s == [t EXCEPT ![p].nodes = Append(@, n)]
           m == Append(t[p].nodes, n)
<1>1. IsTree(t) /\ Filed(t, held) /\ Holds(t, at)
  BY DEF TreeInv
<1>2. /\ \A c \in DOMAIN t : /\ t[c] \in Subtree /\ t[c].nodes \in Seq(Addr)
                             /\ t[c].boundary \in Box
      /\ t = [c \in DOMAIN t |-> t[c]]
  BY <1>1 DEF IsTree, Subtree
<1>3. Len(t[p].nodes) < CAPACITY /\ Len(t[p].nodes) \in Nat /\ CAPACITY \in Nat
  BY <1>2, QuadtreeAssumption DEF Full
<1>4. \A c \in DOMAIN t : n \notin ToSet(t[c].nodes)
  BY <1>1, FoundNodes DEF Filed
<1>5. /\ m \in Seq(Addr) /\ Len(m) <= CAPACITY
      /\ ToSet(m) = ToSet(t[p].nodes) \cup {n} /\ IsInjective(m)
  BY <1>1, <1>2, <1>3, <1>4, AppendNode DEF Filed
<1>6. /\ DOMAIN s = DOMAIN t /\ s = [c \in DOMAIN s |-> s[c]]
      /\ \A c \in DOMAIN t : c # p => s[c] = t[c]
      /\ s[p] = [t[p] EXCEPT !.nodes = m]
  BY <1>2
<1> HIDE DEF s, m
<1>7. s[p] \in Subtree /\ s[p].nodes = m /\ s[p].boundary = t[p].boundary
  BY <1>2, <1>5, <1>6 DEF Subtree
<1>8. \A c \in DOMAIN t : s[c] \in Subtree /\ s[c].boundary = t[c].boundary
  BY <1>2, <1>6, <1>7
<1>9. IsTree(s) /\ \A l : \A c \in DOMAIN t : Below(s, c, l) <=> Below(t, c, l)
  BY <1>1, <1>6, <1>8, SameBoxes
<1>10. Filed(s, held \cup {n})
  <2>0. \A c \in DOMAIN t : \A x :
           x \in ToSet(s[c].nodes) <=> x \in ToSet(t[c].nodes) \/ (c = p /\ x = n)
    <3>1. TAKE c \in DOMAIN t
    <3>2. CASE c = p
      BY <1>5, <1>7, <3>2
    <3>3. CASE c # p
      BY <1>6, <3>3
    <3> QED BY <3>2, <3>3
  <2>1. Found(s) = held \cup {n}
    <3>1. \A x : x \in Found(s) <=> x \in Found(t) \/ x = n
      <4>1. DOMAIN s = DOMAIN t
        BY <1>6
      <4> QED BY <2>0, <4>1, FoundNodes
    <3> QED BY <1>1, <3>1 DEF Filed
  <2>2. \A c \in DOMAIN s : Len(s[c].nodes) <= CAPACITY /\ IsInjective(s[c].nodes)
    BY <1>1, <1>5, <1>6, <1>7 DEF Filed
  <2>3. \A c, d \in DOMAIN s :
           c # d => ToSet(s[c].nodes) \cap ToSet(s[d].nodes) = {}
    <3>1. \A c, d \in DOMAIN t :
             c # d => ToSet(t[c].nodes) \cap ToSet(t[d].nodes) = {}
      BY <1>1 DEF Filed
    <3>2. SUFFICES ASSUME NEW c \in DOMAIN t, NEW d \in DOMAIN t, c # d,
                          NEW x, x \in ToSet(s[c].nodes), x \in ToSet(s[d].nodes)
                   PROVE  FALSE
      BY <1>6
    <3> QED BY <1>4, <2>0, <3>1, <3>2
  <2> QED BY <2>1, <2>2, <2>3 DEF Filed
<1>11. Holds(s, at)
  <2>1. ASSUME NEW c \in DOMAIN s, NEW x \in ToSet(s[c].nodes) PROVE Below(t, c, at[x])
    BY <1>1, <1>5, <1>6, <1>7, <2>1 DEF Holds
  <2> QED BY <1>6, <1>9, <2>1 DEF Holds
<1> QED BY <1>9, <1>10, <1>11 DEF TreeInv, s

\* insert files the node, at any capacity and however deep it has to go.
LEMMA InsertKeeps ==
    ASSUME NEW t, NEW held, NEW at, TreeInv(t, held, at),
           NEW n \in Addr, n \notin held, at[n] \in Place, contains(Root, at[n])
    PROVE  TreeInv(insert(t, n, at[n]), held \cup {n}, at)
<1> DEFINE l == at[n]
           p == Target(t, l)
           s == IF p \in DOMAIN t THEN t ELSE subdivide(t, Front(p))
<1>1. IsTree(t)
  BY DEF TreeInv
<1>2. insert(t, n, l) = [s EXCEPT ![p].nodes = Append(@, n)]
  BY DEF insert
<1>3. /\ Reaches(t, p, l) /\ ~Full(t, p)
      /\ p \notin DOMAIN t =>
           \E q \in DOMAIN t : \E x \in Quadrant : p = Append(q, x)
  BY <1>1, TargetFound
<1> HIDE DEF p
<1>4. TreeInv(s, held, at) /\ p \in DOMAIN s /\ ~Full(s, p) /\ Below(s, p, l)
  <2>1. CASE p \in DOMAIN t
    BY <1>1, <1>3, <2>1, ReachedIsBelow
  <2>2. CASE p \notin DOMAIN t
    <3>1. PICK q \in DOMAIN t : \E x \in Quadrant : p = Append(q, x)
      BY <1>3, <2>2
    <3>2. PICK x \in Quadrant : p = Append(q, x)
      BY <3>1
    <3>3. q \in Name /\ t[q].boundary \in Box
      BY <1>1 DEF IsTree, Subtree
    <3>4. /\ Len(q) \in Nat /\ Len(p) = Len(q) + 1 /\ SubSeq(p, 1, Len(q)) = q
          /\ \A k \in 0 .. Len(q) : SubSeq(p, 1, k) = SubSeq(q, 1, k)
          /\ SubSeq(p, 1, Len(p)) = p /\ SubSeq(q, 1, Len(q)) = q
      <4>1. Len(q) \in Nat /\ Len(q) \in 0 .. Len(q) /\ SubSeq(q, 1, Len(q)) = q
        BY <3>3, EndsOfName
      <4> QED BY <3>2, <3>3, <4>1, ChildName, EndsOfName
    <3>5. Front(p) = q
      <4>1. Len(p) - 1 = Len(q)
        BY <3>4
      <4> QED BY <3>4, <4>1 DEF Front
    <3>6. Reaches(t, q, l) /\ x = First(t[q].boundary, l)
      BY <1>3, <3>2, <3>3, ReachesChild
    <3>7. Below(t, q, l)
      BY <1>1, <3>6, ReachedIsBelow
    <3>8. contains(t[q].boundary, l)
      <4>1. Len(q) \in 0 .. Len(q)
        BY <3>4
      <4> QED BY <3>4, <3>7, <4>1 DEF Below
    <3>9. contains(Quarter(t[q].boundary, x), l)
      BY <3>3, <3>6, <3>8, FirstContains
    <3>10. s = subdivide(t, q)
      BY <2>2, <3>5
    <3> HIDE DEF s
    <3>11. TreeInv(s, held, at)
      BY <3>10, SubdivideKeeps
    <3>12. /\ DOMAIN s = DOMAIN t \cup Children(q) /\ \A c \in DOMAIN t : s[c] = t[c]
           /\ \A c \in DOMAIN s : c \notin DOMAIN t =>
                 \E y \in Quadrant :
                    /\ c = Append(q, y)
                    /\ s[c] = [boundary |-> Quarter(t[q].boundary, y),
                               nodes |-> <<>>]
      <4> DEFINE v == subdivide(t, q)
      <4>1. /\ DOMAIN v = DOMAIN t \cup Children(q)
            /\ \A c \in DOMAIN t : v[c] = t[c]
            /\ \A c \in DOMAIN v : c \notin DOMAIN t =>
                  \E y \in Quadrant :
                     /\ c = Append(q, y)
                     /\ v[c] = [boundary |-> Quarter(t[q].boundary, y),
                                nodes |-> <<>>]
        BY <1>1, Subdivided
      <4>2. s = v
        BY <3>10
      <4> HIDE DEF v
      <4> QED BY <4>1, <4>2
    <3>13. p \in DOMAIN s
      BY <3>2, <3>12 DEF Children
    <3>14. s[p] = [boundary |-> Quarter(t[q].boundary, x), nodes |-> <<>>]
      <4>1. PICK y \in Quadrant :
              /\ p = Append(q, y)
              /\ s[p] = [boundary |-> Quarter(t[q].boundary, y), nodes |-> <<>>]
        BY <2>2, <3>12, <3>13
      <4>2. x = y
        <5>1. Append(q, x)[Len(q) + 1] = x /\ Append(q, y)[Len(q) + 1] = y
          BY <3>3, ChildName
        <5> QED BY <3>2, <4>1, <5>1
      <4> QED BY <4>1, <4>2
    <3>15. ~Full(s, p)
      <4>1. s[p].nodes = <<>> /\ Len(<<>>) = 0
        BY <3>14
      <4> QED BY <4>1, QuadtreeAssumption DEF Full
    <3>16. Below(s, p, l)
      <4>1. Below(s, q, l)
        BY <1>1, <3>7, <3>12, SameBelow
      <4>2. ASSUME NEW k \in 0 .. Len(p)
            PROVE  contains(s[SubSeq(p, 1, k)].boundary, l)
        <5>1. CASE k = Len(p)
          <6>1. s[p].boundary = Quarter(t[q].boundary, x)
            BY <3>14
          <6> QED BY <3>4, <3>9, <5>1, <6>1
        <5>2. CASE k # Len(p)
          <6>1. k \in 0 .. Len(q)
            BY <3>4, <5>2
          <6> QED BY <3>4, <4>1, <6>1 DEF Below
        <5> QED BY <5>1, <5>2
      <4> QED BY <4>2 DEF Below
    <3> QED BY <3>11, <3>13, <3>15, <3>16
  <2> QED BY <2>1, <2>2
<1> HIDE DEF s
<1> QED BY <1>2, <1>4, PushKeeps

-----------------------------------------------------------------------------
(* remove. *)

\* erase.
LEMMA WithoutNode ==
    ASSUME NEW m \in Seq(Addr), IsInjective(m), NEW n
    PROVE  /\ Without(m, n) \in Seq(Addr) /\ Len(Without(m, n)) <= Len(m)
           /\ ToSet(Without(m, n)) = ToSet(m) \ {n} /\ IsInjective(Without(m, n))
<1>1. Len(m) \in Nat /\ DOMAIN m = 1 .. Len(m)
  OBVIOUS
<1>2. CASE n \notin ToSet(m)
  BY <1>1, <1>2 DEF Without
<1>3. CASE n \in ToSet(m)
  <2>1. PICK k \in DOMAIN m : m[k] = n
    BY <1>3 DEF ToSet
  <2>2. \A j \in DOMAIN m : m[j] = n => j = k
    BY <2>1 DEF IsInjective
  <2>3. (CHOOSE i \in DOMAIN m : m[i] = n /\ \A j \in 1 .. i - 1 : m[j] # n) = k
    <3>1. \A j \in 1 .. k - 1 : j \in DOMAIN m /\ j # k
      BY <1>1
    <3> QED BY <2>1, <2>2, <3>1
  <2> DEFINE u == Without(m, n)
  <2>4. u = RemoveAt(m, k)
    BY <1>3, <2>3 DEF Without
  <2>5. /\ u \in Seq(Addr) /\ DOMAIN u = 1 .. Len(m) - 1
        /\ \A j \in 1 .. Len(m) - 1 : u[j] = IF j < k THEN m[j] ELSE m[j + 1]
    BY <2>4, EntriesOfRemoveAt
  <2> HIDE DEF u
  <2>6. Len(u) = Len(m) - 1
    <3>1. Len(u) \in Nat /\ DOMAIN u = 1 .. Len(u) /\ Len(m) - 1 \in Nat
      <4>1. Len(u) \in Nat /\ DOMAIN u = 1 .. Len(u)
        BY <2>5
      <4>2. Len(m) - 1 \in Nat
        BY <1>1, <2>1
      <4> QED BY <4>1, <4>2
    <3>2. \A a, b \in Nat : 1 .. a = 1 .. b => a = b
      <4>1. SUFFICES ASSUME NEW a \in Nat, NEW b \in Nat, a < b PROVE 1 .. a # 1 .. b
        OBVIOUS
      <4>2. b \in 1 .. b /\ b \notin 1 .. a
        BY <4>1
      <4> QED BY <4>2
    <3> QED BY <2>5, <3>1, <3>2
  <2>7. ToSet(u) = ToSet(m) \ {n}
    <3>1. ASSUME NEW x \in ToSet(u) PROVE x \in ToSet(m) \ {n}
      <4>1. PICK j \in 1 .. Len(m) - 1 : x = u[j]
        BY <2>5, <3>1 DEF ToSet
      <4>2. PICK i \in DOMAIN m : x = m[i] /\ i # k
        <5>1. CASE j < k
          BY <1>1, <2>1, <2>5, <4>1, <5>1
        <5>2. CASE ~(j < k)
          <6>1. j + 1 \in DOMAIN m /\ j + 1 # k /\ x = m[j + 1]
            BY <1>1, <2>1, <2>5, <4>1, <5>2
          <6> QED BY <6>1
        <5> QED BY <5>1, <5>2
      <4> QED BY <2>2, <4>2 DEF ToSet
    <3>2. ASSUME NEW x \in ToSet(m), x # n PROVE x \in ToSet(u)
      <4>1. PICK j \in DOMAIN m : x = m[j]
        BY <3>2 DEF ToSet
      <4>2. j # k
        BY <2>1, <3>2, <4>1
      <4>3. \/ j < k /\ j \in 1 .. Len(m) - 1 /\ u[j] = m[j]
            \/ j - 1 \in 1 .. Len(m) - 1 /\ ~(j - 1 < k) /\ u[j - 1] = m[j]
        <5>1. CASE j < k
          BY <1>1, <2>1, <2>5, <5>1
        <5>2. CASE ~(j < k)
          <6>1. j - 1 \in 1 .. Len(m) - 1 /\ ~(j - 1 < k) /\ (j - 1) + 1 = j
            BY <1>1, <2>1, <4>2, <5>2
          <6> QED BY <2>5, <6>1
        <5> QED BY <5>1, <5>2
      <4> QED BY <2>5, <4>1, <4>3 DEF ToSet
    <3> QED BY <3>1, <3>2
  <2>8. IsInjective(u)
    <3>1. SUFFICES ASSUME NEW i \in DOMAIN u, NEW j \in DOMAIN u, u[i] = u[j]
                   PROVE  i = j
      BY DEF IsInjective
    <3> DEFINE up(x) == IF x < k THEN x ELSE x + 1
    <3>2. /\ up(i) \in DOMAIN m /\ up(j) \in DOMAIN m
          /\ u[i] = m[up(i)] /\ u[j] = m[up(j)]
      BY <1>1, <2>1, <2>5
    <3>3. up(i) = up(j)
      <4> HIDE DEF up
      <4> QED BY <3>1, <3>2 DEF IsInjective
    <3> QED BY <1>1, <2>1, <2>5, <3>3
  <2> QED BY <1>1, <2>5, <2>6, <2>7, <2>8 DEF u
<1> QED BY <1>2, <1>3

\* remove comes to the node and takes it out, whatever was filed after it.
LEMMA RemoveKeeps ==
    ASSUME NEW t, NEW held, NEW at, TreeInv(t, held, at), NEW n \in held
    PROVE  TreeInv(remove(t, n, at[n]), held \ {n}, at)
<1> DEFINE s == remove(t, n, at[n])
           hit(p) == \A q \in Above(p) : contains(t[q].boundary, at[n])
<1>1. IsTree(t) /\ Filed(t, held) /\ Holds(t, at)
  BY DEF TreeInv
<1>2. \A c \in DOMAIN t : /\ t[c] \in Subtree /\ t[c].nodes \in Seq(Addr)
                          /\ t[c].boundary \in Box
  BY <1>1 DEF IsTree, Subtree
<1>3. /\ DOMAIN s = DOMAIN t /\ s = [c \in DOMAIN s |-> s[c]]
      /\ \A c \in DOMAIN t :
            s[c] = IF hit(c) THEN [t[c] EXCEPT !.nodes = Without(t[c].nodes, n)]
                   ELSE t[c]
  BY DEF remove
<1>4. \A c \in DOMAIN t : n \in ToSet(t[c].nodes) => hit(c)
  BY <1>1 DEF Holds, Below, Above
<1> HIDE DEF s, hit
<1>5. ASSUME NEW c \in DOMAIN t
      PROVE  /\ s[c] \in Subtree /\ s[c].boundary = t[c].boundary
             /\ Len(s[c].nodes) <= CAPACITY /\ IsInjective(s[c].nodes)
             /\ ToSet(s[c].nodes) = ToSet(t[c].nodes) \ {n}
  <2>1. Len(t[c].nodes) <= CAPACITY /\ IsInjective(t[c].nodes)
    BY <1>1 DEF Filed
  <2>2. CASE hit(c)
    <3> DEFINE u == Without(t[c].nodes, n)
    <3>1. /\ u \in Seq(Addr) /\ Len(u) <= Len(t[c].nodes)
          /\ ToSet(u) = ToSet(t[c].nodes) \ {n} /\ IsInjective(u)
      BY <1>2, <2>1, WithoutNode
    <3>2. s[c] = [t[c] EXCEPT !.nodes = u]
      BY <1>3, <2>2
    <3> HIDE DEF u
    <3>3. s[c] \in Subtree /\ s[c].boundary = t[c].boundary /\ s[c].nodes = u
      BY <1>2, <3>1, <3>2 DEF Subtree
    <3>4. Len(u) \in Nat /\ Len(t[c].nodes) \in Nat
      BY <1>2, <3>1
    <3> QED BY <2>1, <3>1, <3>3, <3>4, QuadtreeAssumption
  <2>3. CASE ~hit(c)
    BY <1>2, <1>3, <1>4, <2>1, <2>3
  <2> QED BY <2>2, <2>3
<1>6. IsTree(s) /\ \A l : \A c \in DOMAIN t : Below(s, c, l) <=> Below(t, c, l)
  BY <1>1, <1>3, <1>5, SameBoxes
<1>7. Filed(s, held \ {n})
  <2>1. Found(s) = held \ {n}
    <3>1. \A c \in DOMAIN t : \A x :
             x \in ToSet(s[c].nodes) <=> x \in ToSet(t[c].nodes) /\ x # n
      BY <1>5
    <3>2. \A x : x \in Found(s) <=> x \in Found(t) /\ x # n
      <4>1. DOMAIN s = DOMAIN t
        BY <1>3
      <4> QED BY <3>1, <4>1, FoundNodes
    <3> QED BY <1>1, <3>2 DEF Filed
  <2>2. \A c, d \in DOMAIN s :
           c # d => ToSet(s[c].nodes) \cap ToSet(s[d].nodes) = {}
    BY <1>1, <1>3, <1>5 DEF Filed
  <2> QED BY <1>3, <1>5, <2>1, <2>2 DEF Filed
<1>8. Holds(s, at)
  BY <1>1, <1>3, <1>5, <1>6 DEF Holds
<1> QED BY <1>6, <1>7, <1>8 DEF TreeInv, s

-----------------------------------------------------------------------------
(* createQuadtree. *)

LEMMA EmptyTree == \A at : TreeInv(Empty, {}, at)
<1>1. /\ DOMAIN Empty = {<<>>} /\ Empty[<<>>].boundary = Root
      /\ Empty[<<>>].nodes = <<>> /\ Empty \in [{<<>>} -> Subtree]
  <2>1. <<>> \in Seq(Addr)
    OBVIOUS
  <2> QED BY <2>1, RootIsBox DEF Empty, Subtree
<1>2. Len(<<>>) = 0 /\ ToSet(<<>>) = {} /\ IsInjective(<<>>) /\ <<>> \in Name
      /\ \A k : k \notin 1 .. 0
  BY DEF ToSet, IsInjective, Name
<1>3. IsTree(Empty)
  <2>1. IsFiniteSet(DOMAIN Empty)
    BY <1>1, FS_Singleton
  <2>2. Hangs(Empty, <<>>)
    BY <1>2 DEF Hangs
  <2> QED BY <1>1, <1>2, <2>1, <2>2 DEF IsTree
<1>4. Found(Empty) = {}
  BY <1>1, <1>2, FoundNodes
<1>5. Filed(Empty, {})
  BY <1>1, <1>2, <1>4, QuadtreeAssumption DEF Filed
<1>6. \A at : Holds(Empty, at)
  BY <1>1, <1>2 DEF Holds
<1> QED BY <1>3, <1>5, <1>6 DEF TreeInv

\* Where nodes that are not filed are does not matter.
LEMMA SamePlaces ==
    ASSUME NEW t, NEW held, NEW at, TreeInv(t, held, at),
           NEW to, \A n \in held : to[n] = at[n]
    PROVE  TreeInv(t, held, to)
<1>1. \A p \in DOMAIN t : \A n \in ToSet(t[p].nodes) : n \in held
  BY FoundNodes DEF TreeInv, Filed
<1> QED BY <1>1 DEF TreeInv, Holds

\* The tree after one more entry of the batch.
After(t, b, map, k) ==
    IF map[b[k].id] = NoAddr THEN t
    ELSE insert(t, map[b[k].id], Coordinate[b[k].loc])

\* What Filled computes: the last of the trees that the entries lead to.
LEMMA FilledSteps ==
    ASSUME NEW b, Len(b) \in Nat, NEW map
    PROVE  \E u : /\ u[0] = Empty
                  /\ \A k \in 1 .. Len(b) : u[k] = After(u[k - 1], b, map, k)
                  /\ Filled(b, map) = u[Len(b)]
<1> DEFINE n == Len(b)
           Fills(t, m) ==
               t = [k \in 0 .. m |-> IF k = 0 THEN Empty ELSE After(t[k - 1], b, map, k)]
           upTo == CHOOSE t : Fills(t, n)
           Able == {m \in Nat : \E t : Fills(t, m)}
<1>1. n \in Nat
  OBVIOUS
<1>2. 0 \in Able
  <2> DEFINE t == [k \in 0 .. 0 |-> Empty]
  <2>1. Fills(t, 0)
    OBVIOUS
  <2> QED BY <2>1
<1> HIDE DEF n
<1>3. ASSUME NEW m \in Able PROVE m + 1 \in Able
  <2>1. PICK t : Fills(t, m)
    BY <1>3
  <2> DEFINE u == [k \in 0 .. m + 1 |-> IF k = m + 1 THEN After(t[m], b, map, m + 1)
                                        ELSE t[k]]
  <2>2. m \in Nat
    BY <1>3
  <2>3. ASSUME NEW k \in 0 .. m + 1
        PROVE  u[k] = IF k = 0 THEN Empty ELSE After(u[k - 1], b, map, k)
    <3>1. CASE k = m + 1
      <4>1. u[k] = After(t[m], b, map, k) /\ k # 0 /\ k - 1 = m
            /\ m \in 0 .. m + 1 /\ m # m + 1
        BY <2>2, <3>1
      <4>2. u[m] = t[m]
        BY <4>1
      <4> QED BY <4>1, <4>2
    <3>2. CASE k # m + 1
      <4>1. k \in 0 .. m /\ u[k] = t[k] /\ (k # 0 => k - 1 \in 0 .. m + 1 /\ k - 1 # m + 1)
        BY <2>2, <3>2
      <4>2. t[k] = IF k = 0 THEN Empty ELSE After(t[k - 1], b, map, k)
        BY <2>1, <4>1
      <4>3. k # 0 => u[k - 1] = t[k - 1]
        BY <4>1
      <4> QED BY <4>1, <4>2, <4>3
    <3> QED BY <3>1, <3>2
  <2>4. u = [k \in 0 .. m + 1 |-> u[k]]
    OBVIOUS
  <2> HIDE DEF u
  <2>5. Fills(u, m + 1)
    BY <2>3, <2>4
  <2>6. m + 1 \in Nat
    BY <2>2
  <2> HIDE DEF Fills
  <2> QED BY <2>5, <2>6
<1> HIDE DEF Able
<1>4. n \in Able
  <2> DEFINE S == {k \in Nat : k - 1 \in Able}
  <2>1. 1 \in S
    BY <1>2
  <2>2. \A k \in 1 .. n + 1 : k \in S /\ k < n + 1 => k + 1 \in S
    <3>1. SUFFICES ASSUME NEW k \in 1 .. n + 1, k - 1 \in Able
                   PROVE  k + 1 \in Nat /\ (k + 1) - 1 \in Able
      OBVIOUS
    <3>2. (k - 1) + 1 \in Able
      BY <1>3, <3>1
    <3>3. (k - 1) + 1 = k /\ (k + 1) - 1 = k /\ k + 1 \in Nat
      BY <1>1
    <3> QED BY <3>2, <3>3
  <2>3. n + 1 \in Nat /\ n + 1 \in 1 .. n + 1 /\ (n + 1) - 1 = n
    BY <1>1
  <2> HIDE DEF S
  <2>4. 1 .. n + 1 \subseteq S
    BY <2>1, <2>2, <2>3, Steps
  <2>5. n + 1 \in S
    BY <2>3, <2>4
  <2> QED BY <2>3, <2>5 DEF S
<1>5. Fills(upTo, n)
  BY <1>4 DEF Able
<1>6. Filled(b, map) = upTo[n]
  BY DEF Filled, After, n
<1> HIDE DEF upTo
<1>7. upTo[0] = Empty /\ \A k \in 1 .. n : upTo[k] = After(upTo[k - 1], b, map, k)
  BY <1>1, <1>5
<1> QED BY <1>6, <1>7 DEF n

\* createQuadtree files the entries it accepts.
LEMMA FilledHolds ==
    ASSUME NEW b \in Batch, NEW n \in 0 .. Len(b), NEW map, NEW at,
           NEW place \in [1 .. n -> Addr],
           \A j, k \in 1 .. n : place[j] = place[k] => j = k,
           \A k \in 1 .. n : ValidPayload(b[k]) /\ map[b[k].id] = place[k],
           \A k \in 1 .. Len(b) : k > n => map[b[k].id] = NoAddr,
           \A k \in 1 .. n : at[place[k]] = Coordinate[b[k].loc]
    PROVE  TreeInv(Filled(b, map), {place[k] : k \in 1 .. n}, at)
<1>1. Len(b) \in Nat /\ n \in Nat
  BY ConstantAssumption
<1>2. PICK u : /\ u[0] = Empty
               /\ \A k \in 1 .. Len(b) : u[k] = After(u[k - 1], b, map, k)
               /\ Filled(b, map) = u[Len(b)]
  BY <1>1, FilledSteps
<1> DEFINE filed(j) == {place[k] : k \in {m \in 1 .. n : m <= j}}
           S == {k \in Nat : TreeInv(u[k - 1], filed(k - 1), at)}
<1>3. 1 \in S
  <2>1. filed(0) = {}
    OBVIOUS
  <2> HIDE DEF filed
  <2>2. TreeInv(u[0], filed(0), at)
    <3>1. TreeInv(Empty, {}, at) /\ u[0] = Empty
      BY <1>2, EmptyTree
    <3> QED BY <2>1, <3>1
  <2>3. 1 \in Nat /\ 1 - 1 = 0
    OBVIOUS
  <2> QED BY <2>2, <2>3
<1>4. ASSUME NEW k \in 1 .. Len(b), TreeInv(u[k - 1], filed(k - 1), at)
      PROVE  TreeInv(u[k], filed(k), at)
  <2>1. u[k] = After(u[k - 1], b, map, k)
    BY <1>2
  <2>2. CASE k <= n
    <3>1. k \in 1 .. n /\ k \in Nat
      BY <1>1, <2>2
    <3> DEFINE a == place[k]
    <3>2. a \in Addr /\ a # NoAddr /\ map[b[k].id] = a /\ at[a] = Coordinate[b[k].loc]
      <4>1. a \in Addr
        BY <3>1
      <4>2. map[b[k].id] = a /\ at[a] = Coordinate[b[k].loc]
        BY <3>1
      <4> QED BY <4>1, <4>2, ConstantAssumption
    <3>3. Coordinate[b[k].loc] \in Place /\ contains(Root, Coordinate[b[k].loc])
      <4>1. b[k].loc \in OnEarth /\ b[k].loc \in Loc
        BY <3>1, ConstantAssumption DEF ValidPayload
      <4> QED BY <4>1, GeometryAssumption DEF Place
    <3>4. a \notin filed(k - 1)
      <4>1. SUFFICES ASSUME NEW m \in 1 .. n, m <= k - 1, a = place[m] PROVE FALSE
        OBVIOUS
      <4>2. m = k
        BY <3>1, <4>1
      <4> QED BY <3>1, <4>1, <4>2
    <3>5. filed(k) = filed(k - 1) \cup {a}
      <4>1. \A m \in 1 .. n : m <= k <=> m <= k - 1 \/ m = k
        BY <3>1
      <4> QED BY <3>1, <4>1
    <3> HIDE DEF a, filed
    <3>6. u[k] = insert(u[k - 1], a, at[a])
      BY <2>1, <3>2 DEF After
    <3>7. TreeInv(insert(u[k - 1], a, at[a]), filed(k - 1) \cup {a}, at)
      BY <1>4, <3>2, <3>3, <3>4, InsertKeeps
    <3> QED BY <3>5, <3>6, <3>7
  <2>3. CASE ~(k <= n)
    <3>1. map[b[k].id] = NoAddr
      BY <1>1, <2>3
    <3>2. filed(k) = filed(k - 1)
      <4>1. \A m \in 1 .. n : m <= k /\ m <= k - 1
        BY <1>1, <2>3
      <4> QED BY <4>1
    <3> QED BY <1>4, <2>1, <3>1, <3>2 DEF After
  <2> QED BY <2>2, <2>3
<1> HIDE DEF filed
<1>5. \A k \in 1 .. Len(b) + 1 : k \in S /\ k < Len(b) + 1 => k + 1 \in S
  <2>1. SUFFICES ASSUME NEW k \in 1 .. Len(b) + 1, k < Len(b) + 1,
                        TreeInv(u[k - 1], filed(k - 1), at)
                 PROVE  TreeInv(u[k], filed(k), at) /\ (k + 1) - 1 = k /\ k + 1 \in Nat
    OBVIOUS
  <2>2. k \in 1 .. Len(b) /\ (k + 1) - 1 = k /\ k + 1 \in Nat
    BY <1>1, <2>1
  <2> QED BY <1>4, <2>1, <2>2
<1>6. Len(b) + 1 \in Nat /\ Len(b) + 1 \in 1 .. Len(b) + 1 /\ (Len(b) + 1) - 1 = Len(b)
  BY <1>1
<1> HIDE DEF S
<1>7. Len(b) + 1 \in S
  <2>1. 1 .. Len(b) + 1 \subseteq S
    BY <1>3, <1>5, <1>6, Steps
  <2> QED BY <1>6, <2>1
<1>8. TreeInv(u[Len(b)], filed(Len(b)), at)
  BY <1>6, <1>7 DEF S
<1>9. filed(Len(b)) = {place[k] : k \in 1 .. n}
  <2>1. \A m \in 1 .. n : m <= Len(b)
    BY <1>1
  <2> QED BY <2>1 DEF filed
<1> QED BY <1>2, <1>8, <1>9

-----------------------------------------------------------------------------
(* The Engine with its index. *)

\* The inductive invariant: the index files the nodes the map owns, each below
\* boxes with the place it is at.
IndexInv == MeshInv /\ TreeInv(quadtree, tree, Whereabouts)

\* Where the nodes of the tree are.
LEMMA Located ==
    ASSUME MeshInv
    PROVE  \A a \in tree : /\ a \in Addr /\ heap[a] # Blank /\ heap[a].loc \in Loc
                           /\ Whereabouts[a] = Coordinate[heap[a].loc]
                           /\ Whereabouts[a] \in Place
<1>1. TAKE a \in tree
<1>2. a \in Addr /\ heap[a] \in Cell
  BY LiveCells DEF MeshInv, TypeOK, MeshTypeOK
<1>3. heap[a] # Blank /\ heap[a].loc \in Loc
  BY <1>2, BlankAssumption DEF Cell
<1>4. Whereabouts[a] = Coordinate[heap[a].loc]
  BY <1>2, <1>3 DEF Whereabouts
<1> QED BY <1>2, <1>3, <1>4, GeometryAssumption DEF Place

LEMMA LocatedNext ==
    ASSUME MeshInv'
    PROVE  \A a \in tree' : Whereabouts'[a] = Coordinate[heap'[a].loc]
<1>1. TAKE a \in tree'
<1>2. /\ heap' \in [Addr -> Cell \cup {Blank}] /\ tree' \subseteq Addr /\ tree' = Live'
      /\ \A i \in Id : id2PtrMap'[i] # NoAddr => heap'[id2PtrMap'[i]] # Blank
  BY DEF MeshInv, TypeOK, MeshTypeOK, IndexMatchesTree, Registered, NodeOf
<1>3. a \in Addr /\ heap'[a] # Blank
  BY <1>2 DEF Live
<1> QED BY <1>3 DEF Whereabouts

\* A place the Engine accepts is in the box of the root.
LEMMA AcceptedPlace ==
    ASSUME NEW p \in Payload, ValidPayload(p)
    PROVE  Coordinate[p.loc] \in Place /\ contains(Root, Coordinate[p.loc])
<1>1. p.loc \in OnEarth /\ p.loc \in Loc
  BY ConstantAssumption DEF ValidPayload
<1> QED BY <1>1, GeometryAssumption DEF Place

LEMMA InitIndexed == IndexInit => IndexInv
<1>1. SUFFICES ASSUME IndexInit PROVE IndexInv
  OBVIOUS
<1>2. MeshInv /\ tree = {} /\ quadtree = Empty
  BY <1>1, InitEstablishesInv DEF IndexInit, Init
<1>3. TreeInv(Empty, {}, Whereabouts)
  BY EmptyTree
<1> QED BY <1>2, <1>3 DEF IndexInv

LEMMA RebootIndexed ==
    ASSUME IndexInv, NEW b \in Batch, IndexReboot(b), MeshInv'
    PROVE  TreeInv(quadtree', tree', Whereabouts')
<1>1. InitialReboot(b) /\ quadtree' = Filled(b, id2PtrMap')
  BY DEF IndexReboot
<1>2. PICK n \in 0 .. Len(b) : \E place \in Placements[n] : Placed(b, n, place)
  BY <1>1, InitialRebootPlaces
<1>3. PICK place \in Placements[n] : Placed(b, n, place)
  BY <1>2
<1>4. /\ b \in Seq(Payload) /\ Len(b) \in Nat /\ n \in Nat
      /\ \A k \in 1 .. Len(b) : b[k] \in Payload /\ b[k].id \in Id
      /\ \A j, k \in 1 .. Len(b) : b[j].id = b[k].id => j = k
  <2>1. b \in Seq(Payload) /\ Len(b) \in Nat /\ DOMAIN b = 1 .. Len(b)
    BY ConstantAssumption
  <2>2. \A k \in 1 .. Len(b) : b[k] \in Payload /\ b[k].id \in Id
    BY <2>1, ConstantAssumption
  <2> QED BY <2>1, <2>2, CallerAssumption
<1>5. /\ place \in [1 .. n -> Addr]
      /\ \A j, k \in 1 .. n : place[j] = place[k] => j = k
      /\ \A k \in 1 .. n : ValidPayload(b[k])
      /\ \A k \in 1 .. n : heap'[place[k]] = NewCell(b[k], NearPlaced(b, n, place, k))
      /\ id2PtrMap' = [i \in Id |->
            IF \E k \in 1 .. n : b[k].id = i
            THEN place[CHOOSE k \in 1 .. n : b[k].id = i]
            ELSE NoAddr]
      /\ tree' = {place[k] : k \in 1 .. n}
  BY <1>3 DEF Placed
<1>6. ASSUME NEW k \in 1 .. n PROVE id2PtrMap'[b[k].id] = place[k]
  <2>1. k \in 1 .. Len(b) /\ \A j \in 1 .. n : j \in 1 .. Len(b)
    BY <1>4
  <2>2. (CHOOSE j \in 1 .. n : b[j].id = b[k].id) = k
    BY <1>4, <2>1
  <2> QED BY <1>4, <1>5, <2>1, <2>2
<1>7. ASSUME NEW k \in 1 .. Len(b), k > n PROVE id2PtrMap'[b[k].id] = NoAddr
  <2>1. \A j \in 1 .. n : j \in 1 .. Len(b) /\ j # k
    BY <1>4, <1>7
  <2>2. ~(\E j \in 1 .. n : b[j].id = b[k].id)
    BY <1>4, <2>1
  <2> QED BY <1>4, <1>5, <2>2
<1>8. ASSUME NEW k \in 1 .. n PROVE Whereabouts'[place[k]] = Coordinate[b[k].loc]
  <2>1. place[k] \in tree'
    BY <1>5
  <2>2. heap'[place[k]].loc = b[k].loc
    <3>1. heap'[place[k]] = NewCell(b[k], NearPlaced(b, n, place, k))
      BY <1>5
    <3> QED BY <3>1 DEF NewCell
  <2>3. Whereabouts'[place[k]] = Coordinate[heap'[place[k]].loc]
    <3>1. \A a \in tree' : Whereabouts'[a] = Coordinate[heap'[a].loc]
      BY LocatedNext
    <3> QED BY <2>1, <3>1
  <2> QED BY <2>2, <2>3
<1> DEFINE map == id2PtrMap'
           at == Whereabouts'
<1>9. /\ \A k \in 1 .. n : ValidPayload(b[k]) /\ map[b[k].id] = place[k]
      /\ \A k \in 1 .. Len(b) : k > n => map[b[k].id] = NoAddr
      /\ \A k \in 1 .. n : at[place[k]] = Coordinate[b[k].loc]
  BY <1>5, <1>6, <1>7, <1>8
<1> HIDE DEF map, at
<1>10. TreeInv(Filled(b, map), {place[k] : k \in 1 .. n}, at)
  BY <1>5, <1>9, FilledHolds
<1> QED BY <1>1, <1>5, <1>10 DEF map, at

\* The nodes that stay in the tree stay where they are.
LEMMA StayPut ==
    ASSUME MeshInv, MeshInv', NEW S, S \subseteq tree, S \subseteq tree',
           \A a \in S : heap'[a].loc = heap[a].loc
    PROVE  \A a \in S : Whereabouts'[a] = Whereabouts[a]
<1>1. \A a \in tree' : Whereabouts'[a] = Coordinate[heap'[a].loc]
  BY LocatedNext
<1> QED BY <1>1, Located

LEMMA AddIndexed ==
    ASSUME IndexInv, NEW p \in Joining, IndexAdd(p), MeshInv'
    PROVE  TreeInv(quadtree', tree', Whereabouts')
<1>1. AddNode(p) /\ quadtree' = insert(quadtree, id2PtrMap'[p.id], Coordinate[p.loc])
  BY DEF IndexAdd
<1>2. PICK a \in Addr \ Live :
        /\ heap' = [heap EXCEPT ![a] = NewCell(p, InRange(p.loc) \cup {a})]
        /\ id2PtrMap' = [id2PtrMap EXCEPT ![p.id] = a]
        /\ tree' = tree \cup {a}
  BY <1>1 DEF AddNode
<1>3. p \in Payload /\ ValidPayload(p) /\ p.id \in Id
  BY <1>1, ConstantAssumption DEF AddNode
<1>4. /\ heap \in [Addr -> Cell \cup {Blank}] /\ id2PtrMap \in [Id -> Addr \cup {NoAddr}]
      /\ tree = Live /\ MeshInv /\ TreeInv(quadtree, tree, Whereabouts)
  BY DEF IndexInv, MeshInv, TypeOK, MeshTypeOK, IndexMatchesTree
<1>5. id2PtrMap'[p.id] = a /\ a \in Addr /\ a \notin tree
  BY <1>2, <1>3, <1>4
<1>6. \A c \in tree : heap'[c].loc = heap[c].loc
  BY <1>2, <1>4, <1>5
<1>7. \A c \in tree : Whereabouts'[c] = Whereabouts[c]
  BY <1>2, <1>4, <1>6, StayPut
<1>8. heap'[a].loc = p.loc
  <2>1. NewCell(p, InRange(p.loc) \cup {a}).loc = p.loc
    BY DEF NewCell
  <2> QED BY <1>2, <1>4, <2>1
<1>9. Whereabouts'[a] = Coordinate[p.loc]
  <2>1. \A c \in tree' : Whereabouts'[c] = Coordinate[heap'[c].loc]
    BY LocatedNext
  <2> QED BY <1>2, <1>8, <2>1
<1> DEFINE at == Whereabouts'
<1>10. TreeInv(quadtree, tree, at)
  BY <1>4, <1>7, SamePlaces
<1>11. at[a] \in Place /\ contains(Root, at[a])
  BY <1>3, <1>9, AcceptedPlace
<1> HIDE DEF at
<1>12. TreeInv(insert(quadtree, a, at[a]), tree \cup {a}, at)
  BY <1>5, <1>10, <1>11, InsertKeeps
<1> QED BY <1>1, <1>2, <1>5, <1>9, <1>12 DEF at

LEMMA RemoveIndexed ==
    ASSUME IndexInv, NEW i \in Id, IndexRemove(i), MeshInv'
    PROVE  TreeInv(quadtree', tree', Whereabouts')
<1> DEFINE a == id2PtrMap[i]
<1>1. /\ RemoveNode(i)
      /\ quadtree' = remove(quadtree, a, Coordinate[heap[a].loc])
  BY DEF IndexRemove, NodeOf
<1>2. /\ Registered(i) /\ tree' = tree \ {a}
      /\ heap' = [heap EXCEPT ![a] = Freed(heap[a])]
      /\ heap \in [Addr -> Cell \cup {Blank}]
      /\ MeshInv /\ TreeInv(quadtree, tree, Whereabouts)
  BY <1>1 DEF RemoveNode, NodeOf, IndexInv, MeshInv, TypeOK, MeshTypeOK
<1>3. a \in tree /\ tree \subseteq Addr
  BY <1>2, LiveCells DEF MeshInv, TypeOK, MeshTypeOK
<1> HIDE DEF a
<1>4. Whereabouts[a] = Coordinate[heap[a].loc]
  BY <1>2, <1>3, Located
<1>5. TreeInv(quadtree', tree', Whereabouts)
  BY <1>1, <1>2, <1>3, <1>4, RemoveKeeps
<1>6. \A c \in tree' : heap'[c].loc = heap[c].loc
  BY <1>2, <1>3
<1>7. \A c \in tree' : Whereabouts'[c] = Whereabouts[c]
  BY <1>2, <1>6, StayPut
<1> DEFINE at == Whereabouts'
           t == quadtree'
           held == tree'
<1>8. TreeInv(t, held, Whereabouts) /\ \A c \in held : at[c] = Whereabouts[c]
  BY <1>5, <1>7
<1> HIDE DEF at, t, held
<1>9. TreeInv(t, held, at)
  BY <1>8, SamePlaces
<1> QED BY <1>9 DEF at, t, held

\* A step that leaves the index alone moves no node of it.
LEMMA KeptInPlace ==
    ASSUME MeshInv, IndexKept \/ UNCHANGED vars
    PROVE  tree' = tree /\ \A a \in tree : heap'[a].loc = heap[a].loc
<1>1. /\ heap \in [Addr -> Cell \cup {Blank}] /\ tree \subseteq Addr
      /\ \A a \in tree : heap[a] \in Cell
  BY LiveCells DEF MeshInv, TypeOK, MeshTypeOK
<1>2. CASE \E k \in DOMAIN tokens, cleared \in BOOLEAN : RemoveUser(k, cleared)
  <2>1. PICK k \in DOMAIN tokens, cleared \in BOOLEAN : RemoveUser(k, cleared)
    BY <1>2
  <2>2. tree' = tree /\ heap' = Credited(tokens[k])
    BY <2>1 DEF RemoveUser
  <2>3. tokens[k].bandwidth \in Int
    <3>1. tokens \in Seq(Token)
      BY DEF MeshInv, TypeOK, TokenTypeOK
    <3>2. tokens[k] \in Token
      BY <3>1
    <3> QED BY <3>2 DEF Token
  <2>4. \A c \in Cell : UpdateNode(c, tokens[k].bandwidth).loc = c.loc
    BY <2>3, UpdatedCells
  <2> QED BY <1>1, <2>2, <2>4 DEF Credited
<1>3. CASE ReserveNode
  <2>1. tree' = tree /\ heap' = Debited(cursor) /\ CanDebit(cursor) /\ phase # "idle"
    BY <1>3 DEF ReserveNode
  <2>2. request.bandwidth \in Int
    BY <2>1, ConstantAssumption DEF MeshInv, TypeOK, SearchTypeOK
  <2>3. id2PtrMap[cursor] \in tree
    BY <2>1, LiveCells DEF CanDebit, Registered, MeshInv
  <2> DEFINE a == id2PtrMap[cursor]
             c == UpdateNode(heap[a], -request.bandwidth)
  <2>4. heap' = [heap EXCEPT ![a] = c]
    BY <2>1 DEF Debited, NodeOf
  <2>5. c.loc = heap[a].loc
    <3>1. -request.bandwidth \in Int
      BY <2>2
    <3> QED BY <1>1, <2>3, <3>1, UpdatedCells
  <2> HIDE DEF a, c
  <2> QED BY <1>1, <2>1, <2>4, <2>5
<1>4. CASE \/ \E r \in Request : StartSearch(r)
           \/ SkipMissing \/ FoundGateway \/ HopLimitReached \/ Relax \/ NoRoute
           \/ ReserveFails \/ GrantRoute \/ UNCHANGED vars
  <2>1. UNCHANGED mesh
    BY <1>4 DEF StartSearch, SkipMissing, FoundGateway, HopLimitReached, Relax,
                NoRoute, ReserveFails, GrantRoute, vars
  <2> QED BY <2>1 DEF mesh
<1> QED BY <1>2, <1>3, <1>4 DEF IndexKept, SearchStep

LEMMA KeptIndexed ==
    ASSUME IndexInv, IndexKept \/ UNCHANGED <<vars, quadtree>>, MeshInv'
    PROVE  TreeInv(quadtree', tree', Whereabouts')
<1>1. /\ MeshInv /\ TreeInv(quadtree, tree, Whereabouts) /\ quadtree' = quadtree
      /\ tree' = tree /\ \A a \in tree : heap'[a].loc = heap[a].loc
  <2>1. UNCHANGED <<vars, quadtree>> => UNCHANGED vars
    OBVIOUS
  <2> QED BY <2>1, KeptInPlace DEF IndexInv, IndexKept
<1>2. \A a \in tree : Whereabouts'[a] = Whereabouts[a]
  BY <1>1, StayPut
<1> DEFINE at == Whereabouts'
<1>3. \A a \in tree : at[a] = Whereabouts[a]
  BY <1>2
<1> HIDE DEF at
<1>4. TreeInv(quadtree, tree, at)
  BY <1>1, <1>3, SamePlaces
<1> QED BY <1>1, <1>4 DEF at

\* With its index, the Engine makes the steps of MeshEngine.
LEMMA IndexStep ==
    ASSUME [IndexNext]_<<vars, quadtree>>
    PROVE  [Next]_vars
<1>1. CASE IndexKept
  BY <1>1 DEF IndexKept, Next
<1>2. CASE UNCHANGED <<vars, quadtree>>
  BY <1>2
<1> QED BY <1>1, <1>2
        DEF IndexNext, IndexReboot, IndexAdd, IndexRemove, IndexRestart, Next

LEMMA NextKeepsIndex == IndexInv /\ [IndexNext]_<<vars, quadtree>> => IndexInv'
<1>1. SUFFICES ASSUME IndexInv, [IndexNext]_<<vars, quadtree>> PROVE IndexInv'
  OBVIOUS
<1>2. MeshInv'
  BY <1>1, IndexStep, NextKeepsInv DEF IndexInv
<1>3. CASE \E b \in Batch : IndexReboot(b)
  BY <1>1, <1>2, <1>3, RebootIndexed DEF IndexInv
<1>4. CASE \E p \in Joining : IndexAdd(p)
  BY <1>1, <1>2, <1>4, AddIndexed DEF IndexInv
<1>5. CASE \E i \in Id : IndexRemove(i)
  BY <1>1, <1>2, <1>5, RemoveIndexed DEF IndexInv
<1>6. CASE IndexKept \/ UNCHANGED <<vars, quadtree>>
  BY <1>1, <1>2, <1>6, KeptIndexed DEF IndexInv
<1>7. CASE IndexRestart
  <2>1. tree' = {} /\ quadtree' = Empty
    BY <1>7 DEF IndexRestart, Restart
  <2> DEFINE at == Whereabouts'
  <2>2. TreeInv(Empty, {}, at)
    BY EmptyTree
  <2> QED BY <1>2, <2>1, <2>2 DEF IndexInv
<1> QED BY <1>1, <1>3, <1>4, <1>5, <1>6, <1>7 DEF IndexNext

\* The index files the nodes of the map below boxes with their places, in
\* every reachable state.
THEOREM IndexInvariantHolds == IndexSpec => []IndexInv
<1> QED BY InitIndexed, NextKeepsIndex, PTL DEF IndexSpec

\* MeshEngine abstracts from the index rightly: every behaviour with it is one
\* that MeshEngine allows, so that what is proved of Spec holds with the index.
THEOREM IndexedEngineImplements == IndexSpec => Spec
<1>1. IndexInit => Init
  BY DEF IndexInit
<1> QED BY <1>1, IndexStep, PTL DEF IndexSpec, Spec

\* service_class.cpp and quadtree.cpp: each node the map owns is in one subtree
\* and no freed node is in any, at any capacity.
THEOREM AlwaysFiledOnce == IndexSpec => []FiledOnce
<1>1. IndexInv => FiledOnce
  BY DEF IndexInv, TreeInv, FiledOnce
<1> QED BY <1>1, IndexInvariantHolds, PTL

LEMMA IndexAnswers == IndexInv => QueryIsExact
<1>1. SUFFICES ASSUME IndexInv, NEW l \in Loc, NEW cut \in BOOLEAN
               PROVE  query(quadtree, Reach[l], Whereabouts, cut) = InRange(l)
  BY DEF QueryIsExact
<1>2. /\ MeshInv /\ TreeInv(quadtree, tree, Whereabouts)
      /\ \A n \in tree : Whereabouts[n] \in Place
  BY <1>1, Located DEF IndexInv
<1>3. Reach[l] \in Range1
  BY GeometryAssumption DEF Range1
<1>4. query(quadtree, Reach[l], Whereabouts, cut)
         = {n \in tree : contains(Reach[l], Whereabouts[n])}
  BY <1>2, <1>3, TreeAnswers
<1>5. \A n \in tree : contains(Reach[l], Whereabouts[n]) <=> heap[n].loc \in Near[l]
  BY <1>2, Located, GeometryAssumption
<1> QED BY <1>4, <1>5 DEF InRange

\* quadtree.cpp: a query returns the nodes in its box, all of them and no
\* others, on every tree the RPCs leave behind and whichever abs the build takes.
THEOREM QueryIsAlwaysExact == IndexSpec => []QueryIsExact
<1> QED BY IndexInvariantHolds, IndexAnswers, PTL

=============================================================================
