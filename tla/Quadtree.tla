------------------------------ MODULE Quadtree ------------------------------
(***************************************************************************)
(* The index the Engine finds neighbours with, as functions of a tree.  A  *)
(* subtree is named by the quadrants that lead to it, and a tree maps the  *)
(* name of every subtree that exists to its boundary and its own nodes.    *)
(*                                                                         *)
(* Coordinates are integers.  A box has a unit of its own, so that halving *)
(* is exact at every depth, as it is in doubles until they run out of      *)
(* digits: its numbers are multiples of 1 / unit.                          *)
(***************************************************************************)
EXTENDS Integers, FiniteSets, SequencesExt

CONSTANTS
    CAPACITY,   \* nodes in one subtree; 4 in quadtree.hpp
    HalfLat,    \* the default Boundary, around (0, 0)
    HalfLon,
    Degree      \* coordinates to a degree

ASSUME QuadtreeAssumption ==
    /\ CAPACITY \in Nat \ {0}
    /\ HalfLat \in Nat /\ HalfLon \in Nat
    /\ Degree \in Nat \ {0}

Quadrant == 1 .. 4      \* nw, ne, sw, se
Name == Seq(Quadrant)

Root == [lat |-> 0, lon |-> 0, halfLat |-> HalfLat, halfLon |-> HalfLon, unit |-> 1]

contains(b, l) ==
    /\ b.lat - b.halfLat <= b.unit * l.lat /\ b.unit * l.lat <= b.lat + b.halfLat
    /\ b.lon - b.halfLon <= b.unit * l.lon /\ b.unit * l.lon <= b.lon + b.halfLon

\* The box of a child: half as high and wide, counted in halves of the unit.
Quarter(b, q) ==
    [b EXCEPT !.lat = 2 * @ + (IF q \in {1, 2} THEN b.halfLat ELSE -b.halfLat),
              !.lon = 2 * @ + (IF q \in {1, 3} THEN -b.halfLon ELSE b.halfLon),
              !.unit = 2 * @]

Empty == [p \in {<<>>} |-> [boundary |-> Root, nodes |-> <<>>]]

Children(p) == {Append(p, q) : q \in Quadrant}

subdivide(t, p) ==
    [c \in DOMAIN t \cup Children(p) |->
        IF c \in DOMAIN t THEN t[c]
        ELSE [boundary |-> Quarter(t[p].boundary, Last(c)), nodes |-> <<>>]]

\* The subtrees a walk from the root to p goes through.
Above(p) == {SubSeq(p, 1, k) : k \in 0 .. Len(p)}

\* The first child, from nw to se, whose box has the place.
First(b, l) ==
    CHOOSE q \in Quadrant :
        /\ contains(Quarter(b, q), l)
        /\ \A r \in 1 .. q - 1 : ~contains(Quarter(b, r), l)

Full(t, p) == p \in DOMAIN t /\ Len(t[p].nodes) >= CAPACITY

\* insert comes to p: the subtrees above are full, and none of their earlier
\* children has the place.
Reaches(t, p, l) ==
    \A k \in 1 .. Len(p) :
        LET q == SubSeq(p, 1, k - 1)
        IN Full(t, q) /\ p[k] = First(t[q].boundary, l)

\* Where insert puts a node: the first subtree on the way down with room, which
\* may be one that subdivide has yet to make.
Target(t, l) ==
    CHOOSE p \in DOMAIN t \cup UNION {Children(q) : q \in DOMAIN t} :
        Reaches(t, p, l) /\ ~Full(t, p)

insert(t, n, l) ==
    IF ~contains(Root, l) THEN t
    ELSE LET p == Target(t, l)
             s == IF p \in DOMAIN t THEN t ELSE subdivide(t, Front(p))
         IN [s EXCEPT ![p].nodes = Append(@, n)]

\* The difference of two coordinates in multiples of 1 / unit.  The abs of ints
\* cuts it to whole degrees.
Apart(x, y, unit, cut) ==
    LET d == IF x < y THEN y - x ELSE x - y
    IN IF cut THEN (d \div (Degree * unit)) * (Degree * unit) ELSE d

\* Mutant: only children in whose box the range has its centre are visited.
OverlapsCentre(b, range, cut) == contains(b, [lat |-> range.lat, lon |-> range.lon])

\* query's test for a subtree that cannot be skipped.
Overlaps(b, range, cut) ==
    /\ Apart(b.unit * range.lat, b.lat, b.unit, cut)
           <= b.unit * range.halfLat + b.halfLat
    /\ Apart(b.unit * range.lon, b.lon, b.unit, cut)
           <= b.unit * range.halfLon + b.halfLon

\* The nodes of the tree.
Found(t) == UNION {ToSet(t[p].nodes) : p \in DOMAIN t}

query(t, range, at, cut) ==
    {n \in Found(t) :
        /\ contains(range, at[n])
        /\ \E p \in DOMAIN t :
               /\ n \in ToSet(t[p].nodes)
               /\ \A q \in Above(p) : Overlaps(t[q].boundary, range, cut)}

Without(s, n) ==
    IF n \in ToSet(s)
    THEN RemoveAt(s, CHOOSE i \in DOMAIN s : s[i] = n /\ \A j \in 1 .. i - 1 : s[j] # n)
    ELSE s

\* Mutant: the children are not searched.
removeAtRoot(t, n, l) == [t EXCEPT ![<<>>].nodes = Without(@, n)]

\* remove: the node leaves the one subtree that has it, and the nodes behind
\* it move up; subtrees stay.
remove(t, n, l) ==
    [p \in DOMAIN t |->
        IF \A q \in Above(p) : contains(t[q].boundary, l)
        THEN [t[p] EXCEPT !.nodes = Without(@, n)] ELSE t[p]]

-----------------------------------------------------------------------------
\* Each of the nodes of held is in one place of the tree, no other node is in
\* any, and no subtree overflows.
Filed(t, held) ==
    /\ Found(t) = held
    /\ \A p \in DOMAIN t : Len(t[p].nodes) <= CAPACITY /\ IsInjective(t[p].nodes)
    /\ \A p, q \in DOMAIN t :
           p # q => ToSet(t[p].nodes) \cap ToSet(t[q].nodes) = {}

=============================================================================
