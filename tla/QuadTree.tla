------------------------------ MODULE QuadTree ------------------------------
(***************************************************************************)
(* utils/quadtree.h: insert, subdivide, the two queries and reset.  A node *)
(* is named by the path from the root to it; its own points stay in it     *)
(* when it is divided.                                                     *)
(*                                                                         *)
(* insert calls itself, and each call is a step here.  A call that answers *)
(* false has its caller try the next child, and one that answers true has  *)
(* all its callers answer true: what is left of an insertion is the list   *)
(* of nodes still to be tried.                                             *)
(*                                                                         *)
(* Coordinates are floats.  They are counted in a unit so small that the   *)
(* widths of the cells stay whole (halving a float is exact), and every    *)
(* sum and product is rounded to the nearest number that a significand can *)
(* hold, ties to even, as the machine does with 2^24 significands.         *)
(***************************************************************************)
EXTENDS Integers, Sequences, FiniteSets

Seqs == INSTANCE SequencesExt

CONSTANTS
  Significands,  \* whole numbers below this are not rounded
  Capacity,      \* QT_NODE_CAPACITY
  Roots,         \* boundaries a tree may be created with
  Positions,     \* where points may be inserted
  Ranges,        \* boxes that are asked for
  Circles,       \* circles that are asked for
  MaxPoints      \* bound: insertions

Boxes == [left : Int, top : Int, width : Nat, height : Nat]

ASSUME ParameterAssumption ==
  /\ Significands \in Nat \ {0} /\ Capacity \in Nat \ {0} /\ MaxPoints \in Nat
  /\ Roots \subseteq Boxes /\ Ranges \subseteq Boxes
  /\ Positions \subseteq [x : Int, y : Int]
  /\ Circles \subseteq [x : Int, y : Int, r : Nat]

VARIABLES
  tree,    \* of every node, its boundary and the entities of its points
  status,  \* "sound"; "dangling": pointers to deleted children; "undefined"
  pc,      \* "idle", or an "insert" is under way
  point,   \* the point to insert
  todo,    \* the nodes it has still to be tried in, the next one first
  \* history
  placed,  \* positions of the entities that insert accepted, since a reset
  lost     \* positions inside the boundary that insert refused

vars == <<tree, status, pc, point, todo, placed, lost>>

-----------------------------------------------------------------------------
(* Arithmetic *)

(* The distance of the neighbours of n among the numbers that can be held. *)
Ulp[n \in Nat] == IF n < Significands THEN 1 ELSE 2 * Ulp[n \div 2]

(* n, or the nearest number that can be held. *)
Nearest(n) ==
  LET ulp  == Ulp[n]
      down == n \div ulp
      up   == 2 * (n % ulp) > ulp \/ (2 * (n % ulp) = ulp /\ down % 2 = 1)
  IN  ulp * (IF up THEN down + 1 ELSE down)
Round(n) == IF n < 0 THEN -Nearest(-n) ELSE Nearest(n)

Distance(a, b) == LET d == Round(a - b) IN IF d < 0 THEN -d ELSE d
Square(a)      == Round(a * a)

Right(b)  == Round(b.left + b.width)
Bottom(b) == Round(b.top + b.height)

(* AABB::containsPoint: borders belong to the box. *)
BoxContains(b, p) ==
  /\ b.left <= p.x /\ p.x <= Right(b)
  /\ b.top <= p.y /\ p.y <= Bottom(b)

(* AABB::intersectsAABB: borders do not. *)
MutantComparesRightEdges(a, b) ==
  /\ a.left < Right(b) /\ Right(a) > Right(b)
  /\ a.top < Bottom(b) /\ Bottom(a) > b.top
BoxesIntersect(a, b) ==
  /\ a.left < Right(b) /\ Right(a) > b.left
  /\ a.top < Bottom(b) /\ Bottom(a) > b.top

(* AABBCircle::containsPoint, in double precision but for the differences. *)
CircleContains(c, p) ==
  LET dx == Distance(p.x, c.x) dy == Distance(p.y, c.y)
  IN  dx * dx + dy * dy <= c.r * c.r

(* AABBCircle::intersectsAABB *)
MutantForgetsRadius(c, b) ==
  LET w  == b.width \div 2  h == b.height \div 2
      dx == Distance(c.x, Round(b.left + w))
      dy == Distance(c.y, Round(b.top + h))
  IN  dx <= w /\ dy <= h
CircleIntersects(c, b) ==
  LET w  == b.width \div 2  h == b.height \div 2
      dx == Distance(c.x, Round(b.left + w))
      dy == Distance(c.y, Round(b.top + h))
  IN  /\ dx <= Round(w + c.r) /\ dy <= Round(h + c.r)
      /\ \/ dx <= w \/ dy <= h
         \/ Round(Square(Round(dx - w)) + Square(Round(dy - h))) <= Square(c.r)

-----------------------------------------------------------------------------
(* Nodes *)

Quadrants == <<"NW", "NE", "SE", "SW">>  \* in the order insert tries them

(* subdivide: the boundary of a quarter. *)
MutantQuarter(b, q) ==
  LET w == b.width \div 2  h == b.height \div 2
  IN  [left |-> b.left,
       top  |-> IF q \in {"SW", "SE"} THEN Round(b.top + h) ELSE b.top,
       width |-> w, height |-> h]
Quarter(b, q) ==
  LET w == b.width \div 2  h == b.height \div 2
  IN  [left |-> IF q \in {"NE", "SE"} THEN Round(b.left + w) ELSE b.left,
       top  |-> IF q \in {"SW", "SE"} THEN Round(b.top + h) ELSE b.top,
       width |-> w, height |-> h]

Node(b)     == [boundary |-> b, points |-> <<>>]
Root        == <<>>
Children(n) == [i \in 1 .. 4 |-> Append(n, Quadrants[i])]
Divided(n)  == Children(n)[1] \in DOMAIN tree

Boundary(n) == tree[n].boundary

Subdivided(n) ==
  LET new == {Children(n)[i] : i \in 1 .. 4}
  IN  [m \in DOMAIN tree \cup new |->
         IF m \in new THEN Node(Quarter(Boundary(n), m[Len(m)])) ELSE tree[m]]

MutantRoom(n) == Len(tree[n].points) <= Capacity
Room(n) == Len(tree[n].points) < Capacity

-----------------------------------------------------------------------------
(* query, for a box or a circle *)

IsCircle(range)      == "r" \in DOMAIN range
Intersects(range, b) ==
  IF IsCircle(range) THEN CircleIntersects(range, b) ELSE BoxesIntersect(range, b)
Contains(range, p)   ==
  IF IsCircle(range) THEN CircleContains(range, p) ELSE BoxContains(range, p)

Nodes == DOMAIN tree
Slots == UNION {{n} \X DOMAIN tree[n].points : n \in Nodes}
EntityAt(slot) == tree[slot[1]].points[slot[2]]

(* A call goes on to the children of every node that the range intersects. *)
Visited(range) ==
  {n \in Nodes : \A up \in Seqs!Prefixes(n) : Intersects(range, Boundary(up))}

(* The slots whose entities are pushed onto the answer, one push for each. *)
Query(range) ==
  LET visited == Visited(range)
  IN  {slot \in Slots : slot[1] \in visited /\ Contains(range, placed[EntityAt(slot)])}

-----------------------------------------------------------------------------
Empty(b) == [n \in {Root} |-> Node(b)]

Init ==
  /\ tree \in {Empty(b) : b \in Roots} /\ status = "sound"
  /\ pc = "idle" /\ point \in Positions /\ todo = <<>>
  /\ placed = <<>> /\ lost = {}

(* insert is called.  A point outside the boundary is refused at once.     *)
(* Any other, once the pointers to the children dangle, is handed to       *)
(* deleted nodes.                                                          *)
Insert(p) ==
  /\ pc = "idle" /\ BoxContains(Boundary(Root), p)
  /\ Len(placed) + Cardinality(lost) < MaxPoints
  /\ \/ status = "dangling" /\ status' = "undefined" /\ UNCHANGED <<pc, point, todo>>
     \/ /\ status = "sound" /\ UNCHANGED status
        /\ pc' = "insert" /\ point' = p /\ todo' = <<Root>>
  /\ UNCHANGED <<tree, placed, lost>>

(* insert for the next node: the point is outside its boundary, ...        *)
PassOver ==
  /\ pc = "insert" /\ todo # <<>>
  /\ ~BoxContains(Boundary(Head(todo)), point)
  /\ todo' = Tail(todo)
  /\ UNCHANGED <<tree, status, pc, point, placed, lost>>

(* ... or it is stored in it, ...                                          *)
Store ==
  /\ pc = "insert" /\ todo # <<>>
  /\ LET n == Head(todo) IN
     /\ BoxContains(Boundary(n), point) /\ Room(n) /\ ~Divided(n)
     /\ tree' = [tree EXCEPT ![n].points = Append(@, Len(placed) + 1)]
  /\ placed' = Append(placed, point)
  /\ pc' = "idle" /\ todo' = <<>>
  /\ UNCHANGED <<status, point, lost>>

(* ... or handed to its children, which it gets if it has none.            *)
MutantGrown(n) == Subdivided(n)
Grown(n) == IF Divided(n) THEN tree ELSE Subdivided(n)

Descend ==
  /\ pc = "insert" /\ todo # <<>>
  /\ LET n == Head(todo) IN
     /\ BoxContains(Boundary(n), point) /\ (Divided(n) \/ ~Room(n))
     /\ tree' = Grown(n)
     /\ todo' = Children(n) \o Tail(todo)
  /\ UNCHANGED <<status, pc, point, placed, lost>>

(* No node took the point: the first call of insert answers false.         *)
Refuse ==
  /\ pc = "insert" /\ todo = <<>>
  /\ lost' = lost \cup {point}
  /\ pc' = "idle"
  /\ UNCHANGED <<tree, status, point, todo, placed>>

(* reset deletes the children, keeps the pointers to them, and drops the   *)
(* root's points.  A second reset follows the pointers.                    *)
Reset ==
  /\ pc = "idle" /\ status # "undefined"
  /\ status' = IF status = "dangling" THEN "undefined"
               ELSE IF Divided(Root) THEN "dangling" ELSE "sound"
  /\ tree' = Empty(Boundary(Root)) /\ placed' = <<>>
  /\ UNCHANGED <<pc, point, todo, lost>>

Next ==
  \/ Reset \/ PassOver \/ Store \/ Descend \/ Refuse
  \/ \E p \in Positions : Insert(p)

Spec == Init /\ [][Next]_vars

-----------------------------------------------------------------------------
(* Properties *)

Entities == DOMAIN placed

TypeOK ==
  /\ status \in {"sound", "dangling", "undefined"} /\ pc \in {"idle", "insert"}
  /\ Root \in Nodes
  /\ \A n \in Nodes : /\ tree[n] \in [boundary : Boxes, points : Seq(Entities)]
                      /\ Len(tree[n].points) <= Capacity
  /\ placed \in Seq(Positions) /\ point \in Positions /\ lost \subseteq Positions
  /\ todo \in Seq(Nodes)

(* However the points are spread, and many of them in one place or on the  *)
(* border of several cells: each that was accepted is in one node only,    *)
(* once, inside the boundary of that node and of all above it; and no node *)
(* is divided before it is full.                                           *)
PlacedOnce ==
  /\ LET all == Slots IN
     \A e \in Entities : \E slot \in all :
       /\ {other \in all : EntityAt(other) = e} = {slot}
       /\ \A up \in Seqs!Prefixes(slot[1]) : BoxContains(Boundary(up), placed[e])
  /\ \A n \in Nodes : Divided(n) => Len(tree[n].points) = Capacity

NoneTwice(slots) ==
  \A a, b \in slots : EntityAt(a) = EntityAt(b) => a = b

Found(slots)  == {EntityAt(slot) : slot \in slots}
Inside(range) == {e \in Entities : Contains(range, placed[e])}

(* The points that are not on a border of a box. *)
Within(range) ==
  {e \in Entities : /\ range.left < placed[e].x /\ placed[e].x < Right(range)
                    /\ range.top < placed[e].y /\ placed[e].y < Bottom(range)}

(* A query for a box finds every point inside, once, in whatever node it   *)
(* is and however the sums are rounded, and none outside.  A point on the  *)
(* border may be missed: a cell that only touches the box is skipped.      *)
RangeQuery ==
  status = "sound" /\ pc = "idle" =>
    \A range \in Ranges : LET slots == Query(range) IN
      /\ NoneTwice(slots)
      /\ Within(range) \subseteq Found(slots) /\ Found(slots) \subseteq Inside(range)

(* The halves of a boundary are whole, and its sums are not rounded. *)
Exact(b) ==
  LET w == b.width \div 2  h == b.height \div 2 IN
  /\ b.width = w + w /\ b.height = h + h
  /\ Right(b) = b.left + b.width /\ Round(b.left + w) = b.left + w
  /\ Bottom(b) = b.top + b.height /\ Round(b.top + h) = b.top + h
AllExact == \A n \in Nodes : Exact(Boundary(n))

(* n is a number that can be held; and the tests of a circle against the   *)
(* points and the nodes of the tree make no others.                        *)
Held(n) == Round(n) = n
ExactFor(c) ==
  /\ c.r * c.r < Significands
  /\ \A e \in Entities : Held(placed[e].x - c.x) /\ Held(placed[e].y - c.y)
  /\ \A n \in Nodes :
       LET b == Boundary(n)  w == b.width \div 2  h == b.height \div 2 IN
       /\ Held(c.x - (b.left + w)) /\ Held(c.y - (b.top + h))
       /\ Held(w + c.r) /\ Held(h + c.r)

(* A query for a circle finds no point outside and none twice; and all     *)
(* that are in it or on it, in whatever node they are, as long as nothing  *)
(* is rounded.                                                             *)
CircleQuery ==
  status = "sound" /\ pc = "idle" =>
    \A circle \in Circles : LET slots == Query(circle) IN
      /\ NoneTwice(slots) /\ Found(slots) \subseteq Inside(circle)
      /\ AllExact /\ ExactFor(circle) => Inside(circle) \subseteq Found(slots)

(* insert, "this should never happen": a point inside the boundary is      *)
(* refused only where rounding opened a gap between a cell's own border    *)
(* and its quarters'.                                                      *)
LostOnlyByRounding == status = "sound" /\ AllExact => lost = {}

(* As the comment has it. *)
NeverRefused == lost = {}
=============================================================================
