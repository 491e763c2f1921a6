--------------------------- MODULE QuadTreeProofs ---------------------------
(***************************************************************************)
(* Type correctness of QuadTree, that every point is stored once and in    *)
(* its place, that a query finds the points inside, and that a point is    *)
(* only refused where a boundary was rounded: for every capacity, every    *)
(* precision of the floats and all boundaries, points and ranges.          *)
(***************************************************************************)
EXTENDS QuadTree, SequenceTheorems, WellFoundedInduction, TLAPS

-----------------------------------------------------------------------------
(* Arithmetic *)

(* Every set of naturals that is not empty has a least element. *)
LEMMA Least ==
  ASSUME NEW S, S \subseteq Nat, S # {}
  PROVE  \E m \in S : \A k \in S : m <= k
<1> DEFINE less == {pair \in Nat \X Nat : pair[1] < pair[2]}
<1>1. IsWellFoundedOn(less, Nat)
  BY NatLessThanWellFounded DEF OpToRel
<1> HIDE DEF less
<1>2. PICK m \in S : \A k \in S : ~(<<k, m>> \in less)
  BY <1>1, WFMin
<1>3. \A k \in S : k < m => <<k, m>> \in less
  BY DEF less
<1>4. \A k \in S : ~(k < m)
  BY <1>2, <1>3
<1>5. \A k \in S : k \in Nat
  OBVIOUS
<1> QED
  BY <1>4, <1>5

(* Halving ends: what holds of a number once it holds of its half, holds. *)
LEMMA Halving ==
  ASSUME NEW T, \A n \in Nat : (n >= Significands => n \div 2 \in T) => n \in T
  PROVE  Nat \subseteq T
<1> DEFINE Rest == Nat \ T
<1> SUFFICES ASSUME Rest # {} PROVE FALSE
  OBVIOUS
<1>1. PICK m \in Rest : \A k \in Rest : m <= k
  <2>1. Rest \subseteq Nat
    OBVIOUS
  <2> HIDE DEF Rest
  <2> QED
    BY <2>1, Least
<1>2. m >= Significands => m \div 2 \in Nat /\ ~(m <= m \div 2)
  BY ParameterAssumption
<1> QED
  BY <1>1, <1>2

(* A function that is what Ulp is to be, on the numbers up to k.           *)
IsUlp(f, k) ==
  /\ f \in [0 .. k -> Nat \ {0}]
  /\ \A n \in 0 .. k : f[n] = IF n < Significands THEN 1 ELSE 2 * f[n \div 2]

LEMMA UlpUnique ==
  ASSUME NEW k \in Nat, NEW l \in Nat, NEW f, NEW g, IsUlp(f, k), IsUlp(g, l),
         NEW n \in Nat, n <= k, n <= l
  PROVE  f[n] = g[n]
<1> DEFINE T == {i \in Nat : i <= k /\ i <= l => f[i] = g[i]}
<1>1. ASSUME NEW i \in Nat, i >= Significands => i \div 2 \in T
      PROVE  i \in T
  <2> SUFFICES ASSUME i <= k, i <= l PROVE f[i] = g[i]
    OBVIOUS
  <2>1. CASE i < Significands
    BY <2>1 DEF IsUlp
  <2>2. CASE i >= Significands
    <3>1. i \div 2 \in Nat /\ i \div 2 <= k /\ i \div 2 <= l
      OBVIOUS
    <3>2. f[i \div 2] = g[i \div 2]
      BY <1>1, <2>2, <3>1
    <3>3. ~(i < Significands)
      BY <2>2, ParameterAssumption
    <3> QED
      BY <3>2, <3>3 DEF IsUlp
  <2> QED
    BY <2>1, <2>2, ParameterAssumption
<1>2. Nat \subseteq T
  <2> HIDE DEF T
  <2> QED
    BY <1>1, Halving
<1> QED
  BY <1>2

LEMMA UlpUpTo ==
  ASSUME NEW k \in Nat
  PROVE  \E f : IsUlp(f, k)
<1> DEFINE T == {i \in Nat : \E f : IsUlp(f, i)}
<1> DEFINE Rest == Nat \ T
<1> SUFFICES ASSUME Rest # {} PROVE FALSE
  OBVIOUS
<1>1. PICK m \in Rest : \A i \in Rest : m <= i
  <2>1. Rest \subseteq Nat
    OBVIOUS
  <2> HIDE DEF Rest
  <2> QED
    BY <2>1, Least
<1>2. CASE m = 0
  <2> DEFINE f == [n \in 0 .. 0 |-> 1]
  <2>1. IsUlp(f, 0)
    BY ParameterAssumption DEF IsUlp
  <2> HIDE DEF f
  <2> QED
    BY <1>1, <1>2, <2>1
<1>3. CASE m # 0
  <2>1. m - 1 \in Nat /\ ~(m <= m - 1)
    BY <1>3
  <2>2. PICK f : IsUlp(f, m - 1)
    BY <1>1, <2>1
  <2> DEFINE g == [n \in 0 .. m |-> IF n <= m - 1 THEN f[n]
                                   ELSE IF m < Significands THEN 1 ELSE 2 * f[m \div 2]]
  <2>3. m >= Significands => m \div 2 \in 0 .. m - 1
    BY <1>3
  <2>4. f \in [0 .. m - 1 -> Nat \ {0}]
    BY <2>2 DEF IsUlp
  <2>5. g \in [0 .. m -> Nat \ {0}]
    BY <2>1, <2>3, <2>4, ParameterAssumption
  <2>6. ASSUME NEW n \in 0 .. m
        PROVE  g[n] = IF n < Significands THEN 1 ELSE 2 * g[n \div 2]
    <3>1. n >= Significands => n \div 2 \in 0 .. m - 1 /\ n \div 2 \in 0 .. m
      BY ParameterAssumption
    <3>2. CASE n <= m - 1
      BY <2>2, <3>1, <3>2, ParameterAssumption DEF IsUlp
    <3>3. CASE n = m
      BY <2>1, <3>1, <3>3, ParameterAssumption
    <3> QED
      BY <3>2, <3>3
  <2>7. IsUlp(g, m)
    BY <2>5, <2>6 DEF IsUlp
  <2> HIDE DEF g
  <2> QED
    BY <1>1, <2>7
<1> QED
  BY <1>2, <1>3

(* Ulp is the function that its definition describes.                      *)
LEMMA UlpIs ==
  \A n \in Nat : Ulp[n] = IF n < Significands THEN 1 ELSE 2 * Ulp[n \div 2]
<1> DEFINE Def(f) == [n \in Nat |-> IF n < Significands THEN 1 ELSE 2 * f[n \div 2]]
           F == [n \in Nat |-> (CHOOSE f : IsUlp(f, n))[n]]
           part(n) == CHOOSE f : IsUlp(f, n)
<1>1. \A n \in Nat : IsUlp(part(n), n)
  BY UlpUpTo
<1>2. \A n \in Nat : F[n] = part(n)[n]
  OBVIOUS
<1>9. F = [n \in Nat |-> F[n]]
  OBVIOUS
<1> HIDE DEF F, part
<1>3. ASSUME NEW n \in Nat
      PROVE  F[n] = IF n < Significands THEN 1 ELSE 2 * F[n \div 2]
  <2>1. CASE n < Significands
    <3>1. n \in 0 .. n /\ IsUlp(part(n), n)
      BY <1>1
    <3>2. part(n)[n] = 1
      BY <2>1, <3>1 DEF IsUlp
    <3> QED
      BY <1>2, <2>1, <3>2
  <2>2. CASE ~(n < Significands)
    <3>1. n \div 2 \in Nat /\ n \div 2 <= n /\ n \in 0 .. n
      OBVIOUS
    <3>2. part(n)[n \div 2] = part(n \div 2)[n \div 2]
      BY <1>1, <3>1, UlpUnique
    <3>3. part(n)[n] = 2 * part(n)[n \div 2]
      BY <1>1, <2>2, <3>1 DEF IsUlp
    <3> QED
      BY <1>2, <2>2, <3>1, <3>2, <3>3
  <2> QED
    BY <2>1, <2>2
<1>4. F = Def(F)
  BY <1>3, <1>9
<1>5. Ulp = Def(Ulp)
  <2>1. Ulp = CHOOSE f : f = Def(f)
    BY DEF Ulp
  <2> HIDE DEF Def
  <2> QED
    BY <1>4, <2>1
<1> QED
  BY <1>5

LEMMA UlpTyped == \A n \in Nat : Ulp[n] \in Nat \ {0}
<1> DEFINE T == {n \in Nat : Ulp[n] \in Nat \ {0}}
<1>7. ASSUME NEW n \in Nat, n >= Significands => n \div 2 \in T
      PROVE  n \in T
  BY UlpIs, <1>7, ParameterAssumption
<1>8. Nat \subseteq T
  <2> HIDE DEF T
  <2> QED
    BY <1>7, Halving
<1> QED
  BY <1>8

LEMMA RoundTyped == \A n \in Int : Round(n) \in Int
<1>1. ASSUME NEW n \in Nat PROVE Nearest(n) \in Int
  <2>1. PICK ulp \in Nat \ {0} : ulp = Ulp[n]
    BY UlpTyped
  <2>2. PICK down \in Int : down = n \div ulp
    OBVIOUS
  <2>3. Nearest(n) = ulp * (down + 1) \/ Nearest(n) = ulp * down
    BY <2>1, <2>2, Zenon DEF Nearest
  <2> QED
    BY <2>3
<1> QED
  BY <1>1 DEF Round

(* The numbers below the first that may be rounded are not. *)
LEMMA SmallHeld == \A n \in Nat : n < Significands => Held(n)
<1> SUFFICES ASSUME NEW n \in Nat, n < Significands PROVE Held(n)
  OBVIOUS
<1>1. Ulp[n] = 1
  BY UlpIs
<1>2. n \div 1 = n /\ n % 1 = 0 /\ ~(2 * 0 > 1) /\ 2 * 0 # 1 /\ 1 * n = n
  OBVIOUS
<1>3. Nearest(n) = n
  BY <1>1, <1>2, Zenon DEF Nearest
<1> QED
  BY <1>3 DEF Held, Round

-----------------------------------------------------------------------------
(* The invariant *)

Points(n) == tree[n].points
Names     == {"NW", "NE", "SE", "SW"}

(* Above every node are all the shorter paths; children come by four; and  *)
(* no node is divided before it is full.                                   *)
TreeInv ==
  /\ Nodes \subseteq Seq(Names)
  /\ \A n \in Nodes : \A i \in 0 .. Len(n) : SubSeq(n, 1, i) \in Nodes
  /\ \A n \in Nodes, i \in 1 .. 4 : Divided(n) <=> Children(n)[i] \in Nodes
  /\ \A n \in Nodes : Divided(n) => Len(Points(n)) = Capacity

(* The children of a node are its quarters.                                *)
QuarterInv ==
  \A n \in Nodes, i \in 1 .. 4 :
    Divided(n) => Boundary(Children(n)[i]) = Quarter(Boundary(n), Quadrants[i])

(* The point p is in all the cells above node n.                           *)
Above(n, p) == \A i \in 0 .. Len(n) - 1 : BoxContains(Boundary(SubSeq(n, 1, i)), p)

(* No entity has two slots, every one has one, in a cell that it is in, as *)
(* it is in those above.                                                   *)
PlaceInv ==
  /\ \A m, n \in Nodes : \A i \in 1 .. Len(Points(m)), j \in 1 .. Len(Points(n)) :
       Points(m)[i] = Points(n)[j] => m = n /\ i = j
  /\ \A e \in Entities : \E n \in Nodes : \E i \in 1 .. Len(Points(n)) : Points(n)[i] = e
  /\ \A n \in Nodes : \A i \in 1 .. Len(Points(n)) :
       /\ BoxContains(Boundary(n), placed[Points(n)[i]])
       /\ Above(n, placed[Points(n)[i]])

(* An insertion only gets to nodes below cells that the point is in.       *)
SearchInv ==
  /\ pc = "insert" => status = "sound"
  /\ pc = "idle" => todo = <<>>
  /\ \A i \in 1 .. Len(todo) : Above(todo[i], point)

(* As long as no boundary was rounded, one of the nodes that an insertion  *)
(* has yet to try has the point inside; and points are lost only once the  *)
(* root is divided.                                                        *)
LossInv ==
  status = "sound" =>
    /\ lost # {} => Divided(Root) /\ ~AllExact
    /\ pc = "insert" =>
         /\ Divided(Root) \/ (todo = <<Root>> /\ BoxContains(Boundary(Root), point))
         /\ AllExact => \E i \in 1 .. Len(todo) : BoxContains(Boundary(todo[i]), point)

IInv == TypeOK /\ TreeInv /\ QuarterInv /\ PlaceInv /\ SearchInv /\ LossInv

-----------------------------------------------------------------------------
(* Nodes *)

(* What the children of a node are called. *)
LEMMA ChildNames ==
  ASSUME NEW n \in Seq(Names), NEW i \in 1 .. 4
  PROVE  /\ Children(n)[i] \in Seq(Names) /\ Len(Children(n)[i]) = Len(n) + 1
         /\ Children(n)[i][Len(n) + 1] = Quadrants[i] /\ Quadrants[i] \in Names
         /\ Children(n)[i] = Append(n, Quadrants[i])
         /\ \A k \in 0 .. Len(n) : SubSeq(Children(n)[i], 1, k) = SubSeq(n, 1, k)
         /\ SubSeq(Children(n)[i], 1, Len(n) + 1) = Children(n)[i]
         /\ SubSeq(n, 1, Len(n)) = n /\ Len(n) \in Nat
<1>1. PICK q \in Names : q = Quadrants[i]
  BY DEF Quadrants, Names
<1>2. Children(n)[i] = Append(n, q)
  BY <1>1 DEF Children
<1>3. /\ Append(n, q) \in Seq(Names) /\ Len(Append(n, q)) = Len(n) + 1 /\ Len(n) \in Nat
      /\ Append(n, q)[Len(n) + 1] = q
      /\ SubSeq(n, 1, Len(n)) = n
  OBVIOUS
<1>4. \A k \in 0 .. Len(n) : SubSeq(Append(n, q), 1, k) = SubSeq(n, 1, k)
  OBVIOUS
<1>5. SubSeq(Append(n, q), 1, Len(n) + 1) = Append(n, q)
  BY <1>3
<1> HIDE DEF Names
<1> QED
  BY <1>1, <1>2, <1>3, <1>4, <1>5

LEMMA ChildrenDiffer ==
  ASSUME NEW m \in Seq(Names), NEW n \in Seq(Names), NEW i \in 1 .. 4, NEW j \in 1 .. 4,
         Children(m)[i] = Children(n)[j]
  PROVE  m = n
<1>1. /\ Len(Children(m)[i]) = Len(m) + 1 /\ Len(m) \in Nat /\ SubSeq(m, 1, Len(m)) = m
      /\ \A k \in 0 .. Len(m) : SubSeq(Children(m)[i], 1, k) = SubSeq(m, 1, k)
  BY ChildNames
<1>2. /\ Len(Children(n)[j]) = Len(n) + 1 /\ Len(n) \in Nat /\ SubSeq(n, 1, Len(n)) = n
      /\ \A k \in 0 .. Len(n) : SubSeq(Children(n)[j], 1, k) = SubSeq(n, 1, k)
  BY ChildNames
<1>3. Len(m) = Len(n) /\ Len(n) \in 0 .. Len(n)
  <2>1. \A a, b \in Nat : a + 1 = b + 1 => a = b /\ b \in 0 .. b
    OBVIOUS
  <2>2. Len(m) + 1 = Len(n) + 1 /\ Len(m) \in Nat /\ Len(n) \in Nat
    BY <1>1, <1>2
  <2> QED
    BY <2>1, <2>2
<1> QED
  BY <1>1, <1>2, <1>3

(* subdivide: four nodes that were not there, without points; the others   *)
(* stay as they are.                                                       *)
LEMMA FourMore ==
  ASSUME TypeOK, TreeInv, NEW n \in Nodes, ~Divided(n), tree' = Subdivided(n)
  PROVE  /\ Nodes' = Nodes \cup {Children(n)[i] : i \in 1 .. 4}
         /\ \A i \in 1 .. 4 : Children(n)[i] \notin Nodes
         /\ \A m \in Nodes : Boundary(m)' = Boundary(m) /\ Points(m)' = Points(m)
         /\ \A i \in 1 .. 4 :
              /\ Boundary(Children(n)[i])' = Quarter(Boundary(n), Quadrants[i])
              /\ Points(Children(n)[i])' = <<>>
<1> DEFINE new == {Children(n)[i] : i \in 1 .. 4}
<1>1. \A i \in 1 .. 4 : Children(n)[i] \notin Nodes
  BY DEF TreeInv
<1>2. tree' = [m \in Nodes \cup new |->
                 IF m \in new THEN Node(Quarter(Boundary(n), m[Len(m)])) ELSE tree[m]]
  BY DEF Subdivided, Nodes
<1>3. n \in Seq(Names)
  BY DEF TreeInv
<1>4. \A i \in 1 .. 4 : Children(n)[i][Len(Children(n)[i])] = Quadrants[i]
  BY <1>3, ChildNames
<1>5. \A i \in 1 .. 4 : Children(n)[i] \in new
  OBVIOUS
<1>6. \A m \in Nodes : m \notin new
  BY <1>1
<1>7. Nodes' = Nodes \cup new
  BY <1>2 DEF Nodes
<1> HIDE DEF new
<1>8. \A m \in Nodes : tree'[m] = tree[m]
  BY <1>2, <1>6
<1>9. \A i \in 1 .. 4 : tree'[Children(n)[i]] = Node(Quarter(Boundary(n), Quadrants[i]))
  BY <1>2, <1>4, <1>5
<1>10. \A b : Node(b).boundary = b /\ Node(b).points = <<>>
  BY DEF Node
<1> QED
  BY <1>1, <1>7, <1>8, <1>9, <1>10 DEF Boundary, Points, new

LEMMA QuarterTyped ==
  ASSUME NEW b \in Boxes, NEW q
  PROVE  Quarter(b, q) \in Boxes
<1>1. /\ b.left \in Int /\ b.top \in Int /\ b.width \div 2 \in Nat /\ b.height \div 2 \in Nat
  BY DEF Boxes
<1>2. Round(b.left + b.width \div 2) \in Int /\ Round(b.top + b.height \div 2) \in Int
  BY <1>1, RoundTyped
<1> QED
  BY <1>1, <1>2 DEF Quarter, Boxes

-----------------------------------------------------------------------------
(* Every step keeps the invariant *)

LEMMA EmptyTree ==
  ASSUME NEW b, tree = Empty(b)
  PROVE  /\ Nodes = {Root} /\ Boundary(Root) = b /\ Points(Root) = <<>>
         /\ Len(Root) = 0 /\ Root \in Seq(Names) /\ ~Divided(Root) /\ TreeInv
<1>1. Nodes = {Root} /\ Boundary(Root) = b /\ Points(Root) = <<>>
  BY DEF Nodes, Empty, Boundary, Points, Node
<1>2. Root = <<>> /\ Root \in Seq(Names) /\ Len(Root) = 0
  BY DEF Root
<1>3. \A i \in 1 .. 4 : Children(Root)[i] # Root
  <2>1. PICK r \in Seq(Names) : r = Root /\ Len(r) = 0
    BY <1>2
  <2>2. \A i \in 1 .. 4 : Len(Children(r)[i]) = Len(r) + 1
    BY ChildNames
  <2> QED
    BY <2>1, <2>2
<1>4. \A i \in 1 .. 4 : Children(Root)[i] \notin Nodes
  BY <1>1, <1>3
<1>5. ~Divided(Root)
  BY <1>4 DEF Divided, Nodes
<1>6. SubSeq(Root, 1, 0) = Root
  BY <1>2
<1>7. TreeInv
  <2>1. Nodes \subseteq Seq(Names)
    BY <1>1, <1>2
  <2>2. \A n \in Nodes : \A i \in 0 .. Len(n) : SubSeq(n, 1, i) \in Nodes
    <3>1. \A i \in 0 .. Len(Root) : i = 0
      BY <1>2
    <3> QED
      BY <1>1, <1>6, <3>1
  <2> QED
    BY <1>1, <1>4, <1>5, <2>1, <2>2 DEF TreeInv
<1> QED
  BY <1>1, <1>2, <1>5, <1>7

(* What the steps of an insertion find at the next node. *)
LEMMA NextNode ==
  ASSUME TypeOK, todo # <<>>
  PROVE  /\ Head(todo) \in Nodes /\ Head(todo) = todo[1]
         /\ Tail(todo) \in Seq(Nodes) /\ Len(Tail(todo)) = Len(todo) - 1
         /\ Len(todo) \in Nat \ {0} /\ 1 \in 1 .. Len(todo)
         /\ \A i \in 1 .. Len(todo) - 1 : Tail(todo)[i] = todo[i + 1] /\ i + 1 \in 1 .. Len(todo)
<1>1. PICK N : N = Nodes
  OBVIOUS
<1>2. todo \in Seq(N)
  BY <1>1 DEF TypeOK
<1>3. /\ Head(todo) \in N /\ Head(todo) = todo[1]
      /\ Tail(todo) \in Seq(N) /\ Len(Tail(todo)) = Len(todo) - 1
      /\ Len(todo) \in Nat \ {0} /\ 1 \in 1 .. Len(todo)
      /\ \A i \in 1 .. Len(todo) - 1 : Tail(todo)[i] = todo[i + 1] /\ i + 1 \in 1 .. Len(todo)
  BY <1>2
<1> QED
  BY <1>1, <1>3

(* Storing a point changes one node, by one entity. *)
LEMMA Stored ==
  ASSUME TypeOK, Store, NEW n, n = Head(todo)
  PROVE  /\ n \in Nodes /\ Nodes' = Nodes
         /\ \A m \in Nodes : Boundary(m)' = Boundary(m)
         /\ \A m \in Nodes \ {n} : Points(m)' = Points(m)
         /\ Points(n)' = Append(Points(n), Len(placed) + 1)
         /\ Points(n) \in Seq(Entities) /\ Len(Points(n)) < Capacity
         /\ Len(placed) \in Nat /\ Entities = 1 .. Len(placed)
         /\ Len(placed') = Len(placed) + 1 /\ Entities' = 1 .. Len(placed) + 1
         /\ placed'[Len(placed) + 1] = point
         /\ \A e \in Entities : placed'[e] = placed[e]
<1>1. n \in Nodes
  BY NextNode DEF Store
<1>2. tree' = [tree EXCEPT ![n].points = Append(@, Len(placed) + 1)]
  BY DEF Store
<1>3. /\ tree[n] \in [boundary : Boxes, points : Seq(Entities)]
      /\ Points(n) \in Seq(Entities) /\ Len(Points(n)) < Capacity
  BY <1>1 DEF TypeOK, Points, Store, Room
<1>4. /\ Len(placed) \in Nat /\ Entities = 1 .. Len(placed)
      /\ Len(placed') = Len(placed) + 1 /\ Entities' = 1 .. Len(placed) + 1
      /\ placed'[Len(placed) + 1] = point
      /\ \A e \in Entities : placed'[e] = placed[e]
  <2>1. placed \in Seq(Positions) /\ point \in Positions
    BY DEF TypeOK
  <2>2. placed' = Append(placed, point)
    BY DEF Store
  <2> QED
    BY <2>1, <2>2 DEF Entities
<1>5. DOMAIN tree' = DOMAIN tree /\ tree'[n].points = Append(tree[n].points, Len(placed) + 1)
  BY <1>1, <1>2, <1>3 DEF Nodes
<1>6. \A m \in DOMAIN tree : tree'[m].boundary = tree[m].boundary
  BY <1>1, <1>2, <1>3 DEF Nodes
<1>7. \A m \in DOMAIN tree \ {n} : tree'[m] = tree[m]
  BY <1>1, <1>2, <1>3 DEF Nodes
<1>8. /\ Nodes' = Nodes /\ Points(n)' = Append(Points(n), Len(placed) + 1)
      /\ \A m \in Nodes : Boundary(m)' = Boundary(m)
      /\ \A m \in Nodes \ {n} : Points(m)' = Points(m)
  <2>1. Nodes' = Nodes
    BY <1>5 DEF Nodes
  <2>2. Points(n)' = Append(Points(n), Len(placed) + 1)
    BY <1>5 DEF Points
  <2>3. \A m \in Nodes : Boundary(m)' = Boundary(m)
    BY <1>6 DEF Nodes, Boundary
  <2>4. \A m \in Nodes \ {n} : Points(m)' = Points(m)
    BY <1>7 DEF Nodes, Points
  <2> QED
    BY <2>1, <2>2, <2>3, <2>4
<1> QED
  BY <1>1, <1>3, <1>4, <1>8

(* Handing the point on leaves all nodes as they are; a node that had no   *)
(* children has four now, without points.                                  *)
LEMMA Descended ==
  ASSUME TypeOK, TreeInv, Descend, NEW n, n = Head(todo)
  PROVE  /\ n \in Nodes /\ n \in Seq(Names)
         /\ \A m \in Nodes : m \in Nodes' /\ Boundary(m)' = Boundary(m) /\ Points(m)' = Points(m)
         /\ \A i \in 1 .. 4 : Children(n)[i] \in Nodes'
         /\ Divided(n) => tree' = tree
         /\ ~Divided(n) => /\ tree' = Subdivided(n) /\ Len(Points(n)) = Capacity
                           /\ Nodes' = Nodes \cup {Children(n)[i] : i \in 1 .. 4}
         /\ \A m \in Nodes' : m \notin Nodes =>
              /\ ~Divided(n) /\ Points(m)' = <<>>
              /\ \E i \in 1 .. 4 : /\ m = Children(n)[i]
                                   /\ Boundary(m)' = Quarter(Boundary(n), Quadrants[i])
<1>1. n \in Nodes /\ n \in Seq(Names)
  BY NextNode DEF TreeInv, Descend
<1>2. tree' = IF Divided(n) THEN tree ELSE Subdivided(n)
  BY DEF Descend, Grown
<1>3. CASE Divided(n)
  <2>1. tree' = tree
    BY <1>2, <1>3
  <2>2. \A m : Boundary(m)' = Boundary(m) /\ Points(m)' = Points(m)
    BY <2>1 DEF Boundary, Points
  <2>3. Nodes' = Nodes
    BY <2>1 DEF Nodes
  <2>4. \A i \in 1 .. 4 : Children(n)[i] \in Nodes
    BY <1>1, <1>3 DEF TreeInv
  <2> QED
    BY <1>1, <1>3, <2>1, <2>2, <2>3, <2>4
<1>4. CASE ~Divided(n)
  <2>1. tree' = Subdivided(n)
    BY <1>2, <1>4
  <2>2. /\ Nodes' = Nodes \cup {Children(n)[i] : i \in 1 .. 4}
        /\ \A m \in Nodes : Boundary(m)' = Boundary(m) /\ Points(m)' = Points(m)
        /\ \A i \in 1 .. 4 :
             /\ Boundary(Children(n)[i])' = Quarter(Boundary(n), Quadrants[i])
             /\ Points(Children(n)[i])' = <<>>
    BY <1>1, <1>4, <2>1, FourMore
  <2>3. Len(Points(n)) = Capacity
    <3>1. Len(Points(n)) \in Nat /\ Len(Points(n)) <= Capacity
      BY <1>1 DEF TypeOK, Points
    <3>2. ~(Len(Points(n)) < Capacity)
      BY <1>4 DEF Descend, Room, Points
    <3> QED
      BY <3>1, <3>2, ParameterAssumption
  <2>4. \A m \in Nodes : m \in Nodes'
    BY <2>2
  <2>5. \A i \in 1 .. 4 : Children(n)[i] \in Nodes'
    BY <2>2
  <2>6. ASSUME NEW m \in Nodes', m \notin Nodes
        PROVE  /\ Points(m)' = <<>>
               /\ \E i \in 1 .. 4 : /\ m = Children(n)[i]
                                    /\ Boundary(m)' = Quarter(Boundary(n), Quadrants[i])
    <3>1. PICK i \in 1 .. 4 : m = Children(n)[i]
      BY <2>2, <2>6
    <3> QED
      BY <2>2, <3>1
  <2> QED
    BY <1>1, <1>4, <2>1, <2>2, <2>3, <2>4, <2>5, <2>6
<1> QED
  BY <1>3, <1>4

LEMMA FourAndRest ==
  ASSUME NEW N, NEW c \in [1 .. 4 -> N], NEW t \in Seq(N)
  PROVE  /\ c \o t \in Seq(N) /\ Len(c \o t) = Len(t) + 4
         /\ \A i \in 1 .. 4 : (c \o t)[i] = c[i]
         /\ \A i \in 1 .. Len(t) : (c \o t)[i + 4] = t[i]
<1>1. c \in Seq(N) /\ Len(c) = 4
  <2>1. c \in Seq(N)
    <3> DEFINE all == {[1 .. k -> N] : k \in Nat}
    <3>1. [1 .. 4 -> N] \in all
      OBVIOUS
    <3>2. Seq(N) = UNION all
      BY SeqDef
    <3> HIDE DEF all
    <3> QED
      BY <3>1, <3>2
  <2>2. Len(c) \in Nat /\ 1 .. Len(c) = 1 .. 4
    BY <2>1, LenProperties
  <2> QED
    BY <2>1, <2>2
<1>2. Len(c \o t) = Len(c) + Len(t) /\ c \o t \in Seq(N)
  BY <1>1, ConcatProperties
<1>3. \A i \in 1 .. Len(c) + Len(t) : (c \o t)[i] = IF i <= Len(c) THEN c[i] ELSE t[i - Len(c)]
  BY <1>1, ConcatProperties
<1>4. Len(t) \in Nat
  OBVIOUS
<1>5. ASSUME NEW i \in 1 .. Len(t)
      PROVE  (c \o t)[i + 4] = t[i]
  <2>1. i + 4 \in 1 .. Len(c) + Len(t) /\ ~(i + 4 <= Len(c)) /\ (i + 4) - Len(c) = i
    BY <1>1, <1>4
  <2>2. (c \o t)[i + 4] = t[(i + 4) - Len(c)]
    BY <1>3, <2>1
  <2> QED
    BY <2>1, <2>2
<1>6. \A i \in 1 .. 4 : i \in 1 .. Len(c) + Len(t) /\ i <= Len(c)
  BY <1>1, <1>4
<1> QED
  BY <1>1, <1>2, <1>3, <1>4, <1>5, <1>6

(* What is still to be tried after that. *)
LEMMA DescendTodo ==
  ASSUME TypeOK, TreeInv, Descend, NEW n, n = Head(todo)
  PROVE  /\ todo' \in Seq(Nodes') /\ Len(todo') = Len(todo) + 3 /\ Len(todo) \in Nat \ {0}
         /\ \A i \in 1 .. 4 : todo'[i] = Children(n)[i]
         /\ \A i \in 1 .. Len(todo) - 1 : todo'[i + 4] = todo[i + 1]
<1>1. PICK N : N = Nodes'
  OBVIOUS
<1>2. /\ \A m \in Nodes : m \in N
      /\ \A i \in 1 .. 4 : Children(n)[i] \in N
  BY <1>1, Descended
<1>3. PICK c \in [1 .. 4 -> N] : c = Children(n)
  BY <1>2 DEF Children
<1>4. todo # <<>> /\ todo' = Children(n) \o Tail(todo)
  BY DEF Descend
<1>5. PICK t \in Seq(N) : t = Tail(todo)
  <2>1. PICK M : M = Nodes
    OBVIOUS
  <2>2. M \subseteq N
    BY <1>2, <2>1
  <2>3. PICK t : t = Tail(todo)
    OBVIOUS
  <2>4. t \in Seq(M)
    BY <1>4, <2>1, <2>3, NextNode
  <2>5. t \in Seq(N)
    BY <2>2, <2>4
  <2> QED
    BY <2>3, <2>5
<1>6. /\ Len(t) = Len(todo) - 1 /\ Len(todo) \in Nat \ {0}
      /\ \A i \in 1 .. Len(todo) - 1 : t[i] = todo[i + 1]
  BY <1>4, <1>5, NextNode
<1>7. todo' = c \o t
  BY <1>3, <1>4, <1>5
<1>8. /\ c \o t \in Seq(N) /\ Len(c \o t) = Len(t) + 4
      /\ \A i \in 1 .. 4 : (c \o t)[i] = c[i]
      /\ \A i \in 1 .. Len(t) : (c \o t)[i + 4] = t[i]
  BY FourAndRest
<1>9. Len(todo') = Len(todo) + 3
  BY <1>6, <1>7, <1>8
<1> QED
  BY <1>1, <1>3, <1>6, <1>7, <1>8, <1>9

-----------------------------------------------------------------------------
(* Type correctness *)

LEMMA InitialTypes == Init => TypeOK
<1> SUFFICES ASSUME Init PROVE TypeOK
  OBVIOUS
<1>1. PICK b \in Boxes : tree = Empty(b)
  BY ParameterAssumption DEF Init
<1>2. Nodes = {Root}
  BY <1>1, EmptyTree
<1>3. tree[Root] = [boundary |-> b, points |-> <<>>]
  BY <1>1 DEF Empty, Node
<1>4. /\ tree[Root] \in [boundary : Boxes, points : Seq(Entities)]
      /\ Len(tree[Root].points) <= Capacity
  <2>1. <<>> \in Seq(Entities) /\ Len(<<>>) = 0
    OBVIOUS
  <2> QED
    BY <1>3, <2>1, ParameterAssumption
<1>5. placed \in Seq(Positions) /\ todo \in Seq(Nodes) /\ lost \subseteq Positions
  BY DEF Init
<1> QED
  BY <1>2, <1>4, <1>5 DEF Init, TypeOK

LEMMA SameTree ==
  ASSUME tree' = tree
  PROVE  /\ Nodes' = Nodes
         /\ \A m : /\ Boundary(m)' = Boundary(m) /\ Points(m)' = Points(m)
                   /\ Divided(m)' = Divided(m)
BY DEF Nodes, Boundary, Points, Divided

LEMMA ResetTree ==
  ASSUME Reset, TypeOK
  PROVE  \E b \in Boxes : b = Boundary(Root) /\ tree' = Empty(b)
BY DEF Reset, TypeOK, Boundary

LEMMA EmptyTreeAgain ==
  ASSUME NEW b, tree' = Empty(b)
  PROVE  /\ Nodes' = {Root} /\ Boundary(Root)' = b /\ Points(Root)' = <<>>
         /\ tree'[Root] = [boundary |-> b, points |-> <<>>]
         /\ ~Divided(Root)' /\ TreeInv'
<1>1. (tree = Empty(b) =>
         /\ Nodes = {Root} /\ Boundary(Root) = b /\ Points(Root) = <<>>
         /\ ~Divided(Root) /\ TreeInv)'
  BY EmptyTree, PTL
<1>2. tree'[Root] = [boundary |-> b, points |-> <<>>]
  BY DEF Empty, Node
<1> QED
  BY <1>1, <1>2

LEMMA TypeStep ==
  ASSUME TypeOK, TreeInv, SearchInv, [Next]_vars
  PROVE  TypeOK'
<1> DEFINE NodesOK ==
      \A n \in Nodes : /\ tree[n] \in [boundary : Boxes, points : Seq(Entities)]
                       /\ Len(tree[n].points) <= Capacity
<1> USE DEF TypeOK
<1>0. Nodes = DOMAIN tree
  BY DEF Nodes
<1>1. CASE UNCHANGED vars
  BY <1>1 DEF vars, Nodes, Entities
<1>2. ASSUME NEW p \in Positions, Insert(p)
      PROVE  TypeOK'
  <2>1. tree' = tree /\ placed' = placed /\ lost' = lost
    BY <1>2 DEF Insert
  <2>2. NodesOK' /\ Root \in Nodes' /\ Nodes' = Nodes
    BY <2>1 DEF Nodes, Entities
  <2>3. /\ status' \in {"sound", "dangling", "undefined"} /\ pc' \in {"idle", "insert"}
        /\ point' \in Positions /\ (todo' = <<Root>> \/ todo' = todo)
    BY <1>2 DEF Insert
  <2>4. todo' \in Seq(Nodes')
    <3>1. PICK N : N = Nodes'
      OBVIOUS
    <3>2. todo \in Seq(N)
      BY <2>2, <3>1
    <3>3. <<Root>> \in Seq(N)
      BY <2>2, <3>1
    <3> QED
      BY <2>3, <3>1, <3>2, <3>3
  <2> QED
    BY <2>1, <2>2, <2>3, <2>4
<1>3. CASE PassOver
  <2>1. /\ tree' = tree /\ placed' = placed /\ lost' = lost /\ status' = status
        /\ pc' = pc /\ point' = point /\ todo' = Tail(todo) /\ todo # <<>>
    BY <1>3 DEF PassOver
  <2>2. NodesOK' /\ Root \in Nodes' /\ Nodes' = Nodes
    BY <2>1 DEF Nodes, Entities
  <2>3. todo' \in Seq(Nodes')
    BY <2>1, <2>2, NextNode
  <2> QED
    BY <2>1, <2>2, <2>3
<1>4. CASE Store
  <2>1. PICK n : n = Head(todo)
    OBVIOUS
  <2>2. /\ n \in Nodes /\ Nodes' = Nodes
        /\ Points(n) \in Seq(Entities) /\ Len(Points(n)) < Capacity
        /\ Len(placed) \in Nat /\ Entities = 1 .. Len(placed)
        /\ Entities' = 1 .. Len(placed) + 1
    BY <1>4, <2>1, Stored
  <2>3. tree' = [tree EXCEPT ![n].points = Append(@, Len(placed) + 1)]
    BY <1>4, <2>1 DEF Store
  <2>4. Seq(Entities) \subseteq Seq(Entities')
    <3>1. PICK A, B : A = Entities /\ B = Entities'
      OBVIOUS
    <3>2. A \subseteq B
      BY <2>2, <3>1
    <3> QED
      BY <3>1, <3>2
  <2>5. ASSUME NEW m \in Nodes, m # n
        PROVE  /\ tree'[m] \in [boundary : Boxes, points : Seq(Entities')]
               /\ Len(tree'[m].points) <= Capacity
    BY <1>0, <2>2, <2>3, <2>4, <2>5
  <2>6. /\ tree'[n] \in [boundary : Boxes, points : Seq(Entities')]
        /\ Len(tree'[n].points) <= Capacity
    <3>1. PICK s : s = Append(Points(n), Len(placed) + 1)
      OBVIOUS
    <3>2. s \in Seq(Entities') /\ Len(s) <= Capacity
      <4>1. Points(n) \in Seq(Entities') /\ Len(placed) + 1 \in Entities'
        BY <2>2, <2>4
      <4>2. PICK B : B = Entities'
        OBVIOUS
      <4> QED
        BY <2>2, <3>1, <4>1, <4>2, ParameterAssumption
    <3>3. tree'[n] = [tree[n] EXCEPT !.points = s]
      BY <1>0, <2>2, <2>3, <3>1 DEF Points
    <3>4. tree[n] \in [boundary : Boxes, points : Seq(Entities)]
      BY <2>2
    <3> QED
      BY <3>2, <3>3, <3>4
  <2>7. NodesOK'
    BY <2>2, <2>5, <2>6
  <2>8. /\ placed' \in Seq(Positions) /\ todo' = <<>> /\ pc' = "idle"
        /\ status' = status /\ point' = point /\ lost' = lost
    BY <1>4 DEF Store
  <2>9. todo' \in Seq(Nodes')
    BY <2>8
  <2> QED
    BY <2>2, <2>7, <2>8, <2>9
<1>5. CASE Descend
  <2>1. PICK n : n = Head(todo)
    OBVIOUS
  <2>2. /\ status' = status /\ pc' = pc /\ point' = point /\ placed' = placed /\ lost' = lost
        /\ todo' \in Seq(Nodes')
    BY <1>5, <2>1, DescendTodo DEF Descend
  <2>3. Root \in Nodes' /\ n \in Nodes
    BY <1>5, <2>1, Descended
  <2>4. NodesOK'
    <3>1. CASE Divided(n)
      <4>1. tree' = tree
        BY <1>5, <2>1, <3>1, Descended
      <4> QED
        BY <2>2, <4>1 DEF Nodes, Entities
    <3>2. CASE ~Divided(n)
      <4> DEFINE new == {Children(n)[i] : i \in 1 .. 4}
      <4>1. tree' = Subdivided(n)
        BY <1>5, <2>1, <3>2, Descended
      <4>2. tree' = [m \in Nodes \cup new |->
                       IF m \in new THEN Node(Quarter(Boundary(n), m[Len(m)])) ELSE tree[m]]
        BY <4>1 DEF Subdivided, Nodes
      <4> HIDE DEF new
      <4>3. Entities' = Entities
        BY <2>2 DEF Entities
      <4>4. Boundary(n) \in Boxes
        BY <2>3 DEF Boundary
      <4>5. ASSUME NEW b \in Boxes
            PROVE  /\ Node(b) \in [boundary : Boxes, points : Seq(Entities)]
                   /\ Len(Node(b).points) <= Capacity
        BY ParameterAssumption DEF Node
      <4>6. ASSUME NEW m \in Nodes'
            PROVE  /\ tree'[m] \in [boundary : Boxes, points : Seq(Entities)]
                   /\ Len(tree'[m].points) <= Capacity
        <5>1. CASE m \in new
          <6>1. m \in Nodes \cup new
            BY <5>1
          <6>2. PICK q : q = m[Len(m)]
            OBVIOUS
          <6>3. tree'[m] = Node(Quarter(Boundary(n), q))
            BY <4>2, <5>1, <6>1, <6>2
          <6>4. Quarter(Boundary(n), q) \in Boxes
            BY <4>4, QuarterTyped
          <6> QED
            BY <4>5, <6>3, <6>4
        <5>2. CASE m \notin new
          <6>1. m \in Nodes /\ tree'[m] = tree[m]
            BY <4>2, <5>2 DEF Nodes
          <6> QED
            BY <6>1
        <5> QED
          BY <5>1, <5>2
      <4> QED
        BY <4>3, <4>6
    <3> QED
      BY <3>1, <3>2
  <2> QED
    BY <2>2, <2>3, <2>4
<1>6. CASE Refuse
  <2>1. /\ tree' = tree /\ placed' = placed /\ status' = status /\ pc' = "idle"
        /\ point' = point /\ todo' = todo /\ lost' = lost \cup {point}
    BY <1>6 DEF Refuse
  <2>2. NodesOK' /\ Root \in Nodes' /\ Nodes' = Nodes
    BY <2>1 DEF Nodes, Entities
  <2> QED
    BY <2>1, <2>2
<1>7. CASE Reset
  <2>1. PICK b \in Boxes : tree' = Empty(b)
    BY <1>7, ResetTree
  <2>2. Nodes' = {Root} /\ tree'[Root] = [boundary |-> b, points |-> <<>>]
    BY <2>1, EmptyTreeAgain
  <2>3. /\ placed' = <<>> /\ pc' = pc /\ point' = point /\ todo' = todo /\ lost' = lost
        /\ pc = "idle" /\ status' \in {"sound", "dangling", "undefined"}
    BY <1>7 DEF Reset
  <2>4. NodesOK'
    <3>1. <<>> \in Seq(Entities') /\ Len(<<>>) <= Capacity
      BY ParameterAssumption
    <3>2. tree'[Root] \in [boundary : Boxes, points : Seq(Entities')]
      BY <2>2, <3>1
    <3>3. tree'[Root].points = <<>>
      BY <2>2
    <3> QED
      BY <2>2, <3>1, <3>2, <3>3
  <2>5. todo' \in Seq(Nodes')
    <3>1. todo = <<>>
      BY <2>3 DEF SearchInv
    <3> QED
      BY <2>3, <3>1
  <2> QED
    BY <2>2, <2>3, <2>4, <2>5
<1> QED
  BY <1>1, <1>2, <1>3, <1>4, <1>5, <1>6, <1>7 DEF Next

-----------------------------------------------------------------------------
(* The nodes *)

(* Which nodes have children after a division. *)
LEMMA ChildrenAfter ==
  ASSUME TypeOK, TreeInv, NEW n \in Nodes, ~Divided(n), tree' = Subdivided(n)
  PROVE  /\ Divided(n)'
         /\ \A m \in Nodes' \ {n}, i \in 1 .. 4 :
              Children(m)[i] \in Nodes' <=> m \in Nodes /\ Divided(m)
<1>1. /\ Nodes' = Nodes \cup {Children(n)[i] : i \in 1 .. 4}
      /\ \A i \in 1 .. 4 : Children(n)[i] \notin Nodes
  BY FourMore
<1>2. Nodes \subseteq Seq(Names) /\ n \in Seq(Names)
  BY DEF TreeInv
<1>3. Nodes' \subseteq Seq(Names)
  <2>1. \A i \in 1 .. 4 : Children(n)[i] \in Seq(Names)
    BY <1>2, ChildNames
  <2> QED
    BY <1>1, <1>2, <2>1
<1>4. ASSUME NEW m \in Nodes', m # n, NEW i \in 1 .. 4
      PROVE  Children(m)[i] \in Nodes' <=> m \in Nodes /\ Divided(m)
  <2>1. m \in Seq(Names)
    BY <1>3
  <2>2. \A j \in 1 .. 4 : Children(m)[i] # Children(n)[j]
    BY <1>2, <1>4, <2>1, ChildrenDiffer
  <2>3. Children(m)[i] \in Nodes' <=> Children(m)[i] \in Nodes
    BY <1>1, <2>2
  <2>4. Children(m)[i] \in Nodes => m \in Nodes
    <3>1. /\ Len(Children(m)[i]) = Len(m) + 1 /\ Len(m) \in Nat
          /\ SubSeq(Children(m)[i], 1, Len(m)) = SubSeq(m, 1, Len(m)) /\ SubSeq(m, 1, Len(m)) = m
      <4>1. \A l \in Nat : l \in 0 .. l
        OBVIOUS
      <4> QED
        BY <2>1, <4>1, ChildNames
    <3>2. \A l \in Nat : l \in 0 .. l + 1
      OBVIOUS
    <3>3. Len(m) \in 0 .. Len(Children(m)[i])
      BY <3>1, <3>2
    <3> QED
      BY <3>1, <3>3 DEF TreeInv
  <2>5. m \in Nodes => (Divided(m) <=> Children(m)[i] \in Nodes)
    BY DEF TreeInv
  <2> QED
    BY <2>3, <2>4, <2>5
<1>5. Divided(n)'
  BY <1>1 DEF Divided, Nodes
<1> QED
  BY <1>4, <1>5

LEMMA TreeDivided ==
  ASSUME TypeOK, TreeInv, NEW n \in Nodes, ~Divided(n), tree' = Subdivided(n),
         Len(Points(n)) = Capacity
  PROVE  TreeInv'
<1>1. /\ Nodes' = Nodes \cup {Children(n)[i] : i \in 1 .. 4}
      /\ \A m \in Nodes : Points(m)' = Points(m)
  BY FourMore
<1>2. Nodes \subseteq Seq(Names) /\ n \in Seq(Names)
  BY DEF TreeInv
<1>3. Nodes' \subseteq Seq(Names)
  <2>1. \A i \in 1 .. 4 : Children(n)[i] \in Seq(Names)
    BY <1>2, ChildNames
  <2> QED
    BY <1>1, <1>2, <2>1
<1>4. ASSUME NEW m \in Nodes', NEW k \in 0 .. Len(m)
      PROVE  SubSeq(m, 1, k) \in Nodes'
  <2>1. CASE m \in Nodes
    BY <1>1, <2>1 DEF TreeInv
  <2>2. CASE m \notin Nodes
    <3>1. PICK i \in 1 .. 4 : m = Children(n)[i]
      BY <1>1, <2>2
    <3>2. /\ Len(m) = Len(n) + 1 /\ Len(n) \in Nat
          /\ \A l \in 0 .. Len(n) : SubSeq(m, 1, l) = SubSeq(n, 1, l)
          /\ SubSeq(m, 1, Len(n) + 1) = m
      BY <1>2, <3>1, ChildNames
    <3>3. k \in 0 .. Len(n) \/ k = Len(n) + 1
      BY <3>2
    <3>4. k \in 0 .. Len(n) => SubSeq(n, 1, k) \in Nodes
      BY DEF TreeInv
    <3> QED
      BY <1>1, <3>2, <3>3, <3>4
  <2> QED
    BY <2>1, <2>2
<1>5. \A m \in Nodes' : Divided(m)' <=> Children(m)[1] \in Nodes'
  BY DEF Divided, Nodes
<1>6. /\ Divided(n)'
      /\ \A m \in Nodes' \ {n}, i \in 1 .. 4 :
           Children(m)[i] \in Nodes' <=> m \in Nodes /\ Divided(m)
  BY ChildrenAfter
<1>7. \A i \in 1 .. 4 : Children(n)[i] \in Nodes'
  BY <1>1
<1>8. ASSUME NEW m \in Nodes', NEW i \in 1 .. 4
      PROVE  Divided(m)' <=> Children(m)[i] \in Nodes'
  <2>1. CASE m = n
    BY <1>6, <1>7, <2>1
  <2>2. CASE m # n
    BY <1>5, <1>6, <2>2
  <2> QED
    BY <2>1, <2>2
<1>9. ASSUME NEW m \in Nodes', Divided(m)'
      PROVE  Len(Points(m)') = Capacity
  <2>1. CASE m = n
    BY <1>1, <2>1
  <2>2. CASE m # n
    <3>1. m \in Nodes /\ Divided(m)
      BY <1>5, <1>6, <1>9, <2>2
    <3> QED
      BY <1>1, <3>1 DEF TreeInv
  <2> QED
    BY <2>1, <2>2
<1> QED
  BY <1>3, <1>4, <1>8, <1>9 DEF TreeInv

LEMMA TreeStep ==
  ASSUME TypeOK, TreeInv, [Next]_vars
  PROVE  TreeInv'
<1>1. CASE tree' = tree
  <2>1. /\ Nodes' = Nodes
        /\ \A m : Points(m)' = Points(m) /\ Divided(m)' = Divided(m)
    BY <1>1, SameTree
  <2> QED
    BY <2>1 DEF TreeInv
<1>2. CASE Store
  <2>1. PICK n : n = Head(todo)
    OBVIOUS
  <2>2. Nodes' = Nodes /\ \A m \in Nodes \ {n} : Points(m)' = Points(m)
    BY <1>2, <2>1, Stored
  <2>3. ~Divided(n)
    BY <1>2, <2>1 DEF Store
  <2>4. \A m : Divided(m)' = Divided(m)
    BY <2>2 DEF Divided, Nodes
  <2>5. \A m \in Nodes : Divided(m)' => Len(Points(m)') = Capacity
    BY <2>2, <2>3, <2>4 DEF TreeInv
  <2> QED
    BY <2>2, <2>4, <2>5 DEF TreeInv
<1>3. CASE Descend
  <2>1. PICK n : n = Head(todo)
    OBVIOUS
  <2>2. /\ n \in Nodes
        /\ Divided(n) => tree' = tree
        /\ ~Divided(n) => tree' = Subdivided(n) /\ Len(Points(n)) = Capacity
    BY <1>3, <2>1, Descended
  <2> QED
    BY <1>1, <2>2, TreeDivided
<1>4. CASE Reset
  <2>1. PICK b \in Boxes : tree' = Empty(b)
    BY <1>4, ResetTree
  <2> QED
    BY <2>1, EmptyTreeAgain
<1> QED
  BY <1>1, <1>2, <1>3, <1>4 DEF Next, Insert, PassOver, Refuse, vars

-----------------------------------------------------------------------------
(* Every point once, and in its place *)

(* The boundaries above a node stay as they are. *)
LEMMA AboveKept ==
  ASSUME TreeInv, \A m \in Nodes : Boundary(m)' = Boundary(m),
         NEW n \in Nodes, NEW p, Above(n, p)
  PROVE  Above(n, p)'
<1>1. Len(n) \in Nat
  BY DEF TreeInv
<1>2. ASSUME NEW i \in 0 .. Len(n) - 1
      PROVE  BoxContains(Boundary(SubSeq(n, 1, i))', p)
  <2>1. i \in 0 .. Len(n)
    BY <1>1
  <2>2. Boundary(SubSeq(n, 1, i))' = Boundary(SubSeq(n, 1, i))
    BY <2>1 DEF TreeInv
  <2> QED
    BY <2>2 DEF Above
<1> QED
  BY <1>2 DEF Above

(* A step that moves no point and takes no node away. *)
LEMMA PlaceKept ==
  ASSUME TreeInv, PlaceInv, placed' = placed,
         \A m \in Nodes : m \in Nodes' /\ Boundary(m)' = Boundary(m) /\ Points(m)' = Points(m),
         \A m \in Nodes' : m \notin Nodes => Points(m)' = <<>>
  PROVE  PlaceInv'
<1>1. \A m \in Nodes' : \A i : i \in 1 .. Len(Points(m)') => m \in Nodes /\ i \in 1 .. Len(Points(m))
  <2>1. \A i : i \notin 1 .. Len(<<>>)
    OBVIOUS
  <2> QED
    BY <2>1
<1>2. \A m, n \in Nodes' : \A i \in 1 .. Len(Points(m)'), j \in 1 .. Len(Points(n)') :
        Points(m)'[i] = Points(n)'[j] => m = n /\ i = j
  BY <1>1 DEF PlaceInv
<1>3. \A e \in Entities' : \E n \in Nodes' : \E i \in 1 .. Len(Points(n)') : Points(n)'[i] = e
  <2>1. Entities' = Entities
    BY DEF Entities
  <2> QED
    BY <2>1 DEF PlaceInv
<1>4. ASSUME NEW n \in Nodes', NEW i \in 1 .. Len(Points(n)')
      PROVE  /\ BoxContains(Boundary(n)', placed'[Points(n)'[i]])
             /\ Above(n, placed[Points(n)[i]])'
  <2>1. PICK p : p = placed[Points(n)[i]]
    OBVIOUS
  <2>2. n \in Nodes /\ i \in 1 .. Len(Points(n))
    BY <1>1
  <2>3. BoxContains(Boundary(n), p) /\ Above(n, p)
    BY <2>1, <2>2 DEF PlaceInv
  <2>4. Above(n, p)'
    BY <2>2, <2>3, AboveKept
  <2>5. placed'[Points(n)'[i]] = p
    BY <2>1, <2>2
  <2> QED
    BY <2>2, <2>3, <2>4, <2>5 DEF Above
<1> QED
  BY <1>2, <1>3, <1>4 DEF PlaceInv

LEMMA PlaceStored ==
  ASSUME TypeOK, TreeInv, PlaceInv, SearchInv, Store
  PROVE  PlaceInv'
<1>1. PICK n : n = Head(todo)
  OBVIOUS
<1>2. PICK e : e = Len(placed) + 1
  OBVIOUS
<1>3. /\ n \in Nodes /\ Nodes' = Nodes
      /\ \A m \in Nodes : Boundary(m)' = Boundary(m)
      /\ \A m \in Nodes \ {n} : Points(m)' = Points(m)
      /\ Points(n)' = Append(Points(n), e)
      /\ Len(placed) \in Nat /\ Entities = 1 .. Len(placed)
      /\ Entities' = 1 .. e
      /\ placed'[e] = point
      /\ \A f \in Entities : placed'[f] = placed[f]
  BY <1>1, <1>2, Stored
<1>4. e \notin Entities /\ \A f \in Entities' : f \in Entities \/ f = e
  BY <1>2, <1>3
<1>5. \A m \in Nodes : Points(m) \in Seq(Entities)
  BY DEF TypeOK, Points
<1>6. \A m \in Nodes : \A i \in 1 .. Len(Points(m)) : Points(m)[i] \in Entities
  BY <1>5, ElementOfSeq
<1>7. PICK l \in Nat : l = Len(Points(n))
  BY <1>3, <1>5, LenProperties
<1>8. /\ Len(Points(n)') = l + 1 /\ Points(n)'[l + 1] = e
      /\ \A i \in 1 .. l : Points(n)'[i] = Points(n)[i]
  <2>1. Points(n) \in Seq(Entities \cup {e})
    <3>1. PICK E : E = Entities
      OBVIOUS
    <3>2. Points(n) \in Seq(E)
      BY <1>3, <1>5, <3>1
    <3> QED
      BY <3>1, <3>2
  <2> QED
    BY <1>3, <1>7, <2>1, AppendProperties
(* What a slot held it holds; the only new one holds e. *)
<1>9. ASSUME NEW m \in Nodes, NEW i \in 1 .. Len(Points(m)')
      PROVE  \/ i \in 1 .. Len(Points(m)) /\ Points(m)'[i] = Points(m)[i] /\ Points(m)[i] \in Entities
             \/ m = n /\ i = l + 1 /\ Points(m)'[i] = e
  <2>1. CASE m = n
    <3>1. i \in 1 .. l \/ i = l + 1
      BY <1>7, <1>8, <2>1
    <3> QED
      BY <1>6, <1>7, <1>8, <2>1, <3>1
  <2>2. CASE m # n
    BY <1>3, <1>6, <2>2
  <2> QED
    BY <2>1, <2>2
<1>10. ASSUME NEW m \in Nodes, NEW i \in 1 .. Len(Points(m))
       PROVE  i \in 1 .. Len(Points(m)') /\ Points(m)'[i] = Points(m)[i]
  <2>1. CASE m = n
    <3>1. i \in 1 .. l /\ i \in 1 .. l + 1
      BY <1>7, <2>1
    <3> QED
      BY <1>8, <2>1, <3>1
  <2>2. CASE m # n
    BY <1>3, <2>2
  <2> QED
    BY <2>1, <2>2
<1>11. \A m, k \in Nodes' : \A i \in 1 .. Len(Points(m)'), j \in 1 .. Len(Points(k)') :
         Points(m)'[i] = Points(k)'[j] => m = k /\ i = j
  <2> SUFFICES ASSUME NEW m \in Nodes, NEW k \in Nodes,
                      NEW i \in 1 .. Len(Points(m)'), NEW j \in 1 .. Len(Points(k)'),
                      Points(m)'[i] = Points(k)'[j]
               PROVE  m = k /\ i = j
    BY <1>3
  <2>1. \/ i \in 1 .. Len(Points(m)) /\ Points(m)'[i] = Points(m)[i] /\ Points(m)[i] \in Entities
        \/ m = n /\ i = l + 1 /\ Points(m)'[i] = e
    BY <1>9
  <2>2. \/ j \in 1 .. Len(Points(k)) /\ Points(k)'[j] = Points(k)[j] /\ Points(k)[j] \in Entities
        \/ k = n /\ j = l + 1 /\ Points(k)'[j] = e
    BY <1>9
  <2>3. CASE m = n /\ i = l + 1 /\ Points(m)'[i] = e
    BY <1>4, <2>2, <2>3
  <2>4. CASE k = n /\ j = l + 1 /\ Points(k)'[j] = e
    BY <1>4, <2>1, <2>4
  <2>5. CASE /\ i \in 1 .. Len(Points(m)) /\ Points(m)'[i] = Points(m)[i]
             /\ j \in 1 .. Len(Points(k)) /\ Points(k)'[j] = Points(k)[j]
    <3>1. Points(m)[i] = Points(k)[j]
      BY <2>5
    <3>2. \A a, b \in Nodes : \A c \in 1 .. Len(Points(a)), d \in 1 .. Len(Points(b)) :
            Points(a)[c] = Points(b)[d] => a = b /\ c = d
      BY DEF PlaceInv
    <3> QED
      BY <2>5, <3>1, <3>2
  <2> QED
    BY <2>1, <2>2, <2>3, <2>4, <2>5
<1>12. ASSUME NEW f \in Entities'
       PROVE  \E m \in Nodes' : \E i \in 1 .. Len(Points(m)') : Points(m)'[i] = f
  <2>1. CASE f \in Entities
    <3>1. PICK m \in Nodes : \E i \in 1 .. Len(Points(m)) : Points(m)[i] = f
      BY <2>1 DEF PlaceInv
    <3>2. PICK i \in 1 .. Len(Points(m)) : Points(m)[i] = f
      BY <3>1
    <3>3. i \in 1 .. Len(Points(m)') /\ Points(m)'[i] = f
      BY <1>10, <3>2
    <3> QED
      BY <1>3, <3>3
  <2>2. CASE f = e
    <3>1. l + 1 \in 1 .. Len(Points(n)')
      BY <1>7, <1>8
    <3> QED
      BY <1>3, <1>8, <2>2, <3>1
  <2> QED
    BY <1>4, <2>1, <2>2
<1>13. ASSUME NEW m \in Nodes, NEW i \in 1 .. Len(Points(m)')
       PROVE  \E p : /\ p = placed'[Points(m)'[i]]
                     /\ BoxContains(Boundary(m), p) /\ Above(m, p)
  <2>1. CASE i \in 1 .. Len(Points(m)) /\ Points(m)'[i] = Points(m)[i] /\ Points(m)[i] \in Entities
    BY <1>3, <2>1 DEF PlaceInv
  <2>2. CASE m = n /\ i = l + 1 /\ Points(m)'[i] = e
    <3>1. BoxContains(Boundary(n), point) /\ todo # <<>>
      BY <1>1, <1>3 DEF Store
    <3>2. Above(n, point)
      BY <1>1, <3>1, NextNode DEF SearchInv
    <3> QED
      BY <1>3, <2>2, <3>1, <3>2
  <2> QED
    BY <1>9, <2>1, <2>2
<1>14. ASSUME NEW m \in Nodes', NEW i \in 1 .. Len(Points(m)')
       PROVE  /\ BoxContains(Boundary(m)', placed'[Points(m)'[i]])
              /\ Above(m, placed[Points(m)[i]])'
  <2>1. PICK p : /\ p = placed'[Points(m)'[i]]
                 /\ BoxContains(Boundary(m), p) /\ Above(m, p)
    BY <1>3, <1>13
  <2>2. Above(m, p)'
    BY <1>3, <2>1, AboveKept
  <2> QED
    BY <1>3, <2>1, <2>2 DEF Above
<1> QED
  BY <1>11, <1>12, <1>14 DEF PlaceInv

LEMMA PlaceEmpty ==
  ASSUME Nodes = {Root}, Points(Root) = <<>>, placed = <<>>
  PROVE  PlaceInv
<1>1. Entities = {} /\ \A i : i \notin 1 .. Len(<<>>)
  BY DEF Entities
<1> QED
  BY <1>1 DEF PlaceInv

LEMMA PlaceStep ==
  ASSUME TypeOK, TreeInv, PlaceInv, SearchInv, [Next]_vars
  PROVE  PlaceInv'
<1>1. CASE tree' = tree /\ placed' = placed
  <2>1. Nodes' = Nodes /\ \A m : Boundary(m)' = Boundary(m) /\ Points(m)' = Points(m)
    BY <1>1, SameTree
  <2> QED
    BY <1>1, <2>1, PlaceKept
<1>2. CASE Store
  BY <1>2, PlaceStored
<1>3. CASE Descend
  <2>1. PICK n : n = Head(todo)
    OBVIOUS
  <2>2. /\ \A m \in Nodes : m \in Nodes' /\ Boundary(m)' = Boundary(m) /\ Points(m)' = Points(m)
        /\ \A m \in Nodes' : m \notin Nodes => Points(m)' = <<>>
    BY <1>3, <2>1, Descended
  <2>3. placed' = placed
    BY <1>3 DEF Descend
  <2> QED
    BY <2>2, <2>3, PlaceKept
<1>4. CASE Reset
  <2>1. PICK b \in Boxes : tree' = Empty(b)
    BY <1>4, ResetTree
  <2>2. Nodes' = {Root} /\ Points(Root)' = <<>>
    BY <2>1, EmptyTreeAgain
  <2>3. placed' = <<>>
    BY <1>4 DEF Reset
  <2>4. (Nodes = {Root} /\ Points(Root) = <<>> /\ placed = <<>> => PlaceInv)'
    BY PlaceEmpty, PTL
  <2> QED
    BY <2>2, <2>3, <2>4
<1> QED
  BY <1>1, <1>2, <1>3, <1>4 DEF Next, Insert, PassOver, Refuse, vars

-----------------------------------------------------------------------------
(* Children are the quarters of their parents *)

LEMMA QuarterStep ==
  ASSUME TypeOK, TreeInv, QuarterInv, [Next]_vars
  PROVE  QuarterInv'
<1>1. CASE tree' = tree
  <2>1. /\ Nodes' = Nodes
        /\ \A m : Boundary(m)' = Boundary(m) /\ Divided(m)' = Divided(m)
    BY <1>1, SameTree
  <2> QED
    BY <2>1 DEF QuarterInv
<1>2. CASE Store
  <2>1. PICK n : n = Head(todo)
    OBVIOUS
  <2>2. Nodes' = Nodes /\ \A m \in Nodes : Boundary(m)' = Boundary(m)
    BY <1>2, <2>1, Stored
  <2>3. \A m : Divided(m)' = Divided(m)
    BY <2>2 DEF Divided, Nodes
  <2>4. \A m \in Nodes, i \in 1 .. 4 : Divided(m) => Children(m)[i] \in Nodes
    BY DEF TreeInv
  <2> QED
    BY <2>2, <2>3, <2>4 DEF QuarterInv
<1>3. CASE Descend
  <2>1. PICK n : n = Head(todo)
    OBVIOUS
  <2>2. /\ n \in Nodes
        /\ Divided(n) => tree' = tree
        /\ ~Divided(n) => tree' = Subdivided(n)
    BY <1>3, <2>1, Descended
  <2>3. CASE ~Divided(n)
    <3>1. /\ \A m \in Nodes : Boundary(m)' = Boundary(m)
          /\ \A i \in 1 .. 4 : Boundary(Children(n)[i])' = Quarter(Boundary(n), Quadrants[i])
      BY <2>2, <2>3, FourMore
    <3>2. \A m \in Nodes' \ {n}, i \in 1 .. 4 :
            Children(m)[i] \in Nodes' <=> m \in Nodes /\ Divided(m)
      BY <2>2, <2>3, ChildrenAfter
    <3>3. ASSUME NEW m \in Nodes', Divided(m)', m # n, NEW i \in 1 .. 4
          PROVE  Boundary(Children(m)[i])' = Quarter(Boundary(m)', Quadrants[i])
      <4>1. Children(m)[1] \in Nodes'
        BY <3>3 DEF Divided, Nodes
      <4>2. m \in Nodes /\ Divided(m)
        BY <3>2, <3>3, <4>1
      <4>3. Children(m)[i] \in Nodes
        BY <4>2 DEF TreeInv
      <4> QED
        BY <3>1, <4>2, <4>3 DEF QuarterInv
    <3> QED
      BY <2>2, <3>1, <3>3 DEF QuarterInv
  <2> QED
    BY <1>1, <2>2, <2>3
<1>4. CASE Reset
  <2>1. PICK b \in Boxes : tree' = Empty(b)
    BY <1>4, ResetTree
  <2>2. Nodes' = {Root} /\ ~Divided(Root)'
    BY <2>1, EmptyTreeAgain
  <2> QED
    BY <2>2 DEF QuarterInv
<1> QED
  BY <1>1, <1>2, <1>3, <1>4 DEF Next, Insert, PassOver, Refuse, vars

-----------------------------------------------------------------------------
(* Where an insertion gets to *)

LEMMA AboveRoot == \A p : Above(Root, p)
<1>1. \A i \in 0 .. Len(<<>>) - 1 : FALSE
  OBVIOUS
<1> QED
  BY <1>1 DEF Above, Root

(* Below a node that the point is in. *)
LEMMA AboveChild ==
  ASSUME NEW n \in Seq(Names), NEW p, Above(n, p), BoxContains(Boundary(n), p), NEW j \in 1 .. 4
  PROVE  Above(Children(n)[j], p)
<1>1. /\ Len(Children(n)[j]) = Len(n) + 1 /\ Len(n) \in Nat
      /\ \A k \in 0 .. Len(n) : SubSeq(Children(n)[j], 1, k) = SubSeq(n, 1, k)
      /\ SubSeq(n, 1, Len(n)) = n
  BY ChildNames
<1>2. ASSUME NEW i \in 0 .. Len(Children(n)[j]) - 1
      PROVE  BoxContains(Boundary(SubSeq(Children(n)[j], 1, i)), p)
  <2>1. i \in 0 .. Len(n) /\ (i \in 0 .. Len(n) - 1 \/ i = Len(n))
    <3>1. \A l \in Nat : \A k \in 0 .. (l + 1) - 1 : k \in 0 .. l /\ (k \in 0 .. l - 1 \/ k = l)
      OBVIOUS
    <3>2. Len(n) \in Nat /\ i \in 0 .. (Len(n) + 1) - 1
      BY <1>1
    <3> QED
      BY <3>1, <3>2
  <2>2. SubSeq(Children(n)[j], 1, i) = SubSeq(n, 1, i)
    BY <1>1, <2>1
  <2> QED
    BY <1>1, <2>1, <2>2 DEF Above
<1> QED
  BY <1>2 DEF Above

LEMMA AboveChildAgain ==
  ASSUME NEW n \in Seq(Names), NEW p, NEW j \in 1 .. 4
  PROVE  (Above(n, p) /\ BoxContains(Boundary(n), p) => Above(Children(n)[j], p))'
<1>1. Above(n, p) /\ BoxContains(Boundary(n), p) => Above(Children(n)[j], p)
  BY AboveChild
<1> QED
  BY <1>1, PTL

LEMMA SearchStep ==
  ASSUME TypeOK, TreeInv, SearchInv, [Next]_vars
  PROVE  SearchInv'
<1>1. ASSUME \A m \in Nodes : Boundary(m)' = Boundary(m), point' = point,
             NEW n \in Nodes, Above(n, point)
      PROVE  Above(n, point)'
  <2>1. PICK p : p = point
    OBVIOUS
  <2>2. Above(n, p)'
    BY <1>1, <2>1, AboveKept
  <2> QED
    BY <1>1, <2>1, <2>2
<1>2. \A i \in 1 .. Len(todo) : todo[i] \in Nodes
  BY ElementOfSeq DEF TypeOK
<1>3. CASE UNCHANGED vars
  <2>1. \A m : Boundary(m)' = Boundary(m)
    BY <1>3, SameTree DEF vars
  <2> QED
    BY <1>1, <1>2, <1>3, <2>1 DEF SearchInv, vars
<1>4. ASSUME NEW p \in Positions, Insert(p)
      PROVE  SearchInv'
  <2>1. /\ pc = "idle" /\ tree' = tree /\ todo = <<>>
        /\ \/ pc' = "idle" /\ todo' = todo
           \/ status' = "sound" /\ pc' = "insert" /\ todo' = <<Root>>
    BY <1>4 DEF Insert, SearchInv
  <2>2. ASSUME NEW q
        PROVE  Above(Root, q)'
    <3>1. \A i \in 0 .. Len(<<>>) - 1 : FALSE
      OBVIOUS
    <3> QED
      BY <3>1 DEF Above, Root
  <2>3. CASE todo' = <<>>
    BY <2>1, <2>3 DEF SearchInv
  <2>4. CASE todo' = <<Root>> /\ status' = "sound" /\ pc' = "insert"
    <3>1. \A i \in 1 .. Len(todo') : todo'[i] = Root
      BY <2>4
    <3>2. PICK q : q = point'
      OBVIOUS
    <3>3. \A i \in 1 .. Len(todo') : Above(todo[i], point)'
      BY <2>2, <3>1, <3>2
    <3> QED
      BY <2>4, <3>3 DEF SearchInv
  <2> QED
    BY <2>1, <2>3, <2>4
<1>5. CASE PassOver
  <2>1. /\ pc = "insert" /\ todo # <<>> /\ todo' = Tail(todo) /\ tree' = tree
        /\ point' = point /\ status' = status /\ pc' = pc
    BY <1>5 DEF PassOver
  <2>2. \A m : Boundary(m)' = Boundary(m)
    BY <2>1, SameTree
  <2>3. ASSUME NEW i \in 1 .. Len(todo')
        PROVE  Above(todo[i], point)'
    <3>1. /\ i \in 1 .. Len(todo) - 1
          /\ todo'[i] = todo[i + 1] /\ i + 1 \in 1 .. Len(todo)
      BY <2>1, NextNode
    <3>2. todo[i + 1] \in Nodes /\ Above(todo[i + 1], point)
      BY <1>2, <3>1 DEF SearchInv
    <3>3. PICK n \in Nodes : n = todo[i + 1]
      BY <3>2
    <3>4. Above(n, point)'
      BY <1>1, <2>1, <2>2, <3>2, <3>3
    <3> QED
      BY <3>1, <3>3, <3>4
  <2> QED
    BY <2>1, <2>3 DEF SearchInv
<1>6. CASE Store
  BY <1>6 DEF Store, SearchInv
<1>7. CASE Descend
  <2>1. PICK n : n = Head(todo)
    OBVIOUS
  <2>2. /\ pc = "insert" /\ todo # <<>> /\ status' = status /\ pc' = pc /\ point' = point
        /\ BoxContains(Boundary(n), point)
    BY <1>7, <2>1 DEF Descend
  <2>3. /\ n \in Nodes /\ n \in Seq(Names)
        /\ \A m \in Nodes : Boundary(m)' = Boundary(m)
    BY <1>7, <2>1, Descended
  <2>4. /\ Len(todo') = Len(todo) + 3 /\ Len(todo) \in Nat \ {0}
        /\ \A i \in 1 .. 4 : todo'[i] = Children(n)[i]
        /\ \A i \in 1 .. Len(todo) - 1 : todo'[i + 4] = todo[i + 1]
    BY <1>7, <2>1, DescendTodo
  <2>5. Above(n, point) /\ BoxContains(Boundary(n), point)
    BY <2>1, <2>2, NextNode DEF SearchInv
  <2>6. Above(n, point)' /\ BoxContains(Boundary(n), point)'
    <3>1. Boundary(n)' = Boundary(n)
      BY <2>3
    <3> QED
      BY <1>1, <2>2, <2>3, <2>5, <3>1
  <2>7. \A j \in 1 .. 4 : Above(Children(n)[j], point)'
    <3>1. PICK p : p = point'
      OBVIOUS
    <3>2. ASSUME NEW j \in 1 .. 4
          PROVE  (Above(n, p) /\ BoxContains(Boundary(n), p) => Above(Children(n)[j], p))'
      BY <2>3, AboveChildAgain
    <3> QED
      BY <2>6, <3>1, <3>2 DEF Above
  <2>8. ASSUME NEW i \in 1 .. Len(todo')
        PROVE  Above(todo[i], point)'
    <3>1. CASE i \in 1 .. 4
      BY <2>4, <2>7, <3>1
    <3>2. CASE i \notin 1 .. 4
      <4>1. i - 4 \in 1 .. Len(todo) - 1 /\ (i - 4) + 4 = i /\ (i - 4) + 1 \in 1 .. Len(todo)
        BY <2>4, <3>2
      <4>2. todo'[i] = todo[(i - 4) + 1]
        BY <2>4, <4>1
      <4>3. PICK m \in Nodes : m = todo[(i - 4) + 1] /\ Above(m, point)
        BY <1>2, <4>1 DEF SearchInv
      <4>4. Above(m, point)'
        BY <1>1, <2>2, <2>3, <4>3
      <4> QED
        BY <4>2, <4>3, <4>4
    <3> QED
      BY <3>1, <3>2
  <2> QED
    BY <2>2, <2>8 DEF SearchInv
<1>8. CASE Refuse
  BY <1>8 DEF Refuse, SearchInv
<1>9. CASE Reset
  BY <1>9 DEF Reset, SearchInv
<1> QED
  BY <1>3, <1>4, <1>5, <1>6, <1>7, <1>8, <1>9 DEF Next

-----------------------------------------------------------------------------
(* What is lost *)

(* Where no sum is rounded, the quarters of a cell cover it. *)
LEMMA QuartersCover ==
  ASSUME NEW b \in Boxes, Exact(b), \A i \in 1 .. 4 : Exact(Quarter(b, Quadrants[i])),
         NEW p \in [x : Int, y : Int], BoxContains(b, p)
  PROVE  \E i \in 1 .. 4 : BoxContains(Quarter(b, Quadrants[i]), p)
<1> DEFINE w == b.width \div 2
           h == b.height \div 2
<1>1. /\ b.left \in Int /\ b.top \in Int /\ p.x \in Int /\ p.y \in Int
      /\ w \in Nat /\ h \in Nat
  BY DEF Boxes
<1>2. /\ b.width = w + w /\ b.height = h + h
      /\ Right(b) = b.left + b.width /\ Round(b.left + w) = b.left + w
      /\ Bottom(b) = b.top + b.height /\ Round(b.top + h) = b.top + h
  BY DEF Exact
<1>3. /\ b.left <= p.x /\ p.x <= b.left + (w + w)
      /\ b.top <= p.y /\ p.y <= b.top + (h + h)
  BY <1>2 DEF BoxContains
<1>4. ASSUME NEW q, Exact(Quarter(b, q))
      PROVE  /\ Right(Quarter(b, q)) = Quarter(b, q).left + w
             /\ Bottom(Quarter(b, q)) = Quarter(b, q).top + h
  BY <1>4 DEF Exact, Quarter
<1>5. ASSUME NEW q
      PROVE  /\ Quarter(b, q).left = IF q \in {"NE", "SE"} THEN b.left + w ELSE b.left
             /\ Quarter(b, q).top = IF q \in {"SW", "SE"} THEN b.top + h ELSE b.top
  BY <1>2 DEF Quarter
<1> HIDE DEF w, h
<1>6. Quadrants[1] = "NW" /\ Quadrants[2] = "NE" /\ Quadrants[3] = "SE" /\ Quadrants[4] = "SW"
  BY DEF Quadrants
<1>7. \A i \in 1 .. 4 :
        /\ Right(Quarter(b, Quadrants[i])) = Quarter(b, Quadrants[i]).left + w
        /\ Bottom(Quarter(b, Quadrants[i])) = Quarter(b, Quadrants[i]).top + h
  BY <1>4
<1>8. CASE p.x <= b.left + w /\ p.y <= b.top + h
  <2>1. BoxContains(Quarter(b, Quadrants[1]), p)
    BY <1>1, <1>3, <1>5, <1>6, <1>7, <1>8 DEF BoxContains
  <2> QED
    BY <2>1
<1>9. CASE ~(p.x <= b.left + w) /\ p.y <= b.top + h
  <2>1. BoxContains(Quarter(b, Quadrants[2]), p)
    BY <1>1, <1>3, <1>5, <1>6, <1>7, <1>9 DEF BoxContains
  <2> QED
    BY <2>1
<1>10. CASE ~(p.x <= b.left + w) /\ ~(p.y <= b.top + h)
  <2>1. BoxContains(Quarter(b, Quadrants[3]), p)
    BY <1>1, <1>3, <1>5, <1>6, <1>7, <1>10 DEF BoxContains
  <2> QED
    BY <2>1
<1>11. CASE p.x <= b.left + w /\ ~(p.y <= b.top + h)
  <2>1. BoxContains(Quarter(b, Quadrants[4]), p)
    BY <1>1, <1>3, <1>5, <1>6, <1>7, <1>11 DEF BoxContains
  <2> QED
    BY <2>1
<1> QED
  BY <1>8, <1>9, <1>10, <1>11

(* Handing a point on: where no boundary is rounded, a child has it inside. *)
LEMMA ChildTakes ==
  ASSUME TypeOK, TreeInv, QuarterInv, QuarterInv', Descend, AllExact',
         NEW n, n = Head(todo)
  PROVE  \E i \in 1 .. 4 : BoxContains(Boundary(Children(n)[i])', point)
<1>1. /\ n \in Nodes /\ n \in Nodes' /\ Boundary(n)' = Boundary(n)
      /\ \A i \in 1 .. 4 : Children(n)[i] \in Nodes'
  BY Descended
<1>2. Divided(n)'
  BY <1>1 DEF Divided, Nodes
<1>3. PICK b \in Boxes : b = Boundary(n)
  BY <1>1 DEF TypeOK, Boundary
<1>4. \A i \in 1 .. 4 : Boundary(Children(n)[i])' = Quarter(b, Quadrants[i])
  <2>1. \A i \in 1 .. 4 : Boundary(Children(n)[i])' = Quarter(Boundary(n)', Quadrants[i])
    BY <1>1, <1>2 DEF QuarterInv
  <2> QED
    BY <1>1, <1>3, <2>1
<1>5. Exact(b) /\ \A i \in 1 .. 4 : Exact(Quarter(b, Quadrants[i]))
  <2>1. \A m \in Nodes' : Exact(Boundary(m)')
    BY DEF AllExact, Exact
  <2> QED
    BY <1>1, <1>3, <1>4, <2>1
<1>6. PICK p \in [x : Int, y : Int] : p = point
  BY ParameterAssumption DEF TypeOK
<1>7. BoxContains(b, p)
  BY <1>3, <1>6 DEF Descend
<1>8. \E i \in 1 .. 4 : BoxContains(Quarter(b, Quadrants[i]), p)
  BY <1>5, <1>7, QuartersCover
<1> QED
  BY <1>4, <1>6, <1>8

LEMMA LossStep ==
  ASSUME TypeOK, TreeInv, QuarterInv, QuarterInv', SearchInv, LossInv, [Next]_vars
  PROVE  LossInv'
<1>1. ASSUME tree' = tree
      PROVE  /\ Divided(Root)' = Divided(Root) /\ AllExact' = AllExact
             /\ \A m : Boundary(m)' = Boundary(m)
  <2>1. Nodes' = Nodes /\ \A m : Boundary(m)' = Boundary(m)
    BY <1>1, SameTree
  <2>2. Divided(Root)' = Divided(Root)
    BY <1>1 DEF Divided
  <2>3. AllExact' = AllExact
    BY <2>1 DEF AllExact, Exact
  <2> QED
    BY <2>1, <2>2, <2>3
<1>2. CASE UNCHANGED vars
  <2>1. /\ Divided(Root)' = Divided(Root) /\ AllExact' = AllExact
        /\ \A m : Boundary(m)' = Boundary(m)
    BY <1>1, <1>2 DEF vars
  <2> QED
    BY <1>2, <2>1 DEF LossInv, vars
<1>3. ASSUME NEW p \in Positions, Insert(p)
      PROVE  LossInv'
  <2>1. tree' = tree /\ lost' = lost /\ pc = "idle"
    BY <1>3 DEF Insert
  <2>2. /\ Divided(Root)' = Divided(Root) /\ AllExact' = AllExact
        /\ \A m : Boundary(m)' = Boundary(m)
    BY <1>1, <2>1
  <2>3. CASE status' = "undefined"
    BY <2>3 DEF LossInv
  <2>4. CASE /\ status = "sound" /\ point' = p /\ todo' = <<Root>>
    <3>1. BoxContains(Boundary(Root)', point')
      BY <1>3, <2>2, <2>4 DEF Insert
    <3>2. 1 \in 1 .. Len(todo') /\ todo'[1] = Root
      BY <2>4
    <3>3. \E i \in 1 .. Len(todo') : BoxContains(Boundary(todo[i])', point')
      BY <3>1, <3>2
    <3>4. (lost # {} => Divided(Root) /\ ~AllExact)'
      BY <2>1, <2>2, <2>4 DEF LossInv
    <3> QED
      BY <2>4, <3>1, <3>3, <3>4 DEF LossInv
  <2> QED
    BY <1>3, <2>3, <2>4 DEF Insert
<1>4. CASE PassOver
  <2>1. /\ pc = "insert" /\ todo # <<>> /\ todo' = Tail(todo) /\ tree' = tree /\ lost' = lost
        /\ point' = point /\ status' = status /\ pc' = pc
        /\ ~BoxContains(Boundary(Head(todo)), point)
    BY <1>4 DEF PassOver
  <2>2. /\ Divided(Root)' = Divided(Root) /\ AllExact' = AllExact
        /\ \A m : Boundary(m)' = Boundary(m)
    BY <1>1, <2>1
  <2>3. /\ Head(todo) = todo[1] /\ Len(Tail(todo)) = Len(todo) - 1
        /\ Len(todo) \in Nat \ {0}
        /\ \A i \in 1 .. Len(todo) - 1 : Tail(todo)[i] = todo[i + 1]
    BY <2>1, NextNode
  <2> SUFFICES ASSUME status = "sound" PROVE LossInv'
    BY <2>1 DEF LossInv
  <2>4. Divided(Root)
    <3>1. todo = <<Root>> => Head(todo) = Root
      OBVIOUS
    <3> QED
      BY <2>1, <3>1 DEF LossInv
  <2>5. ASSUME AllExact
        PROVE  \E i \in 1 .. Len(todo') : BoxContains(Boundary(todo[i])', point')
    <3>1. PICK i \in 1 .. Len(todo) : BoxContains(Boundary(todo[i]), point)
      BY <2>1, <2>5 DEF LossInv
    <3>2. i # 1
      BY <2>1, <2>3, <3>1
    <3>3. i - 1 \in 1 .. Len(todo) - 1 /\ (i - 1) + 1 = i
      BY <2>3, <3>1, <3>2
    <3>4. i - 1 \in 1 .. Len(todo') /\ todo'[i - 1] = todo[i]
      BY <2>1, <2>3, <3>3
    <3>5. PICK m : m = todo[i]
      OBVIOUS
    <3>6. BoxContains(Boundary(m)', point')
      BY <2>1, <2>2, <3>1, <3>5
    <3> QED
      BY <3>4, <3>5, <3>6
  <2> QED
    BY <2>1, <2>2, <2>4, <2>5 DEF LossInv
<1>5. CASE Store
  <2>1. PICK n : n = Head(todo)
    OBVIOUS
  <2>2. Nodes' = Nodes /\ \A m \in Nodes : Boundary(m)' = Boundary(m)
    BY <1>5, <2>1, Stored
  <2>3. Divided(Root)' = Divided(Root)
    BY <2>2 DEF Divided, Nodes
  <2>4. AllExact' = AllExact
    BY <2>2 DEF AllExact, Exact
  <2>5. pc' = "idle" /\ status' = status /\ lost' = lost
    BY <1>5 DEF Store
  <2> QED
    BY <2>3, <2>4, <2>5 DEF LossInv
<1>6. CASE Descend
  <2>1. PICK n : n = Head(todo)
    OBVIOUS
  <2>2. /\ pc = "insert" /\ todo # <<>> /\ status' = status /\ point' = point /\ lost' = lost
    BY <1>6 DEF Descend
  <2>3. /\ \A m \in Nodes : m \in Nodes' /\ Boundary(m)' = Boundary(m)
        /\ \A i \in 1 .. 4 : Children(n)[i] \in Nodes'
    BY <1>6, <2>1, Descended
  <2>4. Divided(Root) => Divided(Root)'
    BY <2>3 DEF Divided, Nodes
  <2>5. AllExact' => AllExact
    BY <2>3 DEF AllExact, Exact
  <2> SUFFICES ASSUME status = "sound" PROVE LossInv'
    BY <2>2 DEF LossInv
  <2>6. Divided(Root)'
    <3>1. todo = <<Root>> => n = Root
      BY <2>1
    <3>2. n = Root => Divided(Root)'
      BY <2>3 DEF Divided, Nodes
    <3> QED
      BY <2>2, <2>4, <3>1, <3>2 DEF LossInv
  <2>7. ASSUME AllExact'
        PROVE  \E i \in 1 .. Len(todo') : BoxContains(Boundary(todo[i])', point')
    <3>1. PICK i \in 1 .. 4 : BoxContains(Boundary(Children(n)[i])', point)
      BY <1>6, <2>1, <2>7, ChildTakes
    <3>2. i \in 1 .. Len(todo') /\ todo'[i] = Children(n)[i]
      BY <1>6, <2>1, DescendTodo
    <3> QED
      BY <2>2, <3>1, <3>2
  <2>8. lost' # {} => ~AllExact'
    BY <2>2, <2>5 DEF LossInv
  <2> QED
    BY <2>6, <2>7, <2>8 DEF LossInv
<1>7. CASE Refuse
  <2>1. pc = "insert" /\ todo = <<>> /\ tree' = tree /\ pc' = "idle" /\ status' = status
    BY <1>7 DEF Refuse
  <2>2. Divided(Root)' = Divided(Root) /\ AllExact' = AllExact
    BY <1>1, <2>1
  <2>3. \A i : i \notin 1 .. Len(<<>>)
    OBVIOUS
  <2>4. <<>> # <<Root>>
    OBVIOUS
  <2>5. status = "sound" => Divided(Root) /\ ~AllExact
    BY <2>1, <2>3, <2>4 DEF LossInv
  <2> QED
    BY <2>1, <2>2, <2>5 DEF LossInv
<1>8. CASE Reset
  <2>1. pc' = "idle" /\ lost' = lost
    BY <1>8 DEF Reset
  <2>2. status' = "sound" => status = "sound" /\ ~Divided(Root)
    BY <1>8 DEF Reset, TypeOK
  <2>3. status' = "sound" => lost' = {}
    BY <2>1, <2>2 DEF LossInv
  <2> QED
    BY <2>1, <2>3 DEF LossInv
<1> QED
  BY <1>2, <1>3, <1>4, <1>5, <1>6, <1>7, <1>8 DEF Next

-----------------------------------------------------------------------------
(* The invariant holds in all states, and what follows from it             *)

LEMMA Initially == Init => IInv
<1> SUFFICES ASSUME Init PROVE IInv
  OBVIOUS
<1>1. PICK b : tree = Empty(b)
  BY DEF Init
<1>2. Nodes = {Root} /\ Points(Root) = <<>> /\ ~Divided(Root) /\ TreeInv
  BY <1>1, EmptyTree
<1>3. TypeOK
  BY InitialTypes
<1>4. pc = "idle" /\ todo = <<>> /\ placed = <<>> /\ lost = {}
  BY DEF Init
<1>5. PlaceInv
  BY <1>2, <1>4, PlaceEmpty
<1>6. QuarterInv
  BY <1>2 DEF QuarterInv
<1>7. SearchInv
  <2>1. \A i : i \notin 1 .. Len(<<>>)
    OBVIOUS
  <2> QED
    BY <1>4, <2>1 DEF SearchInv
<1>8. LossInv
  BY <1>4 DEF LossInv
<1> QED
  BY <1>2, <1>3, <1>5, <1>6, <1>7, <1>8 DEF IInv

LEMMA Step == IInv /\ [Next]_vars => IInv'
<1> SUFFICES ASSUME IInv, [Next]_vars PROVE IInv'
  OBVIOUS
<1>1. TypeOK /\ TreeInv /\ QuarterInv /\ PlaceInv /\ SearchInv /\ LossInv
  BY DEF IInv
<1>2. QuarterInv'
  BY <1>1, QuarterStep
<1> QED
  BY <1>1, <1>2, TypeStep, TreeStep, PlaceStep, SearchStep, LossStep DEF IInv

(* In every state of an insertion, between any two of its calls: the nodes *)
(* form a tree of quarters, divided only where full; every point accepted  *)
(* has one slot, in cells it is in; the nodes yet to be tried lie below    *)
(* cells that the point is in; and one of them can take it unless some     *)
(* boundary was rounded.                                                   *)
THEOREM InductiveInvariant == Spec => []IInv
<1> QED
  BY Initially, Step, PTL DEF Spec

(* The variables have their types, and no node holds more than             *)
(* QT_NODE_CAPACITY points.                                                *)
THEOREM TypeCorrect == Spec => []TypeOK
<1>1. IInv => TypeOK
  BY DEF IInv
<1> QED
  BY <1>1, InductiveInvariant, PTL

(* What the slots are, and what is in them. *)
LEMMA SlotForm ==
  ASSUME TypeOK
  PROVE  /\ \A slot \in Slots :
              /\ slot[1] \in Nodes /\ slot[2] \in 1 .. Len(Points(slot[1]))
              /\ slot = <<slot[1], slot[2]>>
              /\ EntityAt(slot) = Points(slot[1])[slot[2]] /\ EntityAt(slot) \in Entities
         /\ \A n \in Nodes : \A i \in 1 .. Len(Points(n)) :
              <<n, i>> \in Slots /\ EntityAt(<<n, i>>) = Points(n)[i]
<1>1. ASSUME NEW n \in Nodes
      PROVE  Points(n) \in Seq(Entities) /\ DOMAIN Points(n) = 1 .. Len(Points(n))
  BY DEF TypeOK, Points
<1>2. ASSUME NEW slot \in Slots
      PROVE  /\ slot[1] \in Nodes /\ slot[2] \in 1 .. Len(Points(slot[1]))
             /\ slot = <<slot[1], slot[2]>>
             /\ EntityAt(slot) = Points(slot[1])[slot[2]] /\ EntityAt(slot) \in Entities
  <2>1. PICK n \in Nodes : slot \in {n} \X DOMAIN Points(n)
    BY DEF Slots, Points
  <2>2. slot[1] = n /\ slot[2] \in 1 .. Len(Points(n)) /\ slot = <<slot[1], slot[2]>>
    BY <1>1, <2>1
  <2>3. EntityAt(slot) = Points(slot[1])[slot[2]]
    BY DEF EntityAt, Points
  <2>4. Points(n)[slot[2]] \in Entities
    BY <1>1, <2>2, ElementOfSeq
  <2> QED
    BY <2>2, <2>3, <2>4
<1>3. ASSUME NEW n \in Nodes, NEW i \in 1 .. Len(Points(n))
      PROVE  <<n, i>> \in Slots /\ EntityAt(<<n, i>>) = Points(n)[i]
  <2>1. <<n, i>> \in {n} \X DOMAIN Points(n)
    BY <1>1
  <2> QED
    BY <2>1 DEF Slots, EntityAt, Points
<1> QED
  BY <1>2, <1>3

LEMMA NoEntityTwice ==
  ASSUME TypeOK, PlaceInv
  PROVE  \A a, b \in Slots : EntityAt(a) = EntityAt(b) => a = b
<1> SUFFICES ASSUME NEW a \in Slots, NEW b \in Slots, EntityAt(a) = EntityAt(b)
             PROVE  a = b
  OBVIOUS
<1>1. /\ a[1] \in Nodes /\ a[2] \in 1 .. Len(Points(a[1])) /\ a = <<a[1], a[2]>>
      /\ b[1] \in Nodes /\ b[2] \in 1 .. Len(Points(b[1])) /\ b = <<b[1], b[2]>>
      /\ Points(a[1])[a[2]] = Points(b[1])[b[2]]
  BY SlotForm
<1>2. a[1] = b[1] /\ a[2] = b[2]
  BY <1>1 DEF PlaceInv
<1> QED
  BY <1>1, <1>2

(* An entity has a slot, and it is in the cell of its node and in all      *)
(* above it.                                                               *)
LEMMA HasSlot ==
  ASSUME TypeOK, TreeInv, PlaceInv, NEW e \in Entities
  PROVE  \E slot \in Slots :
           /\ EntityAt(slot) = e /\ slot[1] \in Nodes
           /\ \A up \in Seqs!Prefixes(slot[1]) : BoxContains(Boundary(up), placed[e])
<1>1. PICK n \in Nodes : \E i \in 1 .. Len(Points(n)) : Points(n)[i] = e
  BY DEF PlaceInv
<1>2. PICK i \in 1 .. Len(Points(n)) : Points(n)[i] = e
  BY <1>1
<1>3. BoxContains(Boundary(n), placed[e]) /\ Above(n, placed[e])
  BY <1>2 DEF PlaceInv
<1>4. PICK slot \in Slots : slot = <<n, i>> /\ EntityAt(slot) = e
  BY <1>2, SlotForm
<1>5. n \in Seq(Names) /\ SubSeq(n, 1, Len(n)) = n /\ Len(n) \in Nat
  BY SubSeqFull DEF TreeInv
<1>6. ASSUME NEW up \in Seqs!Prefixes(n)
      PROVE  BoxContains(Boundary(up), placed[e])
  <2>1. PICK k \in 0 .. Len(n) : up = SubSeq(n, 1, k)
    BY DEF Seqs!Prefixes
  <2>2. k \in 0 .. Len(n) - 1 \/ k = Len(n)
    <3>1. \A l \in Nat : \A j \in 0 .. l : j \in 0 .. l - 1 \/ j = l
      OBVIOUS
    <3> QED
      BY <1>5, <3>1
  <2> QED
    BY <1>3, <1>5, <2>1, <2>2 DEF Above
<1> QED
  BY <1>4, <1>6

(* Whatever is inserted, and in whatever order: each point that insert     *)
(* accepted is in one node, once, inside the boundary of that node and of  *)
(* all above it, and no node is divided before it is full.                 *)
THEOREM PointsPlacedOnce == Spec => []PlacedOnce
<1>1. ASSUME IInv PROVE PlacedOnce
  <2>1. TypeOK /\ TreeInv /\ PlaceInv
    BY <1>1 DEF IInv
  <2>2. ASSUME NEW e \in Entities
        PROVE  \E slot \in Slots :
                 /\ {other \in Slots : EntityAt(other) = e} = {slot}
                 /\ \A up \in Seqs!Prefixes(slot[1]) : BoxContains(Boundary(up), placed[e])
    <3>1. PICK slot \in Slots :
            /\ EntityAt(slot) = e
            /\ \A up \in Seqs!Prefixes(slot[1]) : BoxContains(Boundary(up), placed[e])
      BY <2>1, HasSlot
    <3>2. \A other \in Slots : EntityAt(other) = e => other = slot
      BY <2>1, <3>1, NoEntityTwice
    <3>3. {other \in Slots : EntityAt(other) = e} = {slot}
      BY <3>1, <3>2
    <3> QED
      BY <3>1, <3>3
  <2>3. \A n \in Nodes : Divided(n) => Len(tree[n].points) = Capacity
    BY <2>1 DEF TreeInv, Points
  <2> QED
    BY <2>2, <2>3 DEF PlacedOnce
<1> QED
  BY <1>1, InductiveInvariant, PTL

(* A point that is in a box, but not on its border, and in a cell: the two *)
(* intersect.                                                              *)
LEMMA MeetWherePointIs ==
  ASSUME NEW r \in Boxes, NEW b \in Boxes, NEW p \in [x : Int, y : Int],
         r.left < p.x, p.x < Right(r), r.top < p.y, p.y < Bottom(r), BoxContains(b, p)
  PROVE  BoxesIntersect(r, b)
<1>1. \A c \in Boxes : /\ c.left \in Int /\ c.top \in Int
                       /\ c.left + c.width \in Int /\ c.top + c.height \in Int
  BY DEF Boxes
<1>2. \A c \in Boxes : Right(c) \in Int /\ Bottom(c) \in Int
  BY <1>1, RoundTyped DEF Right, Bottom
<1>3. p.x \in Int /\ p.y \in Int
  OBVIOUS
<1> QED
  BY <1>1, <1>2, <1>3 DEF BoxContains, BoxesIntersect

LEMMA BoxIsNoCircle == \A range \in Boxes : ~IsCircle(range)
<1>1. ASSUME NEW range \in Boxes PROVE DOMAIN range = {"left", "top", "width", "height"}
  BY DEF Boxes
<1> QED
  BY <1>1 DEF IsCircle

(* A query for a box answers with every point that is in it and not on its *)
(* border, with none outside, and with none twice, for all trees that      *)
(* inserting can build.                                                    *)
THEOREM RangeQueryFinds == Spec => []RangeQuery
<1>1. ASSUME IInv, NEW range \in Ranges
      PROVE  /\ NoneTwice(Query(range))
             /\ Within(range) \subseteq Found(Query(range))
             /\ Found(Query(range)) \subseteq Inside(range)
  <2>1. TypeOK /\ TreeInv /\ PlaceInv
    BY <1>1 DEF IInv
  <2>2. range \in Boxes /\ ~IsCircle(range)
    BY BoxIsNoCircle, ParameterAssumption
  <2>3. \A p : Contains(range, p) = BoxContains(range, p)
    BY <2>2 DEF Contains
  <2>4. NoneTwice(Query(range))
    BY <2>1, NoEntityTwice DEF NoneTwice, Query
  <2>5. Found(Query(range)) \subseteq Inside(range)
    BY <2>1, SlotForm DEF Found, Query, Inside
  <2>6. ASSUME NEW e \in Within(range)
        PROVE  e \in Found(Query(range))
    <3>1. e \in Entities
      BY DEF Within
    <3>2. PICK p \in [x : Int, y : Int] : p = placed[e]
      <4>1. placed[e] \in Positions
        BY <2>1, <3>1 DEF TypeOK, Entities
      <4> QED
        BY <4>1, ParameterAssumption
    <3>3. range.left < p.x /\ p.x < Right(range) /\ range.top < p.y /\ p.y < Bottom(range)
      BY <3>2 DEF Within
    <3>4. PICK slot \in Slots :
            /\ EntityAt(slot) = e /\ slot[1] \in Nodes
            /\ \A up \in Seqs!Prefixes(slot[1]) : BoxContains(Boundary(up), placed[e])
      BY <2>1, <3>1, HasSlot
    <3>5. ASSUME NEW up \in Seqs!Prefixes(slot[1])
          PROVE  Intersects(range, Boundary(up))
      <4>1. up \in Nodes
        BY <2>1, <3>4 DEF TreeInv, Seqs!Prefixes
      <4>2. PICK b \in Boxes : b = Boundary(up)
        BY <2>1, <4>1 DEF TypeOK, Boundary
      <4>3. BoxContains(b, p)
        BY <3>2, <3>4, <4>2
      <4>4. BoxesIntersect(range, b)
        BY <2>2, <3>3, <4>3, MeetWherePointIs
      <4> QED
        BY <2>2, <4>2, <4>4 DEF Intersects
    <3>6. BoxContains(range, p)
      <4>1. range.left \in Int /\ range.top \in Int /\ p.x \in Int /\ p.y \in Int
        BY <2>2 DEF Boxes
      <4>2. Right(range) \in Int /\ Bottom(range) \in Int
        <5>1. range.left + range.width \in Int /\ range.top + range.height \in Int
          BY <2>2 DEF Boxes
        <5> QED
          BY <5>1, RoundTyped DEF Right, Bottom
      <4> QED
        BY <3>3, <4>1, <4>2 DEF BoxContains
    <3>7. slot[1] \in Visited(range)
      BY <3>4, <3>5 DEF Visited
    <3>8. slot \in Query(range)
      BY <2>3, <3>2, <3>4, <3>6, <3>7 DEF Query
    <3> QED
      BY <3>4, <3>8 DEF Found
  <2> QED
    BY <2>4, <2>5, <2>6
<1>2. IInv => RangeQuery
  BY <1>1 DEF RangeQuery
<1> QED
  BY <1>2, InductiveInvariant, PTL

(* insert refuses a point inside the boundary only where the boundary of   *)
(* some cell was rounded; "this should never happen" is true of all other  *)
(* trees.                                                                  *)
THEOREM OnlyRoundingLoses == Spec => []LostOnlyByRounding
<1>1. IInv => LostOnlyByRounding
  BY DEF IInv, LossInv, LostOnlyByRounding
<1> QED
  BY <1>1, InductiveInvariant, PTL

-----------------------------------------------------------------------------
(* Circles *)

LEMMA Squares ==
  ASSUME NEW a \in Nat, NEW b \in Nat
  PROVE  a * a \in Nat /\ (a <= b <=> a * a <= b * b) /\ a <= a * a
<1>1. ASSUME NEW k \in Nat, NEW l \in Nat, k <= l
      PROVE  k * k <= l * l
  <2>1. k * k <= k * l
    BY <1>1
  <2>2. k * l <= l * l
    BY <1>1
  <2> QED
    BY <2>1, <2>2
<1>2. ASSUME NEW k \in Nat, NEW l \in Nat, k < l
      PROVE  k * k < l * l
  <2>1. k * k <= k * l
    BY <1>2
  <2>2. k * l < l * l
    BY <1>2
  <2> QED
    BY <2>1, <2>2
<1>3. a * a \in Nat /\ b * b \in Nat
  OBVIOUS
<1>4. a <= a * a
  <2>1. CASE a = 0
    BY <2>1
  <2>2. CASE a >= 1
    <3>1. a * 1 <= a * a
      BY <2>2
    <3> QED
      BY <3>1
  <2> QED
    BY <2>1, <2>2
<1>5. a <= b => a * a <= b * b
  BY <1>1
<1>6. b < a => b * b < a * a
  BY <1>2
<1>7. \A k, l \in Nat : k < l => ~(l <= k)
  OBVIOUS
<1>8. a <= b \/ b < a
  OBVIOUS
<1> QED
  BY <1>3, <1>4, <1>5, <1>6, <1>7, <1>8

(* How far the center of a circle is from that of a cell, with a point of  *)
(* the circle in the cell.                                                 *)
LEMMA ApartBy ==
  ASSUME NEW c \in Int, NEW p \in Int, NEW left \in Int, NEW w \in Nat,
         left <= p, p <= left + (w + w), Held(c - (left + w)), Held(p - c)
  PROVE  /\ Distance(c, left + w) \in Nat /\ Distance(p, c) \in Nat
         /\ Distance(c, left + w) <= w + Distance(p, c)
<1>1. Round(c - (left + w)) = c - (left + w) /\ Round(p - c) = p - c
  BY DEF Held
<1> QED
  BY <1>1 DEF Distance

LEMMA MeetInCircle ==
  ASSUME NEW c \in [x : Int, y : Int, r : Nat], NEW b \in Boxes,
         NEW p \in [x : Int, y : Int], Exact(b), BoxContains(b, p), CircleContains(c, p),
         c.r * c.r < Significands, Held(p.x - c.x), Held(p.y - c.y),
         Held(c.x - (b.left + b.width \div 2)), Held(c.y - (b.top + b.height \div 2)),
         Held(b.width \div 2 + c.r), Held(b.height \div 2 + c.r)
  PROVE  CircleIntersects(c, b)
<1>1. PICK w \in Nat, h \in Nat, r \in Nat :
        w = b.width \div 2 /\ h = b.height \div 2 /\ r = c.r
  BY DEF Boxes
<1>2. b.left \in Int /\ b.top \in Int /\ p.x \in Int /\ p.y \in Int /\ c.x \in Int /\ c.y \in Int
  BY DEF Boxes
<1>3. /\ Round(b.left + w) = b.left + w /\ Round(b.top + h) = b.top + h
      /\ b.left <= p.x /\ p.x <= b.left + (w + w)
      /\ b.top <= p.y /\ p.y <= b.top + (h + h)
  BY <1>1 DEF Exact, BoxContains
<1>4. PICK dx, dy, ex, ey :
        /\ dx = Distance(c.x, b.left + w) /\ dy = Distance(c.y, b.top + h)
        /\ ex = Distance(p.x, c.x) /\ ey = Distance(p.y, c.y)
  OBVIOUS
<1>5. dx \in Nat /\ ex \in Nat /\ dx <= w + ex
  BY <1>1, <1>2, <1>3, <1>4, ApartBy
<1>6. dy \in Nat /\ ey \in Nat /\ dy <= h + ey
  BY <1>1, <1>2, <1>3, <1>4, ApartBy
<1>7. ex * ex + ey * ey <= r * r
  BY <1>1, <1>4 DEF CircleContains
<1>8. ex * ex \in Nat /\ ey * ey \in Nat /\ r * r \in Nat
  BY <1>5, <1>6, Squares
<1>9. ex * ex <= r * r /\ ey * ey <= r * r
  BY <1>7, <1>8
<1>10. ex <= r /\ ey <= r
  BY <1>5, <1>6, <1>9, Squares
<1>11. dx <= Round(w + r) /\ dy <= Round(h + r)
  <2>1. Round(w + r) = w + r /\ Round(h + r) = h + r
    BY <1>1 DEF Held
  <2> QED
    BY <1>5, <1>6, <1>10, <2>1
<1>12. ASSUME ~(dx <= w), ~(dy <= h)
       PROVE  Round(Square(Round(dx - w)) + Square(Round(dy - h))) <= Square(r)
  <2>1. PICK u \in Nat, v \in Nat : u = dx - w /\ v = dy - h /\ u <= ex /\ v <= ey
    BY <1>5, <1>6, <1>12
  <2>2. u * u \in Nat /\ v * v \in Nat /\ u * u <= ex * ex /\ v * v <= ey * ey
        /\ u <= u * u /\ v <= v * v
    BY <1>5, <1>6, <2>1, Squares
  <2>3. u * u + v * v <= r * r /\ u * u + v * v \in Nat
    BY <1>7, <1>8, <2>2
  <2>4. r * r < Significands
    BY <1>1
  <2>5. /\ u < Significands /\ v < Significands /\ u * u < Significands
        /\ v * v < Significands /\ u * u + v * v < Significands
    BY <1>8, <2>2, <2>3, <2>4, ParameterAssumption
  <2>6. /\ Round(u) = u /\ Round(v) = v /\ Round(u * u) = u * u /\ Round(v * v) = v * v
        /\ Round(u * u + v * v) = u * u + v * v /\ Round(r * r) = r * r
    BY <1>8, <2>1, <2>2, <2>3, <2>4, <2>5, SmallHeld DEF Held
  <2>7. Square(u) = u * u /\ Square(v) = v * v /\ Square(r) = r * r
    BY <2>6 DEF Square
  <2> QED
    BY <2>1, <2>3, <2>6, <2>7
<1> QED
  BY <1>1, <1>3, <1>4, <1>11, <1>12 DEF CircleIntersects

(* A query for a circle answers with no point outside and none twice, and, *)
(* where nothing is rounded, with all that are in it or on it.             *)
THEOREM CircleQueryFinds == Spec => []CircleQuery
<1>1. ASSUME IInv, NEW circle \in Circles
      PROVE  /\ NoneTwice(Query(circle)) /\ Found(Query(circle)) \subseteq Inside(circle)
             /\ AllExact /\ ExactFor(circle) => Inside(circle) \subseteq Found(Query(circle))
  <2>1. TypeOK /\ TreeInv /\ PlaceInv
    BY <1>1 DEF IInv
  <2>2. circle \in [x : Int, y : Int, r : Nat] /\ IsCircle(circle)
    <3>1. circle \in [x : Int, y : Int, r : Nat]
      BY ParameterAssumption
    <3> QED
      BY <3>1 DEF IsCircle
  <2>3. \A p : Contains(circle, p) = CircleContains(circle, p)
    BY <2>2 DEF Contains
  <2>4. NoneTwice(Query(circle))
    BY <2>1, NoEntityTwice DEF NoneTwice, Query
  <2>5. Found(Query(circle)) \subseteq Inside(circle)
    BY <2>1, SlotForm DEF Found, Query, Inside
  <2>6. ASSUME AllExact, ExactFor(circle), NEW e \in Inside(circle)
        PROVE  e \in Found(Query(circle))
    <3>1. e \in Entities /\ CircleContains(circle, placed[e])
      BY <2>3 DEF Inside
    <3>2. PICK p \in [x : Int, y : Int] : p = placed[e]
      <4>1. placed[e] \in Positions
        BY <2>1, <3>1 DEF TypeOK, Entities
      <4> QED
        BY <4>1, ParameterAssumption
    <3>3. PICK slot \in Slots :
            /\ EntityAt(slot) = e /\ slot[1] \in Nodes
            /\ \A up \in Seqs!Prefixes(slot[1]) : BoxContains(Boundary(up), placed[e])
      BY <2>1, <3>1, HasSlot
    <3>4. ASSUME NEW up \in Seqs!Prefixes(slot[1])
          PROVE  Intersects(circle, Boundary(up))
      <4>1. up \in Nodes
        BY <2>1, <3>3 DEF TreeInv, Seqs!Prefixes
      <4>2. PICK b \in Boxes : b = Boundary(up)
        BY <2>1, <4>1 DEF TypeOK, Boundary
      <4>3. BoxContains(b, p) /\ CircleContains(circle, p) /\ Exact(b)
        BY <2>6, <3>1, <3>2, <3>3, <4>1, <4>2 DEF AllExact
      <4>4. /\ circle.r * circle.r < Significands
            /\ Held(p.x - circle.x) /\ Held(p.y - circle.y)
        BY <2>6, <3>1, <3>2 DEF ExactFor
      <4>5. /\ Held(circle.x - (b.left + b.width \div 2))
            /\ Held(circle.y - (b.top + b.height \div 2))
            /\ Held(b.width \div 2 + circle.r) /\ Held(b.height \div 2 + circle.r)
        BY <2>6, <4>1, <4>2 DEF ExactFor
      <4>6. CircleIntersects(circle, b)
        BY <2>2, <4>3, <4>4, <4>5, MeetInCircle
      <4> QED
        BY <2>2, <4>2, <4>6 DEF Intersects
    <3>5. slot[1] \in Visited(circle)
      BY <3>3, <3>4 DEF Visited
    <3>6. slot \in Query(circle)
      BY <2>3, <3>1, <3>3, <3>5 DEF Query
    <3> QED
      BY <3>3, <3>6 DEF Found
  <2> QED
    BY <2>4, <2>5, <2>6
<1>2. IInv => CircleQuery
  BY <1>1 DEF CircleQuery
<1> QED
  BY <1>2, InductiveInvariant, PTL

=============================================================================
