--------------------------- MODULE ParserOrderProofs ---------------------------
(***************************************************************************)
(* Theorems about the tree of Parser, for every set of token arrays: that  *)
(* its texts are in the order of the source, that it is a tree, and that   *)
(* its operators nest as their precedences ask where the loop that builds  *)
(* them can.                                                               *)
(*                                                                         *)
(* OrderInv gives each node an interval of the tokens.  What is below a    *)
(* node lies in its interval, and the intervals of its fields follow one   *)
(* another; the interval of a node that is being built is open.  Operators *)
(* and suffixes put a copy of a finished node between a node and what was  *)
(* below it; that the copy and the operand built after it lie in order is  *)
(* the case that needs FrameOrder, which says what a function still has to *)
(* link.  RanksInv says that the pointers lead away from the root.         *)
(*                                                                         *)
(* ClimbInv says of each function of an operator chain how tight the       *)
(* operators to come bind (Expects) and how tight what it has built binds  *)
(* (Settled), and of each operator node that its operands are finished.    *)
(***************************************************************************)
EXTENDS ParserNodeProofs, ParseTrees, FiniteSetTheorems, WellFoundedInduction

Open == Len(tokens) + 1

(* The texts of a node and of what is below it stand after lo and up to    *)
(* hi, in the order of its fields; the name of a declaration stands        *)
(* between its type and its value.                                         *)
InOrder(x, n, lo, hi, open) ==
  /\ \A k \in 1 .. 4 : Points(x, k) =>
       /\ lo[n] <= lo[x.kids[k]] /\ hi[x.kids[k]] <= hi[n]
       /\ hi[x.kids[k]] = open => n < x.kids[k]
  /\ \A j, k \in 1 .. 4 : Points(x, j) /\ Points(x, k) /\ j < k =>
       hi[x.kids[j]] <= lo[x.kids[k]]
  /\ x.held > 0 =>
       /\ lo[n] < x.held /\ x.held <= hi[n]
       /\ \A k \in 1 .. 4 : Points(x, k) =>
            /\ x.type = "STMT_ASSIGNMENT"
            /\ k = 1 => hi[x.kids[k]] < x.held
            /\ k # 1 => x.held <= lo[x.kids[k]]

(* The node a function builds last: its own, or the right one of the two.  *)
Last(f) ==
  CASE f.at \in {"nth_right", "nth_deep"} -> f.own[1]
    [] f.at = "trail" -> f.own[2]
    [] OTHER -> f.tree

FrameOrder(f, x, lo, hi, open) ==
  /\ f.tree <= Last(f) /\ hi[f.tree] = open /\ hi[Last(f)] = open
  /\ f.at \in Locals => lo[f.tree] <= lo[Last(f)] /\ f.tree # Last(f)
  /\ f.at \in {"nth_right", "nth_deep"} =>
       /\ x.held <= lo[Last(f)]
       /\ \A k \in 1 .. 4 : Points(x, k) => hi[x.kids[k]] <= lo[Last(f)]
  /\ f.at = "trail" => lo[f.tree] <= lo[f.own[1]] /\ hi[f.own[1]] <= lo[Last(f)]
  /\ f.at \in {"assign", "let_name"} => x.type = "STMT_ASSIGNMENT"
  /\ f.at \in {"if_cond", "for", "stmts_next"} => x.held = 0
  /\ f.at = "if_cond" => ~Points(x, 3)

Ordered(lo, hi) ==
  /\ \A n \in DOMAIN heap :
       lo[n] \in 0 .. pos /\ (hi[n] \in 0 .. pos \/ hi[n] = Open) /\ heap[n].held <= pos
  /\ \A n \in DOMAIN heap : n \notin StaleOf(stack) => InOrder(heap[n], n, lo, hi, Open)
  /\ \A i \in DOMAIN stack : FrameOrder(stack[i], heap[stack[i].tree], lo, hi, Open)
  /\ \A i, j \in DOMAIN stack : i < j => Last(stack[i]) <= stack[j].tree

OrderInv == \E lo, hi : Ordered(lo, hi)

-----------------------------------------------------------------------------
(* The nodes allocated since Top.tree are finished when its function goes  *)
(* on, unless it has another one go on with its right operand.             *)
Closes(lo, hi, lo2, hi2, keep) ==
  \A n \in DOMAIN heap :
    /\ lo2[n] = lo[n]
    /\ hi2[n] = IF ~keep /\ n > Top.tree /\ hi[n] = Open THEN pos ELSE hi[n]

LEMMA KidExists ==
  ASSUME ParserInv, NEW n \in DOMAIN heap
  PROVE  /\ n \in Nat /\ heap[n].held \in Nat
         /\ \A k : Points(heap[n], k) => heap[n].kids[k] \in DOMAIN heap /\ heap[n].kids[k] \in Nat
<1>1. PICK m : m = Len(heap)
  OBVIOUS
<1>2. m \in Nat /\ DOMAIN heap = 1 .. m /\ heap[n] \in Nodes(m)
  BY <1>1 DEF ParserInv
<1>3. heap[n].kids \in Seq({NullTree, Wild} \union 1 .. m) /\ heap[n].held \in Nat
  BY <1>2 DEF Nodes
<1>4. ASSUME NEW k, Points(heap[n], k) PROVE heap[n].kids[k] \in 1 .. m
  <2>1. heap[n].kids[k] \in {NullTree, Wild} \union 1 .. m
    BY <1>3, <1>4 DEF Points
  <2> QED
    BY <1>4, <2>1 DEF Points, NullTree, Wild
<1> QED
  BY <1>2, <1>3, <1>4

(* What is in order stays in order when nodes are closed. *)
LEMMA InOrderKept ==
  ASSUME ParserInv, stack # <<>>, NEW lo, NEW hi, Ordered(lo, hi),
         NEW lo2, NEW hi2, NEW keep, Closes(lo, hi, lo2, hi2, keep),
         NEW n \in DOMAIN heap, InOrder(heap[n], n, lo, hi, Open)
  PROVE  InOrder(heap[n], n, lo2, hi2, Open)
<1>1. PICK x, e, t : x = heap[n] /\ e = Open /\ t = Top.tree
  OBVIOUS
<1>2. /\ n \in Nat /\ x.held \in Nat /\ e \in Nat /\ pos \in Nat /\ pos < e /\ t \in Nat
      /\ \A k : Points(x, k) => x.kids[k] \in DOMAIN heap /\ x.kids[k] \in Nat
  BY <1>1, KidExists, Tokens_, TopTyped DEF Open, ParserInv
<1>3. \A m \in DOMAIN heap :
        /\ lo[m] \in Nat /\ lo[m] <= pos /\ hi[m] \in Nat /\ (hi[m] <= pos \/ hi[m] = e) /\ heap[m].held <= pos
        /\ lo2[m] = lo[m]
        /\ hi2[m] = IF ~keep /\ m > t /\ hi[m] = e THEN pos ELSE hi[m]
  BY <1>1, <1>2 DEF Ordered, Closes
<1>4. \A m \in DOMAIN heap : /\ hi2[m] \in Nat /\ hi2[m] <= hi[m] /\ (hi2[m] = e => hi[m] = e)
                             /\ (hi[m] # e => hi2[m] = hi[m])
                             /\ (hi2[m] = hi[m] \/ hi2[m] = pos)
  BY <1>2, <1>3
<1>5. InOrder(x, n, lo, hi, e)
  BY <1>1
<1>6. ASSUME NEW k \in 1 .. 4, Points(x, k)
      PROVE  /\ lo2[n] <= lo2[x.kids[k]] /\ hi2[x.kids[k]] <= hi2[n]
             /\ hi2[x.kids[k]] = e => n < x.kids[k]
  <2>1. PICK c \in DOMAIN heap : c = x.kids[k] /\ c \in Nat
    BY <1>2, <1>6
  <2>2. lo[n] <= lo[c] /\ hi[c] <= hi[n] /\ (hi[c] = e => n < c)
    BY <1>5, <1>6, <2>1 DEF InOrder
  <2>3. hi2[c] <= hi2[n]
    <3>1. CASE hi2[n] = hi[n]
      BY <1>3, <1>4, <2>2, <3>1
    <3>2. CASE hi2[n] # hi[n]
      <4>1. ~keep /\ n > t /\ hi[n] = e /\ hi2[n] = pos
        BY <1>3, <3>2
      <4>2. CASE hi[c] = e
        <5>1. c > t
          BY <1>2, <2>1, <2>2, <4>1, <4>2
        <5> QED
          BY <1>2, <1>3, <4>1, <4>2, <5>1
      <4>3. CASE hi[c] # e
        BY <1>3, <4>1, <4>3
      <4> QED
        BY <4>2, <4>3
    <3> QED
      BY <3>1, <3>2
  <2> QED
    BY <1>3, <1>4, <2>1, <2>2, <2>3
<1>7. ASSUME NEW j \in 1 .. 4, NEW k \in 1 .. 4, Points(x, j), Points(x, k), j < k
      PROVE  hi2[x.kids[j]] <= lo2[x.kids[k]]
  <2>1. PICK b \in DOMAIN heap, c \in DOMAIN heap : b = x.kids[j] /\ c = x.kids[k]
    BY <1>2, <1>7
  <2>2. hi[b] <= lo[c]
    BY <1>5, <1>7, <2>1 DEF InOrder
  <2>3. hi[b] \in Nat /\ lo[c] \in Nat /\ hi2[b] \in Nat /\ hi2[b] <= hi[b] /\ lo2[c] = lo[c]
    BY <1>3, <1>4
  <2>4. hi2[b] <= lo2[c]
    BY <2>2, <2>3
  <2> QED
    BY <2>1, <2>4
<1>8. ASSUME x.held > 0
      PROVE  /\ lo2[n] < x.held /\ x.held <= hi2[n]
             /\ \A k \in 1 .. 4 : Points(x, k) =>
                  /\ x.type = "STMT_ASSIGNMENT"
                  /\ k = 1 => hi2[x.kids[k]] < x.held
                  /\ k # 1 => x.held <= lo2[x.kids[k]]
  <2>1. lo[n] < x.held /\ x.held <= hi[n]
    BY <1>5, <1>8 DEF InOrder
  <2>2. x.held <= pos
    BY <1>1, <1>3
  <2>3. lo2[n] < x.held /\ x.held <= hi2[n]
    BY <1>2, <1>3, <1>4, <2>1, <2>2
  <2>4. ASSUME NEW k \in 1 .. 4, Points(x, k)
        PROVE  /\ x.type = "STMT_ASSIGNMENT"
               /\ k = 1 => hi2[x.kids[k]] < x.held
               /\ k # 1 => x.held <= lo2[x.kids[k]]
    <3>1. PICK c \in DOMAIN heap : c = x.kids[k]
      BY <1>2, <2>4
    <3>2. /\ x.type = "STMT_ASSIGNMENT" /\ (k = 1 => hi[c] < x.held) /\ (k # 1 => x.held <= lo[c])
      BY <1>5, <1>8, <2>4, <3>1 DEF InOrder
    <3>3. hi[c] \in Nat /\ hi2[c] \in Nat /\ hi2[c] <= hi[c] /\ lo2[c] = lo[c]
      BY <1>3, <1>4
    <3> QED
      BY <1>2, <3>1, <3>2, <3>3
  <2> QED
    BY <2>3, <2>4
<1>9. InOrder(x, n, lo2, hi2, e)
  BY <1>6, <1>7, <1>8 DEF InOrder
<1> QED
  BY <1>1, <1>9

-----------------------------------------------------------------------------
(* A step, if the frames it leaves are in order. *)

(* What a frame below the innermost one says of its nodes still holds.     *)
LEMMA FrameKept ==
  ASSUME ParserInv, stack # <<>>, NodesInv, NEW lo, NEW hi, Ordered(lo, hi), Local,
         NEW lo2, NEW hi2, NEW keep, Closes(lo, hi, lo2, hi2, keep),
         NEW i \in 1 .. Len(stack) - 1
  PROVE  LET f == stack[i] IN
         /\ FrameOrder(f, heap'[f.tree], lo2, hi2, Open)
         /\ f.tree <= Top.tree /\ Last(f) <= Top.tree
<1>1. PICK f, e, t, x : f = stack[i] /\ e = Open /\ t = Top.tree /\ x = heap[f.tree]
  OBVIOUS
<1>2. i \in DOMAIN stack /\ i < Len(stack) /\ Len(stack) \in DOMAIN stack /\ Top = stack[Len(stack)]
  BY StackBase
<1>3. f \in GoodFrames(Len(heap)) /\ Len(heap) \in Nat /\ DOMAIN heap = 1 .. Len(heap)
  BY <1>1, <1>2, StackBase, Tokens_ DEF ParserInv
<1>4. /\ f.tree \in DOMAIN heap /\ f.tree \in Nat /\ f.own \in Seq(1 .. Len(heap))
      /\ f.at \in {"nth_right", "nth_deep"} => Len(f.own) = 1
      /\ f.at = "trail" => Len(f.own) = 2
  BY <1>3 DEF GoodFrames, Frames, WellFormed
<1>5. /\ f.at \in {"nth_right", "nth_deep"} => f.own[1] \in DOMAIN heap
      /\ f.at = "trail" => f.own[1] \in DOMAIN heap /\ f.own[2] \in DOMAIN heap
  BY <1>3, <1>4
<1>6. PICK l \in DOMAIN heap : l = Last(f) /\ l \in Nat
  BY <1>3, <1>4, <1>5 DEF Last
<1>7. FrameOrder(f, x, lo, hi, e) /\ l <= t
  BY <1>1, <1>2, <1>6 DEF Ordered
<1>8. t \in Nat /\ e \in Nat /\ pos \in Nat /\ pos < e
  BY <1>1, TopTyped, Tokens_ DEF Open, ParserInv
<1>9. \A m \in DOMAIN heap :
        /\ lo[m] \in Nat /\ lo[m] <= pos /\ hi[m] \in Nat /\ (hi[m] <= pos \/ hi[m] = e)
        /\ lo2[m] = lo[m]
        /\ hi2[m] = IF ~keep /\ m > t /\ hi[m] = e THEN pos ELSE hi[m]
  BY <1>1, <1>8 DEF Ordered, Closes
<1>10. \A m \in DOMAIN heap : /\ hi2[m] \in Nat /\ hi2[m] <= hi[m] /\ (hi2[m] = e => hi[m] = e)
                              /\ (m \in Nat /\ m <= t => hi2[m] = hi[m])
  BY <1>8, <1>9
<1>11. f.tree <= l /\ hi[f.tree] = e /\ hi[l] = e
  BY <1>6, <1>7 DEF FrameOrder
<1>12. f.tree <= t
  BY <1>4, <1>6, <1>7, <1>8, <1>11
<1>13. hi2[f.tree] = e /\ hi2[l] = e
  BY <1>4, <1>6, <1>7, <1>10, <1>11, <1>12
<1>14. CASE f.at \notin Holding
  <2>1. l = f.tree
    BY <1>6, <1>14 DEF Last, Holding
  <2> QED
    <3>1. f.at # "assign"
      BY <1>1, <1>2 DEF NodesInv, FramesInv, Working
    <3> QED
      BY <1>1, <1>6, <1>7, <1>11, <1>12, <1>13, <1>14, <2>1, <3>1 DEF FrameOrder, Holding
<1>15. CASE f.at \in Holding
  <2>1. f.tree # t
    BY <1>1, <1>15, NearApart DEF NodesInv, FramesInv, Near
  <2>2. heap'[f.tree] = x
    BY <1>1, <1>3, <1>4, <2>1 DEF Local
  <2>3. \A k \in 1 .. 4 : Points(x, k) => x.kids[k] \in DOMAIN heap
    BY <1>1, <1>4, KidExists
  <2>4. CASE f.at \in {"nth_right", "nth_deep"}
    <3>1. lo[f.tree] <= lo[l] /\ x.held <= lo[l] /\ f.tree # l
      BY <1>6, <1>7, <2>4 DEF FrameOrder, Locals
    <3>2. ASSUME NEW k \in 1 .. 4, Points(x, k) PROVE hi2[x.kids[k]] <= lo[l]
      <4>1. hi[x.kids[k]] <= lo[l] /\ x.kids[k] \in DOMAIN heap
        BY <1>6, <1>7, <2>3, <2>4, <3>2 DEF FrameOrder
      <4> QED
        BY <1>6, <1>9, <1>10, <4>1
    <3>3. lo2[f.tree] <= lo2[l] /\ x.held <= lo2[l] /\ \A k \in 1 .. 4 : Points(x, k) => hi2[x.kids[k]] <= lo2[l]
      BY <1>4, <1>6, <1>9, <3>1, <3>2
    <3>4. FrameOrder(f, x, lo2, hi2, e)
      BY <1>6, <1>11, <1>13, <2>4, <3>1, <3>3 DEF FrameOrder, Locals
    <3> QED
      BY <1>1, <1>6, <1>7, <1>12, <2>2, <3>4
  <2>5. CASE f.at = "trail"
    <3>1. PICK o \in DOMAIN heap : o = f.own[1]
      BY <1>5, <2>5
    <3>2. lo[f.tree] <= lo[o] /\ hi[o] <= lo[l] /\ lo[f.tree] <= lo[l] /\ f.tree # l
      BY <1>6, <1>7, <2>5, <3>1 DEF FrameOrder, Locals
    <3>3. lo2[f.tree] <= lo2[o] /\ hi2[o] <= lo2[l] /\ lo2[f.tree] <= lo2[l]
      BY <1>4, <1>6, <1>9, <1>10, <3>2, SMTT(30)
    <3>4. FrameOrder(f, x, lo2, hi2, e)
      BY <1>6, <1>11, <1>13, <2>5, <3>1, <3>2, <3>3 DEF FrameOrder
    <3> QED
      BY <1>1, <1>6, <1>7, <1>12, <2>2, <3>4
  <2>6. CASE f.at \notin Locals
    <3>1. FrameOrder(f, x, lo2, hi2, e)
      BY <1>6, <1>7, <1>11, <1>13, <2>6 DEF FrameOrder, Locals
    <3> QED
      BY <1>1, <1>6, <1>7, <1>12, <2>2, <3>1
  <2> QED
    BY <2>4, <2>5, <2>6 DEF Locals
<1> QED
  BY <1>14, <1>15

(* Order is kept if it is where the step has been: at its node, the nodes  *)
(* it allocates and the frames it leaves.                                  *)
NewOrder(lo2, hi2) ==
  /\ \A n \in DOMAIN heap' : n \notin DOMAIN heap =>
       /\ lo2[n] \in 0 .. pos' /\ (hi2[n] \in 0 .. pos' \/ hi2[n] = Open)
       /\ heap'[n].held <= pos' /\ InOrder(heap'[n], n, lo2, hi2, Open)
  /\ heap'[Top.tree].held <= pos'
  /\ Top.tree \notin StaleOf(stack') => InOrder(heap'[Top.tree], Top.tree, lo2, hi2, Open)

LEMMA OrderStep ==
  ASSUME ParserInv, stack # <<>>, NodesInv, NEW lo, NEW hi, Ordered(lo, hi), Local,
         tokens' = tokens, pos' \in Nat, pos <= pos',
         NEW lo2, NEW hi2, NEW keep, Closes(lo, hi, lo2, hi2, keep), NewOrder(lo2, hi2),
         \A a \in StaleOf(stack) : a = Top.tree \/ a \in StaleOf(stack'),
         NEW m \in {Len(stack) - 1, Len(stack), Len(stack) + 1}, DOMAIN stack' = 1 .. m,
         \A i \in 1 .. Len(stack) - 1 : stack'[i] = stack[i],
         \A i \in DOMAIN stack' : i >= Len(stack) =>
           /\ FrameOrder(stack'[i], heap'[stack'[i].tree], lo2, hi2, Open)
           /\ Top.tree <= stack'[i].tree /\ stack'[i].tree \in Nat,
         \A i, j \in DOMAIN stack' : i >= Len(stack) /\ i < j => Last(stack'[i]) <= stack'[j].tree
  PROVE  Ordered(lo2, hi2)'
<1>1. PICK n, e, t : n = Len(stack) /\ e = Open /\ t = Top.tree
  OBVIOUS
<1>2. /\ n \in Nat \ {0} /\ DOMAIN stack = 1 .. n /\ Top = stack[n] /\ n \in DOMAIN stack
      /\ \A i \in 1 .. n - 1 : i \in 1 .. n /\ i \in DOMAIN stack /\ i < n
  BY <1>1, StackBase
<1>3. /\ Open' = e /\ e \in Nat /\ pos \in Nat /\ pos < e /\ t \in 1 .. Len(heap) /\ t \in Nat
      /\ Len(heap) \in Nat /\ DOMAIN heap = 1 .. Len(heap)
  BY <1>1, TopTyped, Tokens_ DEF Open, ParserInv
<1>4. \A a \in DOMAIN heap :
        /\ lo[a] \in Nat /\ lo[a] <= pos /\ hi[a] \in Nat /\ (hi[a] <= pos \/ hi[a] = e)
        /\ heap[a].held <= pos /\ lo2[a] = lo[a]
        /\ hi2[a] = IF ~keep /\ a > t /\ hi[a] = e THEN pos ELSE hi[a]
  BY <1>1, <1>3 DEF Ordered, Closes
<1>5. \A a \in DOMAIN heap' : a \notin DOMAIN heap =>
        /\ lo2[a] \in 0 .. pos' /\ (hi2[a] \in 0 .. pos' \/ hi2[a] = e)
        /\ heap'[a].held <= pos' /\ InOrder(heap'[a], a, lo2, hi2, e)
  BY <1>1 DEF NewOrder
<1>6. \A a \in DOMAIN heap : a \in DOMAIN heap' /\ (a # t => heap'[a] = heap[a])
  BY <1>1, <1>3 DEF Local
<1>7. ASSUME NEW a \in DOMAIN heap'
      PROVE  lo2[a] \in 0 .. pos' /\ (hi2[a] \in 0 .. pos' \/ hi2[a] = e) /\ heap'[a].held <= pos'
  <2>1. CASE a \notin DOMAIN heap
    BY <1>5, <2>1
  <2>2. CASE a \in DOMAIN heap
    <3>1. lo2[a] \in Nat /\ lo2[a] <= pos /\ hi2[a] \in Nat /\ (hi2[a] <= pos \/ hi2[a] = e)
      BY <1>3, <1>4, <2>2
    <3>2. heap'[a].held <= pos'
      <4>1. CASE a = t
        BY <1>1, <4>1 DEF NewOrder
      <4>2. CASE a # t
        <5>1. heap'[a] = heap[a] /\ heap[a].held <= pos /\ heap[a].held \in Nat
          BY <1>4, <1>6, <2>2, <4>2, KidExists
        <5> QED
          BY <1>3, <5>1
      <4> QED
        BY <4>1, <4>2
    <3> QED
      BY <1>3, <3>1, <3>2
  <2> QED
    BY <2>1, <2>2
<1>8. ASSUME NEW a \in DOMAIN heap', a \notin StaleOf(stack')
      PROVE  InOrder(heap'[a], a, lo2, hi2, e)
  <2>1. CASE a \notin DOMAIN heap
    BY <1>5, <2>1
  <2>2. CASE a = t
    BY <1>1, <1>8, <2>2 DEF NewOrder
  <2>3. CASE a \in DOMAIN heap /\ a # t
    <3>1. a \notin StaleOf(stack) /\ heap'[a] = heap[a]
      BY <1>1, <1>6, <1>8, <2>3
    <3>2. InOrder(heap[a], a, lo, hi, Open)
      BY <2>3, <3>1 DEF Ordered
    <3>3. InOrder(heap[a], a, lo2, hi2, Open)
      BY <2>3, <3>2, InOrderKept
    <3> QED
      BY <1>1, <3>1, <3>3
  <2> QED
    BY <2>1, <2>2, <2>3
<1>9. \A i \in 1 .. n - 1 : /\ FrameOrder(stack[i], heap'[stack[i].tree], lo2, hi2, e)
                            /\ stack[i].tree <= t /\ Last(stack[i]) <= t
  BY <1>1, FrameKept
<1>10. \A i \in 1 .. m : i \in 1 .. n - 1 \/ i >= n
  BY <1>1, <1>2
<1>11. \A i \in DOMAIN stack' : FrameOrder(stack'[i], heap'[stack'[i].tree], lo2, hi2, e)
  BY <1>1, <1>9, <1>10
<1>12. ASSUME NEW i \in DOMAIN stack', NEW j \in DOMAIN stack', i < j
       PROVE  Last(stack'[i]) <= stack'[j].tree
  <2>1. CASE i \in 1 .. n - 1 /\ j \in 1 .. n - 1
    <3>1. stack'[i] = stack[i] /\ stack'[j] = stack[j] /\ i \in DOMAIN stack /\ j \in DOMAIN stack
      BY <1>1, <1>2, <2>1
    <3> QED
      BY <1>12, <3>1 DEF Ordered
  <2>2. CASE i \in 1 .. n - 1 /\ j >= n
    <3>1. Last(stack[i]) <= t /\ stack'[i] = stack[i]
      BY <1>1, <1>9, <2>2
    <3>2. t <= stack'[j].tree /\ stack'[j].tree \in Nat
      BY <1>1, <2>2
    <3>3. Last(stack[i]) \in Nat
      <4>1. stack[i] \in GoodFrames(Len(heap)) 
        BY <1>2, <2>2, StackBase
      <4>2. stack[i].own \in Seq(1 .. Len(heap)) /\ stack[i].tree \in 1 .. Len(heap)
            /\ (stack[i].at \in {"nth_right", "nth_deep"} => Len(stack[i].own) = 1)
            /\ (stack[i].at = "trail" => Len(stack[i].own) = 2)
        BY <4>1 DEF GoodFrames, Frames, WellFormed
      <4> QED
        BY <1>3, <4>2, SMTT(30) DEF Last
    <3> QED
      BY <1>3, <3>1, <3>2, <3>3
  <2>3. CASE i >= n
    BY <1>1, <1>12, <2>3
  <2> QED
    BY <1>10, <2>1, <2>2, <2>3, <1>2, <1>12
<1> QED
  BY <1>3, <1>7, <1>8, <1>11, <1>12 DEF Ordered

(* What the innermost function makes of its node: its fields are those it  *)
(* had, and one after them that points to the new node; its text is the    *)
(* one it had, or that of the next token, which stands after the fields it *)
(* had.                                                                    *)
Grows(x, k0) ==
  LET old == heap[Top.tree] IN
  /\ \A k \in 1 .. 4 : Points(x, k) =>
       \/ k = k0 /\ x.kids[k] = New1
       \/ Points(old, k) /\ x.kids[k] = old.kids[k] /\ (k0 # 0 => k < k0)
  /\ \/ k0 = 0 /\ x.held = old.held /\ x.type = old.type
     \/ x.held = 0
     \/ /\ x.held = pos + 1 /\ pos < pos'
        /\ \A k \in 1 .. 4 : Points(x, k) =>
             x.type = "STMT_ASSIGNMENT" /\ ((k = 1 /\ k0 # 1) \/ (k = 2 /\ k0 = 2))

(* The fields a node in use has are closed when its function goes on. *)
LEMMA TopClosed ==
  ASSUME ParserInv, stack # <<>>, FramesInv, Top.at # "trail", NEW lo, NEW hi, Ordered(lo, hi),
         NEW lo2, NEW hi2, Closes(lo, hi, lo2, hi2, FALSE)
  PROVE  /\ InOrder(heap[Top.tree], Top.tree, lo2, hi2, Open)
         /\ hi2[Top.tree] = Open /\ lo2[Top.tree] \in Nat /\ lo2[Top.tree] <= pos
         /\ heap[Top.tree].held \in Nat /\ heap[Top.tree].held <= pos
         /\ \A k \in 1 .. 4 : Points(heap[Top.tree], k) =>
              LET c == heap[Top.tree].kids[k] IN
              /\ c \in DOMAIN heap /\ hi2[c] \in Nat /\ hi2[c] <= pos /\ lo2[c] \in Nat
<1>1. PICK t, e, x : t = Top.tree /\ e = Open /\ x = heap[t]
  OBVIOUS
<1>2. t \in DOMAIN heap /\ t \in Nat /\ e \in Nat /\ pos \in Nat /\ pos < e
  BY <1>1, TopTyped, Tokens_ DEF Open, ParserInv
<1>3. InOrder(x, t, lo, hi, e) /\ t \notin StaleOf(stack)
  BY <1>1, <1>2, TopInUse DEF Ordered
<1>4. InOrder(x, t, lo2, hi2, e)
  BY <1>1, <1>2, <1>3, InOrderKept
<1>5. \A m \in DOMAIN heap :
        /\ lo2[m] \in Nat /\ lo2[m] <= pos /\ hi[m] \in Nat /\ (hi[m] <= pos \/ hi[m] = e)
        /\ heap[m].held <= pos
        /\ hi2[m] = IF m > t /\ hi[m] = e THEN pos ELSE hi[m]
  BY <1>1, <1>2 DEF Ordered, Closes
<1>6. hi[t] = e
  BY <1>1, StackBase DEF Ordered, FrameOrder
<1>7. hi2[t] = e
  BY <1>2, <1>5, <1>6
<1>8. ASSUME NEW k \in 1 .. 4, Points(x, k)
      PROVE  x.kids[k] \in DOMAIN heap /\ hi2[x.kids[k]] \in Nat /\ hi2[x.kids[k]] <= pos /\ lo2[x.kids[k]] \in Nat
  <2>1. PICK c \in DOMAIN heap : c = x.kids[k] /\ c \in Nat
    BY <1>1, <1>2, <1>8, KidExists
  <2>2. hi[c] = e => t < c
    BY <1>3, <1>8, <2>1 DEF InOrder
  <2> QED
    BY <1>2, <1>5, <2>1, <2>2
<1> QED
  BY <1>1, <1>2, <1>4, <1>5, <1>7, <1>8, KidExists

LEMMA GrowsOrder ==
  ASSUME ParserInv, stack # <<>>, FramesInv, Top.at # "trail", NEW lo, NEW hi, Ordered(lo, hi),
         NEW lo2, NEW hi2, Closes(lo, hi, lo2, hi2, FALSE),
         NEW x, NEW k0, Writes(x, k0), Grows(x, k0), pos' \in Nat, pos <= pos',
         lo2[New1] = pos', hi2[New1] = Open
  PROVE  NewOrder(lo2, hi2)
<1>1. PICK t, e, old : t = Top.tree /\ e = Open /\ old = heap[t]
  OBVIOUS
<1>2. Written(x, k0)
  BY WritesIs
<1>3. t \in Nat /\ e \in Nat /\ pos \in Nat /\ pos < e /\ t < New1 /\ t \in DOMAIN heap
  BY <1>1, TopTyped, Tokens_ DEF Open, ParserInv, New1
<1>4. /\ InOrder(old, t, lo2, hi2, e) /\ hi2[t] = e /\ lo2[t] \in Nat /\ lo2[t] <= pos
      /\ old.held \in Nat /\ old.held <= pos
      /\ \A k \in 1 .. 4 : Points(old, k) =>
           hi2[old.kids[k]] \in Nat /\ hi2[old.kids[k]] <= pos /\ lo2[old.kids[k]] \in Nat
  BY <1>1, TopClosed
<1>5. ASSUME NEW k \in 1 .. 4, Points(x, k)
      PROVE  \/ k = k0 /\ x.kids[k] = New1
             \/ Points(old, k) /\ x.kids[k] = old.kids[k] /\ (k0 # 0 => k < k0)
  BY <1>1, <1>5 DEF Grows
<1>6. ASSUME NEW k \in 1 .. 4, Points(x, k)
      PROVE  /\ lo2[t] <= lo2[x.kids[k]] /\ hi2[x.kids[k]] <= hi2[t]
             /\ hi2[x.kids[k]] = e => t < x.kids[k]
  <2>1. CASE k = k0 /\ x.kids[k] = New1
    BY <1>1, <1>3, <1>4, <2>1
  <2>2. CASE Points(old, k) /\ x.kids[k] = old.kids[k]
    BY <1>4, <2>2 DEF InOrder
  <2> QED
    BY <1>5, <1>6, <2>1, <2>2
<1>7. ASSUME NEW j \in 1 .. 4, NEW k \in 1 .. 4, Points(x, j), Points(x, k), j < k
      PROVE  hi2[x.kids[j]] <= lo2[x.kids[k]]
  <2>1. Points(old, j) /\ x.kids[j] = old.kids[j]
    <3>1. CASE j = k0
      <4>1. ~(k < k0) /\ k # k0 /\ k0 # 0
        BY <1>7, <3>1
      <4> QED
        BY <1>5, <1>7, <4>1
    <3> QED
      BY <1>5, <1>7, <3>1
  <2>2. CASE k = k0 /\ x.kids[k] = New1
    BY <1>3, <1>4, <2>1, <2>2
  <2>3. CASE Points(old, k) /\ x.kids[k] = old.kids[k]
    BY <1>4, <1>7, <2>1, <2>3 DEF InOrder
  <2> QED
    BY <1>5, <1>7, <2>2, <2>3
<1>8. /\ x.held <= pos'
      /\ x.held > 0 =>
           /\ lo2[t] < x.held /\ x.held <= hi2[t]
           /\ \A k \in 1 .. 4 : Points(x, k) =>
                /\ x.type = "STMT_ASSIGNMENT"
                /\ k = 1 => hi2[x.kids[k]] < x.held
                /\ k # 1 => x.held <= lo2[x.kids[k]]
  <2>1. CASE k0 = 0 /\ x.held = old.held /\ x.type = old.type
    <3>1. \A k \in 1 .. 4 : Points(x, k) => Points(old, k) /\ x.kids[k] = old.kids[k]
      BY <1>5, <2>1
    <3>2. old.held > 0 =>
           /\ lo2[t] < old.held /\ old.held <= hi2[t]
           /\ \A k \in 1 .. 4 : Points(old, k) =>
                /\ old.type = "STMT_ASSIGNMENT"
                /\ k = 1 => hi2[old.kids[k]] < old.held
                /\ k # 1 => old.held <= lo2[old.kids[k]]
      BY <1>4 DEF InOrder
    <3> QED
      BY <1>3, <1>4, <2>1, <3>1, <3>2, SMTT(30)
  <2>2. CASE x.held = 0
    BY <1>3, <2>2
  <2>3. CASE /\ x.held = pos + 1 /\ pos < pos'
             /\ \A k \in 1 .. 4 : Points(x, k) =>
                  x.type = "STMT_ASSIGNMENT" /\ ((k = 1 /\ k0 # 1) \/ (k = 2 /\ k0 = 2))
    <3>1. x.held <= pos' /\ lo2[t] < x.held /\ x.held <= hi2[t]
      BY <1>3, <1>4, <2>3
    <3>2. ASSUME NEW k \in 1 .. 4, Points(x, k)
          PROVE  /\ x.type = "STMT_ASSIGNMENT"
                 /\ k = 1 => hi2[x.kids[k]] < x.held
                 /\ k # 1 => x.held <= lo2[x.kids[k]]
      <4>1. x.type = "STMT_ASSIGNMENT" /\ ((k = 1 /\ k0 # 1) \/ (k = 2 /\ k0 = 2))
        BY <2>3, <3>2
      <4>2. CASE k = 1 /\ k0 # 1
        BY <1>3, <1>4, <1>5, <2>3, <3>2, <4>1, <4>2
      <4>3. CASE k = 2 /\ k0 = 2
        <5>1. x.kids[k] = New1
          BY <1>5, <3>2, <4>3
        <5> QED
          BY <1>3, <2>3, <4>1, <4>3, <5>1
      <4> QED
        BY <4>1, <4>2, <4>3
    <3> QED
      BY <3>1, <3>2
  <2> QED
    BY <1>1, <2>1, <2>2, <2>3 DEF Grows
<1>9. InOrder(x, t, lo2, hi2, e)
  BY <1>6, <1>7, <1>8 DEF InOrder
<1>10. ASSUME NEW n \in DOMAIN heap', n \notin DOMAIN heap
       PROVE  /\ lo2[n] \in 0 .. pos' /\ (hi2[n] \in 0 .. pos' \/ hi2[n] = e)
              /\ heap'[n].held <= pos' /\ InOrder(heap'[n], n, lo2, hi2, e)
  <2>1. n = New1 /\ heap'[n] = Fresh
    BY <1>2, <1>10 DEF Written
  <2>2. Fresh.held = 0 /\ \A k : ~Points(Fresh, k)
    BY FreshIs DEF Points
  <2>3. InOrder(Fresh, n, lo2, hi2, e)
    BY <2>2 DEF InOrder
  <2> QED
    BY <1>1, <1>3, <2>1, <2>2, <2>3
<1> QED
  BY <1>1, <1>2, <1>8, <1>9, <1>10 DEF NewOrder, Written

(* The steps of GoOnNodes, CallNodes and ReturnNodes. *)
LEMMA QuietOrder ==
  ASSUME ParserInv, stack # <<>>, NodesInv, OrderInv, Top.at \notin Locals,
         tokens' = tokens, pos' \in Nat, pos <= pos',
         NEW x, NEW k0, Writes(x, k0), Grows(x, k0),
         NEW m \in {Len(stack) - 1, Len(stack), Len(stack) + 1}, DOMAIN stack' = 1 .. m,
         \A i \in 1 .. Len(stack) - 1 : stack'[i] = stack[i],
         \A i \in DOMAIN stack' : i >= Len(stack) =>
           /\ stack'[i].tree = Top.tree \/ (k0 # 0 /\ stack'[i].tree = New1)
           /\ stack'[i].at \notin Locals
           /\ stack'[i].at \in {"assign", "let_name"} =>
                stack'[i].tree = Top.tree /\ x.type = "STMT_ASSIGNMENT"
           /\ stack'[i].at \in {"if_cond", "for", "stmts_next"} => stack'[i].tree = Top.tree /\ x.held = 0
           /\ stack'[i].at = "if_cond" => ~Points(x, 3),
         \A i, j \in DOMAIN stack' : i >= Len(stack) /\ i < j => stack'[i].tree <= stack'[j].tree
  PROVE  OrderInv'
<1>1. PICK lo, hi : Ordered(lo, hi)
  BY DEF OrderInv
<1>2. PICK lo2, hi2 : /\ lo2 = [n \in DOMAIN heap \union {New1} |-> IF n \in DOMAIN heap THEN lo[n] ELSE pos']
                      /\ hi2 = [n \in DOMAIN heap \union {New1} |->
                                  IF n \in DOMAIN heap
                                  THEN IF n > Top.tree /\ hi[n] = Open THEN pos ELSE hi[n]
                                  ELSE Open]
  OBVIOUS
<1>3. Written(x, k0)
  BY WritesIs
<1>4. Closes(lo, hi, lo2, hi2, FALSE)
  BY <1>2 DEF Closes
<1>5. lo2[New1] = pos' /\ hi2[New1] = Open
  BY <1>2, <1>3 DEF Written
<1>6. NewOrder(lo2, hi2) /\ FramesInv /\ Top.at # "trail"
  BY <1>1, <1>4, <1>5, GrowsOrder DEF NodesInv, Locals
<1>7. StaleOf(stack') = StaleOf(stack)
  BY <1>6, StaleBy DEF Locals
<1>8. hi2[Top.tree] = Open
  BY <1>1, <1>4, <1>6, TopClosed
<1>9. Top.tree \in Nat /\ New1 \in Nat /\ Top.tree <= New1
  BY TopTyped, Tokens_ DEF New1
<1>10. ASSUME NEW i \in DOMAIN stack', i >= Len(stack)
       PROVE  /\ FrameOrder(stack'[i], heap'[stack'[i].tree], lo2, hi2, Open)
              /\ Top.tree <= stack'[i].tree /\ stack'[i].tree \in Nat /\ Last(stack'[i]) = stack'[i].tree
  <2>1. PICK f : f = stack'[i]
    OBVIOUS
  <2>2. Last(f) = f.tree
    BY <1>10, <2>1 DEF Last, Locals
  <2>3. f.tree \in Nat /\ hi2[f.tree] = Open /\ Top.tree <= f.tree
    BY <1>5, <1>8, <1>9, <1>10, <2>1
  <2>4. heap'[Top.tree] = x
    BY <1>3 DEF Written
  <2> QED
    BY <1>10, <2>1, <2>2, <2>3, <2>4 DEF FrameOrder, Locals
<1>11. Ordered(lo2, hi2)'
  <2>1. \A i, j \in DOMAIN stack' : i >= Len(stack) /\ i < j => Last(stack'[i]) <= stack'[j].tree
    BY <1>10
  <2> QED
    BY <1>1, <1>3, <1>4, <1>6, <1>7, <1>10, <2>1, OrderStep DEF Written
<1> QED
  BY <1>11 DEF OrderInv

-----------------------------------------------------------------------------
(* Most steps fill the node of the innermost function. *)

(* A step that fills the node of the innermost function: x is its new      *)
(* contents, k0 the field that points to the new node, if there is one,    *)
(* and m the calls that have not returned.                                 *)
Continued(x, k0, m) ==
  /\ m \in {Len(stack) - 1, Len(stack), Len(stack) + 1} /\ DOMAIN stack' = 1 .. m
  /\ \A i \in 1 .. Len(stack) - 1 : stack'[i] = stack[i]
  /\ \A i \in DOMAIN stack' : i >= Len(stack) =>
       /\ stack'[i].tree = Top.tree \/ (k0 # 0 /\ stack'[i].tree = New1)
       /\ stack'[i].at \notin Locals /\ stack'[i].own = <<>>
       /\ stack'[i].at \in {"assign", "let_name"} =>
            stack'[i].tree = Top.tree /\ x.type = "STMT_ASSIGNMENT"
       /\ stack'[i].at \in {"if_cond", "for", "stmts_next"} => stack'[i].tree = Top.tree /\ x.held = 0
       /\ stack'[i].at = "if_cond" => ~Points(x, 3)
  /\ \A i, j \in DOMAIN stack' : i >= Len(stack) /\ i < j => stack'[i].tree <= stack'[j].tree

Forward == tokens' = tokens /\ pos' \in Nat /\ pos <= pos'

Filled(x, k0, m) ==
  /\ stack # <<>> /\ Top.at \notin Locals /\ Forward
  /\ Writes(x, k0) /\ Fields(heap[Top.tree], x, k0) /\ Grows(x, k0) /\ Continued(x, k0, m)

FillStep == \E x, k0, m : Filled(x, k0, m)

LEMMA ForwardIf ==
  ASSUME ParserInv
  PROVE  Skips \/ Takes \/ (tokens' = tokens /\ pos' \in {pos, pos + 1, pos + 2}) => Forward
<1>1. pos \in Nat
  BY Tokens_
<1>2. ASSUME Skips PROVE Forward
  <2>1. PICK used \in 0 .. 2 : pos' = pos + used
    BY <1>2 DEF Skips
  <2> QED
    BY <1>1, <1>2, <2>1 DEF Skips, Forward
<1> QED
  BY <1>1, <1>2 DEF Takes, Forward

LEMMA ReturnLeaves ==
  ASSUME ParserInv, stack # <<>>, stack' = Below, NEW x, NEW k0
  PROVE  Continued(x, k0, Len(stack) - 1)
<1>1. PICK n : n = Len(stack)
  OBVIOUS
<1>2. n \in Nat \ {0} /\ DOMAIN stack' = 1 .. n - 1 /\ \A i \in 1 .. n - 1 : stack'[i] = stack[i]
  BY <1>1, StackIs
<1>3. \A i \in DOMAIN stack' : ~(i >= n)
  BY <1>2
<1> QED
  BY <1>1, <1>2, <1>3 DEF Continued

(* What is asked of a frame the step leaves. *)
Left(f, x, k0) ==
  /\ f.tree = Top.tree \/ (k0 # 0 /\ f.tree = New1)
  /\ f.at \notin Locals /\ f.own = <<>>
  /\ f.at \in {"assign", "let_name"} => f.tree = Top.tree /\ x.type = "STMT_ASSIGNMENT"
  /\ f.at \in {"if_cond", "for", "stmts_next"} => f.tree = Top.tree /\ x.held = 0
  /\ f.at = "if_cond" => ~Points(x, 3)

LEMMA GoOnLeaves ==
  ASSUME ParserInv, stack # <<>>, NEW f, GoOn(f), NEW x, NEW k0, Left(f, x, k0)
  PROVE  Continued(x, k0, Len(stack))
<1>1. PICK n : n = Len(stack)
  OBVIOUS
<1>2. /\ n \in Nat \ {0} /\ DOMAIN stack' = 1 .. n /\ stack'[n] = f
      /\ \A i \in 1 .. n : i < n => stack'[i] = stack[i]
  BY <1>1, StackIs
<1>3. \A i \in 1 .. n - 1 : i \in 1 .. n /\ i < n
  BY <1>2
<1>4. \A i \in DOMAIN stack' : i >= n => i = n
  BY <1>2
<1>5. \A i, j \in DOMAIN stack' : ~(i >= n /\ i < j)
  BY <1>2
<1> QED
  BY <1>1, <1>2, <1>3, <1>4, <1>5 DEF Continued, Left

LEMMA CallLeaves ==
  ASSUME ParserInv, stack # <<>>, NEW f, NEW g, Call(f, g), NEW x, NEW k0,
         Left(f, x, k0), Left(g, x, k0), f.tree = Top.tree
  PROVE  Continued(x, k0, Len(stack) + 1)
<1>1. PICK n : n = Len(stack)
  OBVIOUS
<1>2. /\ n \in Nat \ {0} /\ DOMAIN stack' = 1 .. n + 1 /\ stack'[n] = f /\ stack'[n + 1] = g
      /\ \A i \in 1 .. n : i < n => stack'[i] = stack[i]
  BY <1>1, StackIs
<1>3. \A i \in 1 .. n - 1 : i \in 1 .. n /\ i < n
  BY <1>2
<1>4. \A i \in DOMAIN stack' : i >= n => i = n \/ i = n + 1
  BY <1>2
<1>5. \A i, j \in DOMAIN stack' : i >= n /\ i < j => i = n /\ j = n + 1
  BY <1>2
<1>6. f.tree <= g.tree
  BY TopTyped, Tokens_ DEF Left, New1
<1> QED
  BY <1>1, <1>2, <1>3, <1>4, <1>5, <1>6 DEF Continued, Left

(* What a step may make of a node. *)
LEMMA GrowsIf ==
  ASSUME ParserInv, stack # <<>>, NEW x, NEW k0, Forward, Fields(heap[Top.tree], x, k0),
         \A k \in 1 .. 4 : k0 # 0 /\ Points(heap[Top.tree], k) => k < k0,
         \/ k0 = 0 /\ x.held = heap[Top.tree].held /\ x.type = heap[Top.tree].type
         \/ x.held = 0
         \/ /\ x.held = pos + 1 /\ pos < pos'
            /\ \A k \in 1 .. 4 : Points(x, k) =>
                 x.type = "STMT_ASSIGNMENT" /\ ((k = 1 /\ k0 # 1) \/ (k = 2 /\ k0 = 2))
  PROVE  Grows(x, k0)
<1>1. ASSUME NEW k \in 1 .. 4, Points(x, k)
      PROVE  \/ k = k0 /\ x.kids[k] = New1
             \/ Points(heap[Top.tree], k) /\ x.kids[k] = heap[Top.tree].kids[k] /\ (k0 # 0 => k < k0)
  BY <1>1 DEF Fields
<1> QED
  BY <1>1 DEF Grows

LEMMA SameFills ==
  ASSUME ParserInv, stack # <<>>, heap' = heap, Forward, Top.at \notin Locals,
         NEW m, Continued(heap[Top.tree], 0, m)
  PROVE  FillStep
<1>1. Writes(heap[Top.tree], 0) /\ Fields(heap[Top.tree], heap[Top.tree], 0)
  BY HeapSame
<1>2. Grows(heap[Top.tree], 0)
  BY <1>1, GrowsIf
<1> QED
  BY <1>1, <1>2 DEF FillStep, Filled

LEMMA CallSameFills ==
  ASSUME ParserInv, stack # <<>>, FramesInv, heap' = heap, Forward, Top.at \notin Locals,
         NEW label, label \notin Holding \union {"assign"},
         NEW at, at \notin Holding \union {"assign"},
         Call(Resume(label), Frame(at, Top.tree))
  PROVE  FillStep
<1>1. PICK f, g : f = Resume(label) /\ g = Frame(at, Top.tree)
  OBVIOUS
<1>2. f.at = label /\ f.tree = Top.tree /\ f.own = <<>>
  BY <1>1, ResumeIs, NoLocals
<1>3. g.at = at /\ g.tree = Top.tree /\ g.own = <<>>
  BY <1>1, FrameIs
<1>4. Left(f, heap[Top.tree], 0) /\ Left(g, heap[Top.tree], 0)
  BY <1>2, <1>3 DEF Left, Holding, Locals
<1> QED
  BY <1>1, <1>2, <1>4, CallLeaves, SameFills

(* The function calls another one for the node it has allocated. *)
LEMMA CallNewFills ==
  ASSUME ParserInv, stack # <<>>, FramesInv, Top.at \notin Locals, Forward,
         NEW f, f.tree = Top.tree, f.own = Top.own, f.at \notin Locals,
         NEW at \in Entry, Call(f, Frame(at, New1)),
         NEW x, NEW k0 \in 1 .. 4, heap' = Append(Write(Top.tree, x), Fresh),
         Fields(heap[Top.tree], x, k0), Grows(x, k0),
         f.at \in {"assign", "let_name"} => x.type = "STMT_ASSIGNMENT",
         f.at \in {"if_cond", "for", "stmts_next"} => x.held = 0,
         f.at = "if_cond" => ~Points(x, 3)
  PROVE  FillStep
<1>1. PICK g : g = Frame(at, New1)
  OBVIOUS
<1>2. g.at = at /\ g.tree = New1 /\ g.own = <<>> /\ f.own = <<>>
  BY <1>1, FrameIs, NoLocals
<1>3. Left(f, x, k0) /\ Left(g, x, k0)
  BY <1>2 DEF Left, Entry, Locals
<1>4. Continued(x, k0, Len(stack) + 1)
  BY <1>1, <1>3, CallLeaves
<1>5. Writes(x, k0)
  BY DEF Writes
<1> QED
  BY <1>4, <1>5 DEF FillStep, Filled

LEMMA FillOrder == ParserInv /\ NodesInv /\ OrderInv /\ FillStep => OrderInv'
<1> SUFFICES ASSUME ParserInv, NodesInv, OrderInv, NEW x, NEW k0, NEW m, Filled(x, k0, m)
             PROVE  OrderInv'
  BY DEF FillStep
<1> QED
  BY QuietOrder DEF Filled, Forward, Continued

-----------------------------------------------------------------------------
(* The steps that do. *)

LEMMA TopOrder ==
  ASSUME ParserInv, stack # <<>>, OrderInv
  PROVE  /\ Top.at \in {"assign", "let_name"} => heap[Top.tree].type = "STMT_ASSIGNMENT"
         /\ Top.at \in {"if_cond", "for", "stmts_next"} => heap[Top.tree].held = 0
         /\ Top.at = "if_cond" => ~Points(heap[Top.tree], 3)
  BY StackBase DEF OrderInv, Ordered, FrameOrder

LEMMA SmallAtomFills ==
  ASSUME ParserInv, NodesInv, SmallAtomStep
  PROVE  FillStep
<1>p. pos \in Nat /\ FramesInv
  BY Tokens_ DEF NodesInv
<1>1. CASE SmallAtomLeaf
  <2>1. stack # <<>> /\ Top.at \in Entry /\ Top.at \notin Locals
    BY <1>1 DEF SmallAtomLeaf, At, Entry, Locals
  <2>2. PICK type : heap' = Write(Top.tree, Node(type, pos + 1, Unset, <<>>))
    BY <1>1 DEF SmallAtomLeaf
  <2> DEFINE x == Node(type, pos + 1, Unset, <<>>)
  <2>3. x.held = pos + 1 /\ x.kids = <<>>
    BY NodeIs
  <2> HIDE DEF x
  <2>4. Writes(x, 0)
    BY <2>2 DEF Writes, x
  <2>5. heap[Top.tree].kids = <<>> /\ \A k : ~Points(x, k)
    BY <2>1, <2>3, TopBegins DEF Points
  <2>6. Fields(heap[Top.tree], x, 0)
    BY <2>3, <2>5, FieldsSame
  <2>7. pos' = pos + 1 /\ tokens' = tokens /\ stack' = Below
    BY <1>1 DEF SmallAtomLeaf, Advance, Return
  <2>8. Forward /\ pos < pos'
    BY <1>p, <2>7, ForwardIf
  <2>9. Grows(x, 0)
    BY <2>1, <2>3, <2>5, <2>6, <2>8, GrowsIf
  <2> QED
    BY <2>1, <2>4, <2>6, <2>7, <2>8, <2>9, ReturnLeaves DEF FillStep, Filled
<1>2. CASE SmallAtomParen
  <2>1. stack # <<>> /\ Top.at \notin Locals
    BY <1>2 DEF SmallAtomParen, At, Locals
  <2>2. /\ Call(Resume("paren"), Frame("expr", Top.tree)) /\ heap' = heap
        /\ tokens' = tokens /\ pos' = pos + 1
    BY <1>2 DEF SmallAtomParen, Call, Advance
  <2>3. "paren" \notin Holding \union {"assign"} /\ "expr" \notin Holding \union {"assign"}
    BY DEF Holding
  <2> QED
    BY <1>p, <2>1, <2>2, <2>3, ForwardIf, CallSameFills
<1>3. CASE ParenEnd
  <2>1. stack # <<>> /\ Top.at \notin Locals
    BY <1>3 DEF ParenEnd, At, Locals
  <2>2. stack' = Below /\ heap' = heap /\ tokens' = tokens /\ pos' \in {pos, pos + 1}
    BY <1>3, <1>p DEF ParenEnd, Return, Advance
  <2> QED
    BY <2>1, <2>2, ForwardIf, ReturnLeaves, SameFills
<1>4. CASE SmallAtomPrefix
  <2>1. stack # <<>> /\ Top.at = "small_atom" /\ Top.at \in Entry /\ Top.at \notin Locals
    BY <1>4 DEF SmallAtomPrefix, At, Entry, Locals
  <2>2. PICK type : heap' = Append(Write(Top.tree, Node(type, 0, Unset, <<New1>>)), Fresh)
    BY <1>4 DEF SmallAtomPrefix
  <2> DEFINE x == Node(type, 0, Unset, <<New1>>)
             f == Resume("prefix")
  <2>3. x.held = 0 /\ x.kids = <<New1>>
    BY NodeIs
  <2>4. f.at = "prefix" /\ f.tree = Top.tree /\ f.own = Top.own
    BY <2>1, ResumeIs
  <2>5. heap' = Append(Write(Top.tree, x), Fresh) /\ Call(f, Frame("atom", New1))
    BY <1>4, <2>2 DEF SmallAtomPrefix
  <2> HIDE DEF x, f
  <2>6. heap[Top.tree].kids = <<>>
    BY <2>1, TopBegins
  <2>7. Fields(heap[Top.tree], x, 1)
    <3>1. New1 > 0
      BY Tokens_ DEF New1
    <3> QED
      BY <2>3, <2>6, <3>1, FieldsNew
  <2>8. Forward
    BY <1>4, <1>p, ForwardIf DEF SmallAtomPrefix, Advance, Call
  <2>9. Grows(x, 1)
    <3>1. \A k \in 1 .. 4 : ~Points(heap[Top.tree], k)
      BY <2>6 DEF Points
    <3> QED
      BY <2>1, <2>3, <2>7, <2>8, <3>1, GrowsIf
  <2>10. "atom" \in Entry /\ f.at \notin Locals
    BY <2>4 DEF Entry, Locals
  <2> QED
    BY <1>p, <2>1, <2>4, <2>5, <2>7, <2>8, <2>9, <2>10, CallNewFills
<1>5. CASE PrefixEnd
  <2>1. stack # <<>> /\ Top.at \notin Locals
    BY <1>5 DEF PrefixEnd, At, Locals
  <2> QED
    BY <1>5, <2>1, ForwardIf, ReturnLeaves, SameFills DEF PrefixEnd, Return
<1>6. CASE SmallAtomFail
  <2>1. stack # <<>> /\ Top.at \notin Locals
    BY <1>6 DEF SmallAtomFail, At, Locals
  <2> QED
    BY <1>6, <2>1, ForwardIf, ReturnLeaves, SameFills DEF SmallAtomFail, Return
<1> QED
  BY <1>1, <1>2, <1>3, <1>4, <1>5, <1>6 DEF SmallAtomStep

LEMMA BeginFills ==
  ASSUME ParserInv, NodesInv, stack # <<>>, Top.at = "stmt",
         NEW type, NEW code, NEW kids, NEW label, NEW part \in Entry,
         Begin(type, code, kids, label, part),
         1 \in DOMAIN kids, kids[1] = New1, \A k \in DOMAIN kids : k # 1 => kids[k] = Wild,
         label \notin Locals, label \notin {"assign", "let_name"}
  PROVE  FillStep
<1> DEFINE x == Node(type, 0, code, kids)
           f == Resume(label)
<1>1. x.held = 0 /\ x.kids = kids /\ x.type = type
  BY DEF Node
<1>2. f.at = label /\ f.tree = Top.tree /\ f.own = Top.own
  BY ResumeIs
<1>3. /\ heap' = Append(Write(Top.tree, x), Fresh) /\ Call(f, Frame(part, New1))
      /\ pos' = pos + 1 /\ tokens' = tokens
  BY DEF Begin, Call, Advance
<1> HIDE DEF x, f
<1>4. heap[Top.tree].kids = <<>> /\ Top.at \notin Locals
  BY TopBegins DEF Entry, Locals
<1>5. Fields(heap[Top.tree], x, 1)
  <2>1. New1 > 0
    BY Tokens_ DEF New1
  <2>2. \A k \in DOMAIN x.kids : k # 1 => ~(x.kids[k] > 0)
    BY <1>1 DEF Wild
  <2> QED
    BY <1>1, <1>4, <2>1, <2>2, FieldsNew
<1>6. Forward
  BY <1>3, ForwardIf
<1>7. Grows(x, 1)
  <2>1. \A k \in 1 .. 4 : ~Points(heap[Top.tree], k)
    BY <1>4 DEF Points
  <2> QED
    BY <1>1, <1>5, <1>6, <2>1, GrowsIf
<1>8. ~Points(x, 3)
  BY <1>1 DEF Points, Wild
<1> QED
  BY <1>1, <1>2, <1>3, <1>4, <1>5, <1>6, <1>7, <1>8, CallNewFills DEF NodesInv

LEMMA StatementFills ==
  ASSUME ParserInv, NodesInv, OrderInv, StatementStep
  PROVE  FillStep
<1> DEFINE n == Len(heap)
<1>o. PICK old : old = heap[Top.tree]
  OBVIOUS
<1>a. stack # <<>>
  BY DEF StatementStep, PassOn, StmtLet, Assignment, LetDeclares, LetValue, LetFail, StmtReturn,
     StmtIf, IfValue, StmtFor, ForPart, ForEnd, StmtFail, StmtAssign, StmtExpression, StmtEnd, At
<1>b. old \in Nodes(n) /\ n \in Nat /\ New1 > 0 /\ Top.tree \in 1 .. n /\ pos \in Nat /\ FramesInv
  BY <1>a, <1>o, TopTyped, Tokens_ DEF New1, NodesInv
<1>c. Waits(heap, Top)
  BY <1>a, TopWaits
<1>d. /\ Top.at \in {"assign", "let_name"} => old.type = "STMT_ASSIGNMENT"
      /\ Top.at \in {"if_cond", "for", "stmts_next"} => old.held = 0
      /\ Top.at = "if_cond" => ~Points(old, 3)
  BY <1>a, <1>o, TopOrder
<1>1. CASE StmtLet
  <2> DEFINE f == Resume("tail")
             g == Frame("assign", Top.tree)
  <2>1. PICK x : /\ heap' = Write(Top.tree, x) /\ x.held = 0 /\ x.kids = <<Wild, Wild>>
                 /\ x.type = "STMT_ASSIGNMENT"
    <3>1. PICK code : heap' = Write(Top.tree, Node("STMT_ASSIGNMENT", 0, code, <<Wild, Wild>>))
      BY <1>1 DEF StmtLet
    <3> QED
      BY <3>1 DEF Node
  <2>2. Top.at = "stmt" /\ Top.at \in Entry /\ Top.at \notin Locals /\ Call(f, g)
    BY <1>1 DEF StmtLet, At, Entry, Locals
  <2>3. Forward
    BY <1>1, <1>b, ForwardIf DEF StmtLet, Advance, Call
  <2>4. /\ f.at = "tail" /\ f.tree = Top.tree /\ f.own = Top.own
        /\ g.at = "assign" /\ g.tree = Top.tree /\ g.own = <<>>
    BY <1>a, ResumeIs, FrameIs
  <2> HIDE DEF f, g
  <2>5. old.kids = <<>> /\ Top.own = <<>>
    BY <1>a, <1>b, <1>o, <2>2, TopBegins, NoLocals
  <2>6. Fields(old, x, 0) /\ Writes(x, 0)
    <3>1. \A k \in DOMAIN old.kids : ~(old.kids[k] > 0)
      BY <2>5
    <3>2. \A k \in DOMAIN x.kids : ~(x.kids[k] > 0)
      BY <2>1 DEF Wild
    <3> QED
      BY <2>1, <3>1, <3>2, FieldsNone DEF Writes
  <2>7. Grows(x, 0)
    BY <1>a, <1>o, <2>1, <2>3, <2>6, GrowsIf
  <2>8. Left(f, x, 0) /\ Left(g, x, 0)
    BY <2>1, <2>4, <2>5 DEF Left, Locals
  <2> QED
    BY <1>a, <1>o, <2>2, <2>3, <2>4, <2>6, <2>7, <2>8, CallLeaves DEF FillStep, Filled
<1>2. CASE LetDeclares
  <2> DEFINE x == WithHeld(old, pos + 1)
  <2>1. Writes(x, 0)
    BY <1>2, <1>o DEF LetDeclares, Write, WithHeld, Writes
  <2>2. Top.at = "let_name" /\ Top.at \notin Locals /\ Len(old.kids) = 2 /\ old.kids[2] = Wild
    BY <1>2, <1>c, <1>o DEF LetDeclares, At, Locals, Waits
  <2>3. pos' = pos + 1 /\ tokens' = tokens /\ stack' = Below
    BY <1>2 DEF LetDeclares, Return, Advance
  <2>4. x.held = pos + 1 /\ x.kids = old.kids /\ x.type = old.type
    BY <1>b DEF Nodes, WithHeld
  <2> HIDE DEF x
  <2>5. Fields(old, x, 0) /\ Forward /\ pos < pos'
    BY <1>b, <2>3, <2>4, FieldsSame, ForwardIf
  <2>6. Grows(x, 0)
    <3>1. \A k \in 1 .. 4 : Points(x, k) => k = 1
      BY <1>b, <2>2, <2>4 DEF Points, Nodes, Wild
    <3> QED
      <4>1. x.type = "STMT_ASSIGNMENT" /\ x.held = pos + 1
        BY <1>d, <2>2, <2>4
      <4>2. \A k \in 1 .. 4 : Points(x, k) =>
                 x.type = "STMT_ASSIGNMENT" /\ ((k = 1 /\ 0 # 1) \/ (k = 2 /\ 0 = 2))
        BY <3>1, <4>1
      <4> QED
        BY <1>a, <1>o, <2>5, <4>1, <4>2, GrowsIf
  <2> QED
    BY <1>a, <1>o, <2>1, <2>2, <2>3, <2>5, <2>6, ReturnLeaves DEF FillStep, Filled
<1>3. CASE LetValue
  <2> DEFINE y == WithHeld(old, pos + 1)
             x == WithKid(y, 2, New1)
             f == Resume("stmt_end")
  <2>1. heap' = Append(Write(Top.tree, x), Fresh)
    BY <1>3, <1>o, <1>b DEF LetValue, Write, Nodes, WithHeld, WithKid
  <2>2. Top.at = "let_name" /\ Top.at \notin Locals /\ Len(old.kids) = 2 /\ old.kids[2] = Wild
    BY <1>3, <1>c, <1>o DEF LetValue, At, Locals, Waits
  <2>3. pos' = pos + 2 /\ tokens' = tokens /\ Call(f, Frame("expr", New1))
    BY <1>3 DEF LetValue, Call, Advance
  <2>4. x.held = pos + 1 /\ x.kids = [old.kids EXCEPT ![2] = New1] /\ x.type = old.type
    BY <1>b DEF WithHeld, WithKid, Nodes
  <2>5. f.at = "stmt_end" /\ f.tree = Top.tree /\ f.own = Top.own
    BY <1>a, ResumeIs
  <2> HIDE DEF x, y, f
  <2>k. DOMAIN old.kids = 1 .. 2
    BY <1>b, <2>2 DEF Nodes
  <2>6. Fields(old, x, 2)
    <3>1. 2 \in DOMAIN old.kids
      BY <2>k
    <3>2. ~(old.kids[2] > 0)
      BY <2>2 DEF Wild
    <3> QED
      BY <1>b, <2>4, <3>1, <3>2, FieldsKid
  <2>7. Forward /\ pos < pos'
    BY <1>b, <2>3, ForwardIf
  <2>8. Grows(x, 2)
    <3>1. \A k \in 1 .. 4 : Points(x, k) => k = 1 \/ k = 2
      BY <2>4, <2>k DEF Points
    <3>2. \A k \in 1 .. 4 : Points(old, k) => k < 2
      BY <2>2, <2>k DEF Points, Wild
    <3> QED
      BY <1>a, <1>d, <1>o, <2>2, <2>4, <2>6, <2>7, <3>1, <3>2, GrowsIf
  <2>9. f.at \notin Locals /\ "expr" \in Entry /\ f.at \notin {"assign", "let_name", "if_cond", "for", "stmts_next"}
    BY <2>5 DEF Entry, Locals
  <2> QED
    <3>1. FramesInv /\ Top.at \notin Locals /\ Call(f, Frame("expr", New1))
      BY <1>b, <2>2, <2>3
    <3> QED
      BY <1>a, <1>o, <2>1, <2>5, <2>6, <2>7, <2>8, <2>9, <3>1, CallNewFills
<1>4. CASE LetFail
  <2>1. /\ Top.at = "let_name" /\ Top.at \notin Locals /\ Len(old.kids) = 2 /\ old.kids[2] = Wild
        /\ stack' = Below /\ tokens' = tokens
    BY <1>4, <1>c, <1>o DEF LetFail, At, Locals, Waits, Return
  <2>2. CASE Cur = "IDENT"
    <3> DEFINE x == WithHeld(old, pos + 1)
    <3>1. Writes(x, 0)
      BY <1>4, <1>o, <2>2 DEF LetFail, Write, WithHeld, Writes
    <3>2. pos' = pos + 1
      BY <1>4, <2>1, <2>2 DEF LetFail, Advance
    <3>3. x.held = pos + 1 /\ x.kids = old.kids /\ x.type = old.type
      BY <1>b DEF Nodes, WithHeld
    <3> HIDE DEF x
    <3>4. Fields(old, x, 0) /\ Forward /\ pos < pos'
      BY <1>b, <2>1, <3>2, <3>3, FieldsSame, ForwardIf
    <3>5. Grows(x, 0)
      <4>1. \A k \in 1 .. 4 : Points(x, k) => k = 1
        BY <1>b, <2>1, <3>3 DEF Points, Nodes, Wild
      <4> QED
        <5>1. x.type = "STMT_ASSIGNMENT" /\ x.held = pos + 1
          BY <1>d, <2>1, <3>3
        <5>2. \A k \in 1 .. 4 : Points(x, k) =>
                 x.type = "STMT_ASSIGNMENT" /\ ((k = 1 /\ 0 # 1) \/ (k = 2 /\ 0 = 2))
          BY <4>1, <5>1
        <5> QED
          BY <1>a, <1>o, <3>4, <5>1, <5>2, GrowsIf
    <3> QED
      BY <1>a, <1>o, <2>1, <3>1, <3>4, <3>5, ReturnLeaves DEF FillStep, Filled
  <2>3. CASE Cur # "IDENT"
    <3>1. heap' = heap /\ pos' = pos
      BY <1>4, <2>3 DEF LetFail
    <3> QED
      BY <1>a, <2>1, <3>1, ForwardIf, ReturnLeaves, SameFills
  <2> QED
    BY <2>2, <2>3
<1>5. CASE StmtReturn
  <2>1. Begin("STMT_RETURN", Unset, <<New1>>, "stmt_end", "expr")
    BY <1>5 DEF StmtReturn
  <2>2. Top.at = "stmt"
    BY <1>5 DEF StmtReturn, At
  <2>3. /\ 1 \in DOMAIN <<New1>> /\ <<New1>>[1] = New1
        /\ \A k \in DOMAIN <<New1>> : k # 1 => <<New1>>[k] = Wild
    OBVIOUS
  <2>4. "stmt_end" \notin Locals /\ "expr" \in Entry
    BY DEF Locals, Entry
  <2> QED
    BY <1>a, <2>1, <2>2, <2>3, <2>4, BeginFills
<1>6. CASE StmtIf
  <2> DEFINE kids == <<New1, Wild, Wild>>
  <2>1. Begin("IFS", Unset, kids, "if_cond", "expr")
    BY <1>6 DEF StmtIf
  <2>2. Top.at = "stmt"
    BY <1>6 DEF StmtIf, At
  <2>3. 1 \in DOMAIN kids /\ kids[1] = New1 /\ \A k \in DOMAIN kids : k # 1 => kids[k] = Wild
    OBVIOUS
  <2>4. "if_cond" \notin Locals /\ "expr" \in Entry
    BY DEF Locals, Entry
  <2> HIDE DEF kids
  <2> QED
    BY <1>a, <2>1, <2>2, <2>3, <2>4, BeginFills
<1>7. CASE IfValue
  <2> DEFINE x == WithKid(old, 2, New1)
             f == Resume("tail")
  <2>1. heap' = Append(Write(Top.tree, x), Fresh)
    BY <1>7, <1>o DEF IfValue, Write, WithKid
  <2>2. /\ Top.at = "if_cond" /\ Top.at \notin Locals /\ Len(old.kids) = 3 /\ old.kids[2] = Wild
    BY <1>7, <1>c, <1>o DEF IfValue, At, Locals, Waits
  <2>3. Forward /\ Call(f, Frame("block", New1))
    BY <1>7, ForwardIf DEF IfValue, Call
  <2>4. x.held = 0 /\ x.kids = [old.kids EXCEPT ![2] = New1]
    BY <1>b, <1>d, <2>2 DEF WithKid, Nodes
  <2>5. f.at = "tail" /\ f.tree = Top.tree /\ f.own = Top.own
    BY <1>a, ResumeIs
  <2> HIDE DEF x, f
  <2>6. Fields(old, x, 2)
    <3>1. 2 \in DOMAIN old.kids
      BY <1>b, <2>2 DEF Nodes
    <3>2. ~(old.kids[2] > 0)
      BY <2>2 DEF Wild
    <3> QED
      BY <1>b, <2>4, <3>1, <3>2, FieldsKid
  <2>7. Grows(x, 2)
    <3>1. \A k \in 1 .. 4 : Points(old, k) => k < 2
      <4>1. DOMAIN old.kids = 1 .. 3
        BY <1>b, <2>2 DEF Nodes
      <4>2. ~Points(old, 2) /\ ~Points(old, 3) /\ ~Points(old, 4)
        BY <1>d, <2>2, <4>1 DEF Points, Wild
      <4> QED
        BY <4>2
    <3> QED
      BY <1>a, <1>d, <1>o, <2>3, <2>4, <2>6, <3>1, GrowsIf
  <2>8. f.at \notin Locals /\ "block" \in Entry
        /\ f.at \notin {"assign", "let_name", "if_cond", "for", "stmts_next"}
    BY <2>5 DEF Entry, Locals
  <2> QED
    <3>1. FramesInv /\ Top.at \notin Locals /\ Call(f, Frame("block", New1))
      BY <1>b, <2>2, <2>3
    <3> QED
      BY <1>a, <1>o, <2>1, <2>3, <2>5, <2>6, <2>7, <2>8, <3>1, CallNewFills
<1>8. CASE StmtFor
  <2> DEFINE kids == <<New1, Wild, Wild, Wild>>
  <2>1. Begin("LOOP_FOR", Unset, kids, "for", "block")
    BY <1>8 DEF StmtFor
  <2>2. Top.at = "stmt"
    BY <1>8 DEF StmtFor, At
  <2>3. 1 \in DOMAIN kids /\ kids[1] = New1 /\ \A k \in DOMAIN kids : k # 1 => kids[k] = Wild
    OBVIOUS
  <2>4. "for" \notin Locals /\ "block" \in Entry
    BY DEF Locals, Entry
  <2> HIDE DEF kids
  <2> QED
    BY <1>a, <2>1, <2>2, <2>3, <2>4, BeginFills
<1>9. CASE ForPart
  <2> DEFINE x == WithKid(old, Top.num + 2, New1)
             f == [Top EXCEPT !.num = @ + 1]
  <2>1. heap' = Append(Write(Top.tree, x), Fresh)
    BY <1>9, <1>o DEF ForPart, Write, WithKid
  <2>2. /\ Top.at = "for" /\ Top.at \notin Locals /\ Len(old.kids) = 4
        /\ \A k \in Top.num + 2 .. 4 : old.kids[k] = Wild
    BY <1>9, <1>c, <1>o DEF ForPart, At, Locals, Waits
  <2>3. Forward /\ Call(f, Frame("block", New1)) /\ Top.num < 3
    BY <1>9, ForwardIf DEF ForPart, Call
  <2>4. Top.num \in 0 .. 2
    BY <1>a, <2>3, TopTyped
  <2>5. x.held = 0 /\ x.kids = [old.kids EXCEPT ![Top.num + 2] = New1]
    BY <1>b, <1>d, <2>2 DEF WithKid, Nodes
  <2>6. f.at = Top.at /\ f.tree = Top.tree /\ f.own = Top.own
    <3>1. Top \in Frames(n)
      BY <1>a, TopTyped DEF GoodFrames
    <3> QED
      BY <3>1 DEF Frames
  <2> HIDE DEF x, f
  <2>7. PICK k0 \in 2 .. 4 : k0 = Top.num + 2
    BY <2>4
  <2>8. k0 \in DOMAIN old.kids /\ DOMAIN old.kids = 1 .. 4
    BY <1>b, <2>2, <2>7 DEF Nodes
  <2>9. Fields(old, x, k0)
    <3>1. ~(old.kids[k0] > 0)
      BY <2>2, <2>4, <2>7 DEF Wild
    <3> QED
      BY <1>b, <2>5, <2>7, <2>8, <3>1, FieldsKid
  <2>10. Grows(x, k0)
    <3>1. \A k \in 1 .. 4 : Points(old, k) => k < k0
      BY <2>2, <2>7 DEF Points, Wild
    <3> QED
      BY <1>a, <1>o, <2>3, <2>5, <2>9, <3>1, GrowsIf
  <2>11. f.at \notin Locals /\ "block" \in Entry /\ k0 \in 1 .. 4
    BY <2>2, <2>6, <2>7 DEF Entry, Locals
  <2> QED
    BY <1>a, <1>b, <1>o, <2>1, <2>2, <2>3, <2>5, <2>6, <2>9, <2>10, <2>11, CallNewFills
<1>10. CASE ForEnd
  <2>1. Top.at \notin Locals
    BY <1>10 DEF ForEnd, At, Locals
  <2> QED
    BY <1>10, <1>a, <2>1, ForwardIf, ReturnLeaves, SameFills DEF ForEnd, Return
<1>11. CASE StmtFail
  <2>1. /\ Top.at \notin Locals /\ stack' = Below /\ heap' = heap /\ tokens' = tokens
        /\ pos' \in {pos, pos + 1}
    BY <1>11, <1>b DEF StmtFail, At, Locals, Return, Advance
  <2> QED
    BY <1>a, <2>1, ForwardIf, ReturnLeaves, SameFills
<1>12. CASE StmtAssign
  <2> DEFINE x == Node("STMT_ASSIGNMENT", pos + 1, Unset, <<NullTree, New1>>)
             f == Resume("stmt_end")
  <2>1. heap' = Append(Write(Top.tree, x), Fresh)
    BY <1>12 DEF StmtAssign
  <2>2. Top.at = "stmt" /\ Top.at \in Entry /\ Top.at \notin Locals
    BY <1>12 DEF StmtAssign, At, Entry, Locals
  <2>3. pos' = pos + 2 /\ tokens' = tokens /\ Call(f, Frame("expr", New1))
    BY <1>12 DEF StmtAssign, Call, Advance
  <2>4. x.held = pos + 1 /\ x.kids = <<NullTree, New1>> /\ x.type = "STMT_ASSIGNMENT"
    BY DEF Node
  <2>5. f.at = "stmt_end" /\ f.tree = Top.tree /\ f.own = Top.own
    BY <1>a, ResumeIs
  <2>6. old.kids = <<>>
    BY <1>a, <1>o, <2>2, TopBegins
  <2> HIDE DEF x, f
  <2>7. Fields(old, x, 2)
    <3>1. \A k \in DOMAIN old.kids : ~(old.kids[k] > 0)
      BY <2>6
    <3>2. 2 \in DOMAIN x.kids /\ x.kids[2] = New1 /\ \A k \in DOMAIN x.kids : k # 2 => ~(x.kids[k] > 0)
      BY <2>4 DEF NullTree
    <3> QED
      BY <1>b, <3>1, <3>2, FieldsNew
  <2>8. Forward /\ pos < pos'
    BY <1>b, <2>3, ForwardIf
  <2>9. Grows(x, 2)
    <3>1. \A k \in 1 .. 4 : Points(x, k) => k = 2
      BY <2>4 DEF Points, NullTree
    <3>2. \A k \in 1 .. 4 : ~Points(old, k)
      BY <2>6 DEF Points
    <3> QED
      BY <1>a, <1>o, <2>4, <2>7, <2>8, <3>1, <3>2, GrowsIf
  <2>10. f.at \notin Locals /\ "expr" \in Entry /\ f.at \notin {"assign", "let_name", "if_cond", "for", "stmts_next"}
    BY <2>5 DEF Entry, Locals
  <2> QED
    BY <1>a, <1>b, <1>o, <2>1, <2>2, <2>3, <2>5, <2>7, <2>8, <2>9, <2>10, CallNewFills
<1>13. CASE StmtExpression
  <2>1. /\ Top.at \notin Locals /\ "expr" \notin Holding \union {"assign"}
        /\ "stmt_end" \notin Holding \union {"assign"}
    BY <1>13 DEF StmtExpression, At, Locals, Holding
  <2> QED
    BY <1>13, <1>a, <1>b, <2>1, ForwardIf, CallSameFills DEF StmtExpression, Call
<1>14. CASE StmtEnd
  <2>1. /\ Top.at \notin Locals /\ stack' = Below /\ heap' = heap /\ tokens' = tokens
        /\ pos' \in {pos, pos + 1}
    BY <1>14, <1>b DEF StmtEnd, At, Locals, Return, Advance
  <2> QED
    BY <1>a, <2>1, ForwardIf, ReturnLeaves, SameFills
<1>15. CASE PassOn
  <2>1. Top.at \notin Locals
    BY <1>15 DEF PassOn, At, Locals
  <2> QED
    BY <1>15, <1>a, <2>1, ForwardIf, ReturnLeaves, SameFills DEF PassOn, Return
<1>16. CASE Assignment
  <2> DEFINE x == WithKid(old, 1, New1)
             f == Resume("let_name")
  <2>1. heap' = Append(Write(Top.tree, x), Fresh)
    BY <1>16, <1>o DEF Assignment, Write, WithKid
  <2>2. Top.at = "assign" /\ Top.at \notin Locals
    BY <1>16 DEF Assignment, At, Locals
  <2>3. Len(old.kids) = 2 /\ old.held = 0 /\ \A k \in DOMAIN old.kids : old.kids[k] = Wild
    BY <1>a, <1>o, <2>2, TopBegins
  <2>4. Forward /\ Call(f, Frame("atom", New1))
    BY <1>16, ForwardIf DEF Assignment, Call
  <2>5. x.held = 0 /\ x.kids = [old.kids EXCEPT ![1] = New1] /\ x.type = old.type
    BY <1>b, <2>3 DEF WithKid, Nodes
  <2>6. f.at = "let_name" /\ f.tree = Top.tree /\ f.own = Top.own
    BY <1>a, ResumeIs
  <2> HIDE DEF x, f
  <2>7. DOMAIN old.kids = 1 .. 2
    BY <1>b, <2>3 DEF Nodes
  <2>8. Fields(old, x, 1)
    <3>1. 1 \in DOMAIN old.kids /\ ~(old.kids[1] > 0)
      BY <2>3, <2>7 DEF Wild
    <3> QED
      BY <1>b, <2>5, <3>1, FieldsKid
  <2>9. Grows(x, 1)
    <3>1. \A k \in 1 .. 4 : ~Points(old, k)
      BY <2>3 DEF Points, Wild
    <3> QED
      BY <1>a, <1>o, <2>4, <2>5, <2>8, <3>1, GrowsIf
  <2>10. x.type = "STMT_ASSIGNMENT" /\ f.at \notin Locals /\ "atom" \in Entry
    BY <1>d, <2>2, <2>5, <2>6 DEF Entry, Locals
  <2> QED
    BY <1>a, <1>b, <1>o, <2>1, <2>2, <2>4, <2>6, <2>8, <2>9, <2>10, CallNewFills
<1> QED
  BY <1>1, <1>2, <1>3, <1>4, <1>5, <1>6, <1>7, <1>8, <1>9, <1>10, <1>11, <1>12, <1>13,
     <1>14, <1>15, <1>16 DEF StatementStep

LEMMA BlockFills ==
  ASSUME ParserInv, NodesInv, OrderInv, BlockStep
  PROVE  FillStep
<1> DEFINE n == Len(heap)
<1>o. PICK old : old = heap[Top.tree]
  OBVIOUS
<1>a. stack # <<>>
  BY DEF BlockStep, BlockFail, BlockStatement, BlockEmpty, BlockOpen, BlockNext,
     BlockClose, BlockLink, BlockLast, BlockGiveUp, At
<1>b. old \in Nodes(n) /\ n \in Nat /\ New1 > 0 /\ Top.tree \in 1 .. n /\ pos \in Nat /\ FramesInv
  BY <1>a, <1>o, TopTyped, Tokens_ DEF New1, NodesInv
<1>c. Waits(heap, Top)
  BY <1>a, TopWaits
<1>d. Top.at = "stmts_next" => old.held = 0
  BY <1>a, <1>o, TopOrder
<1>1. CASE BlockFail
  <2>1. Top.at \notin Locals
    BY <1>1 DEF BlockFail, At, Locals
  <2> QED
    BY <1>1, <1>a, <2>1, ForwardIf, ReturnLeaves, SameFills DEF BlockFail, Return
<1>2. CASE BlockStatement
  <2>1. /\ Top.at \notin Locals /\ "tail" \notin Holding \union {"assign"}
        /\ "stmt" \notin Holding \union {"assign"}
    BY <1>2 DEF BlockStatement, At, Locals, Holding
  <2>2. Call(Resume("tail"), Frame("stmt", Top.tree)) /\ heap' = heap /\ Forward
    BY <1>2, ForwardIf DEF BlockStatement, Call
  <2> QED
    BY <1>a, <1>b, <2>1, <2>2, CallSameFills
<1>3. CASE BlockEmpty
  <2> DEFINE x == Node("EMPTY_LVL_STMTS", 0, Unset, <<>>)
  <2>1. Top.at \notin Locals /\ Top.at \in Entry
    BY <1>3 DEF BlockEmpty, At, Locals, Entry
  <2>2. Writes(x, 0) /\ stack' = Below /\ Forward
    BY <1>3, ForwardIf DEF BlockEmpty, Writes, Return, Advance
  <2>3. x.held = 0 /\ x.kids = <<>>
    BY NodeIs
  <2>4. old.kids = <<>>
    BY <1>a, <1>o, <2>1, TopBegins
  <2> HIDE DEF x
  <2>5. Fields(old, x, 0)
    BY <2>3, <2>4, FieldsSame
  <2>6. Grows(x, 0)
    BY <1>a, <1>o, <2>2, <2>3, <2>5, GrowsIf
  <2> QED
    BY <1>a, <1>o, <2>1, <2>2, <2>5, <2>6, ReturnLeaves DEF FillStep, Filled
<1>4. CASE BlockOpen
  <2> DEFINE x == Node("LVL_STMTS", 0, Unset, <<Wild, Wild>>)
             f == Resume("stmts")
  <2>1. Top.at \notin Locals /\ Top.at \in Entry
    BY <1>4 DEF BlockOpen, At, Locals, Entry
  <2>2. Writes(x, 0) /\ GoOn(f) /\ Forward
    BY <1>4, ForwardIf DEF BlockOpen, Writes, GoOn, Advance
  <2>3. x.held = 0 /\ x.kids = <<Wild, Wild>>
    BY NodeIs
  <2>4. old.kids = <<>>
    BY <1>a, <1>o, <2>1, TopBegins
  <2>5. f.at = "stmts" /\ f.tree = Top.tree /\ f.own = <<>>
    BY <1>a, <1>b, <2>1, ResumeIs, NoLocals
  <2> HIDE DEF x, f
  <2>6. Fields(old, x, 0)
    <3>1. \A k \in DOMAIN x.kids : ~(x.kids[k] > 0)
      BY <2>3 DEF Wild
    <3>2. \A k \in DOMAIN old.kids : ~(old.kids[k] > 0)
      BY <2>4
    <3> QED
      BY <3>1, <3>2, FieldsNone
  <2>7. Grows(x, 0)
    BY <1>a, <1>o, <2>2, <2>3, <2>6, GrowsIf
  <2>8. Left(f, x, 0)
    BY <2>5 DEF Left, Locals
  <2> QED
    BY <1>a, <1>o, <2>1, <2>2, <2>6, <2>7, <2>8, GoOnLeaves DEF FillStep, Filled
<1>5. CASE BlockNext
  <2> DEFINE x == Node("LVL_STMTS", 0, Unset, <<New1, Wild>>)
             f == Resume("stmts_next")
  <2>1. Top.at \notin Locals /\ Top.at = "stmts" /\ ~AtClose
    BY <1>5 DEF BlockNext, At, Locals
  <2>2. heap' = Append(Write(Top.tree, x), Fresh) /\ Call(f, Frame("stmt", New1)) /\ Forward
    BY <1>5, ForwardIf DEF BlockNext, Call
  <2>3. x.held = 0 /\ x.kids = <<New1, Wild>>
    BY NodeIs
  <2>4. \A k \in DOMAIN old.kids : ~(old.kids[k] > 0)
    BY <1>a, <1>o, <2>1, TopBegins DEF Wild
  <2>5. f.at = "stmts_next" /\ f.tree = Top.tree /\ f.own = Top.own
    BY <1>a, ResumeIs
  <2> HIDE DEF x, f
  <2>6. Fields(old, x, 1)
    <3>1. 1 \in DOMAIN x.kids /\ x.kids[1] = New1 /\ \A k \in DOMAIN x.kids : k # 1 => ~(x.kids[k] > 0)
      BY <2>3 DEF Wild
    <3> QED
      BY <1>b, <2>4, <3>1, FieldsNew
  <2>7. Grows(x, 1)
    BY <1>a, <1>o, <2>2, <2>3, <2>4, <2>6, GrowsIf DEF Points
  <2>8. f.at \notin Locals /\ "stmt" \in Entry /\ f.at \notin {"assign", "let_name", "if_cond"}
    BY <2>5 DEF Entry, Locals
  <2> QED
    <3>1. FramesInv /\ Call(f, Frame("stmt", New1)) /\ Forward
      BY <1>b, <2>2
    <3> QED
      BY <1>a, <1>o, <2>1, <2>2, <2>3, <2>5, <2>6, <2>7, <2>8, <3>1, CallNewFills
<1>6. CASE BlockClose
  <2>1. Top.at \notin Locals
    BY <1>6 DEF BlockClose, At, Locals
  <2> QED
    BY <1>6, <1>a, <2>1, ForwardIf, ReturnLeaves, SameFills DEF BlockClose, Return
<1>7. CASE BlockLink
  <2> DEFINE x == WithKid(old, 2, New1)
             f == [Resume("stmts") EXCEPT !.tree = New1]
  <2>1. heap' = Append(Write(Top.tree, x), Fresh)
    BY <1>7, <1>o DEF BlockLink, Write, WithKid
  <2>2. Top.at = "stmts_next" /\ Top.at \notin Locals /\ Len(old.kids) = 2 /\ old.kids[2] = Wild
    BY <1>7, <1>c, <1>o DEF BlockLink, At, Locals, Waits
  <2>3. Forward /\ GoOn(f)
    BY <1>7, ForwardIf DEF BlockLink, GoOn
  <2>4. x.held = 0 /\ x.kids = [old.kids EXCEPT ![2] = New1]
    BY <1>b, <1>d, <2>2 DEF WithKid, Nodes
  <2>5. f.at = "stmts" /\ f.tree = New1 /\ f.own = <<>>
    <3>1. Top \in Frames(n)
      BY <1>a, TopTyped DEF GoodFrames
    <3>2. Top.own = <<>>
      BY <1>a, <1>b, <2>2, NoLocals
    <3> QED
      BY <3>1, <3>2 DEF Resume, Frames
  <2> HIDE DEF x, f
  <2>k. DOMAIN old.kids = 1 .. 2
    BY <1>b, <2>2 DEF Nodes
  <2>6. Fields(old, x, 2)
    <3>1. 2 \in DOMAIN old.kids
      BY <2>k
    <3>2. ~(old.kids[2] > 0)
      BY <2>2 DEF Wild
    <3> QED
      BY <1>b, <2>4, <3>1, <3>2, FieldsKid
  <2>7. Writes(x, 2)
    BY <2>1 DEF Writes
  <2>8. Grows(x, 2)
    <3>1. \A k \in 1 .. 4 : Points(old, k) => k < 2
      BY <2>2, <2>k DEF Points, Wild
    <3> QED
      BY <1>a, <1>o, <2>3, <2>4, <2>6, <3>1, GrowsIf
  <2>9. Left(f, x, 2)
    BY <2>5 DEF Left, Locals
  <2> QED
    BY <1>a, <1>o, <2>2, <2>3, <2>6, <2>7, <2>8, <2>9, GoOnLeaves DEF FillStep, Filled
<1>8. CASE BlockLast
  <2> DEFINE x == WithKid(old, 2, NullTree)
             f == Resume("stmts")
  <2>1. Writes(x, 0)
    BY <1>8, <1>o DEF BlockLast, Write, WithKid, Writes
  <2>2. Top.at = "stmts_next" /\ Top.at \notin Locals /\ Len(old.kids) = 2 /\ old.kids[2] = Wild
    BY <1>8, <1>c, <1>o DEF BlockLast, At, Locals, Waits
  <2>3. Forward /\ GoOn(f)
    BY <1>8, ForwardIf DEF BlockLast, GoOn
  <2>4. x.held = 0 /\ x.kids = [old.kids EXCEPT ![2] = NullTree]
    BY <1>b, <1>d, <2>2 DEF WithKid, Nodes
  <2>5. f.at = "stmts" /\ f.tree = Top.tree /\ f.own = <<>>
    BY <1>a, <1>b, <2>2, ResumeIs, NoLocals
  <2> HIDE DEF x, f
  <2>6. Fields(old, x, 0)
    <3>1. 2 \in DOMAIN old.kids
      BY <1>b, <2>2 DEF Nodes
    <3>2. ~(old.kids[2] > 0) /\ ~(NullTree > 0)
      BY <2>2 DEF Wild, NullTree
    <3> QED
      BY <2>4, <3>1, <3>2, FieldsKid
  <2>7. Grows(x, 0)
    BY <1>a, <1>o, <2>3, <2>4, <2>6, GrowsIf
  <2>8. Left(f, x, 0)
    BY <2>5 DEF Left, Locals
  <2> QED
    BY <1>a, <1>o, <2>1, <2>2, <2>3, <2>6, <2>7, <2>8, GoOnLeaves DEF FillStep, Filled
<1>9. CASE BlockGiveUp
  <2>1. Top.at \notin Locals
    BY <1>9 DEF BlockGiveUp, At, Locals
  <2> QED
    BY <1>9, <1>a, <2>1, ForwardIf, ReturnLeaves, SameFills DEF BlockGiveUp, Return
<1> QED
  BY <1>1, <1>2, <1>3, <1>4, <1>5, <1>6, <1>7, <1>8, <1>9 DEF BlockStep

LEMMA ExpressionFills ==
  ASSUME ParserInv, NodesInv,
         \/ Atom \/ AtomEnd \/ OperatorsEnd \/ Expression \/ ExpressionOperators
         \/ ExpressionEnd
  PROVE  FillStep
<1>1. CASE Atom
  <2>1. stack # <<>> /\ Top.at \notin Locals
    BY <1>1 DEF Atom, At, Locals
  <2>2. /\ Call(Resume("suffix"), Frame("small_atom", Top.tree)) /\ heap' = heap /\ Forward
    BY <1>1, ForwardIf DEF Atom, Call
  <2>3. "suffix" \notin Holding \union {"assign"} /\ "small_atom" \notin Holding \union {"assign"}
    BY DEF Holding
  <2> QED
    BY <2>1, <2>2, <2>3, CallSameFills DEF NodesInv
<1>2. CASE AtomEnd \/ OperatorsEnd \/ ExpressionEnd
  <2>1. stack # <<>> /\ Top.at \notin Locals
    BY <1>2 DEF AtomEnd, OperatorsEnd, ExpressionEnd, At, Locals
  <2>2. stack' = Below /\ heap' = heap /\ pos' = pos /\ tokens' = tokens
    BY <1>2 DEF AtomEnd, OperatorsEnd, ExpressionEnd, Return
  <2> QED
    BY <2>1, <2>2, ForwardIf, ReturnLeaves, SameFills
<1>3. CASE Expression
  <2>1. stack # <<>> /\ Top.at \notin Locals
    BY <1>3 DEF Expression, At, Locals
  <2>2. /\ Call(Resume("expr_ops"), Frame("atom", Top.tree)) /\ heap' = heap /\ Forward
    BY <1>3, ForwardIf DEF Expression, Call
  <2>3. "expr_ops" \notin Holding \union {"assign"} /\ "atom" \notin Holding \union {"assign"}
    BY DEF Holding
  <2> QED
    BY <2>1, <2>2, <2>3, CallSameFills DEF NodesInv
<1>4. CASE ExpressionOperators
  <2> DEFINE f == Resume("expr_end")
             g == NthFrame(Top.tree, 0)
  <2>1. stack # <<>> /\ Top.at \notin Locals
    BY <1>4 DEF ExpressionOperators, At, Locals
  <2>2. Call(f, g) /\ heap' = heap /\ Forward
    BY <1>4, ForwardIf DEF ExpressionOperators, Call
  <2>3. f.at = "expr_end" /\ f.tree = Top.tree /\ f.own = <<>>
    BY <2>1, ResumeIs, NoLocals DEF NodesInv
  <2>4. g.at = "nth" /\ g.tree = Top.tree /\ g.own = <<>>
    BY DEF NthFrame, Frame
  <2> HIDE DEF f, g
  <2>5. Left(f, heap[Top.tree], 0) /\ Left(g, heap[Top.tree], 0)
    BY <2>3, <2>4 DEF Left, Locals
  <2> QED
    BY <2>1, <2>2, <2>3, <2>5, CallLeaves, SameFills
<1> QED
  BY <1>1, <1>2, <1>3, <1>4

(* Every step fills the node of the innermost function, or is one of the   *)
(* five that use the local variables of the frames.                        *)
LEMMA StepCases ==
  ASSUME ParserInv, NodesInv, OrderInv, Next
  PROVE  FillStep \/ Operator \/ OperandDeeper \/ AtomTrail \/ TrailEnd \/ Combine
  BY SmallAtomFills, StatementFills, BlockFills, ExpressionFills DEF Next, AtomStep, ExpressionStep

-----------------------------------------------------------------------------
(* The steps that build two nodes, or use the second one. *)

LEMMA OperatorOrder ==
  ASSUME ParserInv, NodesInv, OrderInv, Operator
  PROVE  OrderInv'
<1> DEFINE f == [Resume("nth_right") EXCEPT !.own = <<New1>>, !.op = Cur]
           g == Frame("atom", New1)
<1>n. PICK n, t : n = Len(stack) /\ t = Top.tree
  OBVIOUS
<1>a. stack # <<>> /\ Top.at = "nth" /\ Top.at # "trail" /\ Top.at \notin Locals /\ FramesInv
  BY DEF Operator, At, Locals, NodesInv
<1>1. heap' = Append(heap, Fresh) /\ Call(f, g) /\ pos' = pos + 1 /\ tokens' = tokens
  BY DEF Operator, Call, Advance
<1>2. f.at = "nth_right" /\ f.tree = t /\ f.own = <<New1>> /\ f.own[1] = New1
  <2>1. Top \in Frames(Len(heap))
    BY <1>a, TopTyped DEF GoodFrames
  <2> QED
    BY <1>n, <2>1 DEF Resume, Frames
<1>3. g.at = "atom" /\ g.tree = New1 /\ g.own = <<>>
  BY FrameIs
<1> HIDE DEF f, g
<1>4. Writes(heap[Top.tree], 1)
  <2>1. heap = [m \in DOMAIN heap |-> heap[m]]
    BY DEF ParserInv
  <2>2. heap = Write(Top.tree, heap[Top.tree])
    BY <2>1 DEF Write
  <2> QED
    BY <1>1, <2>2 DEF Writes
<1>5. Written(heap[Top.tree], 1)
  BY <1>a, <1>4, WritesIs
<1>6. PICK lo, hi : Ordered(lo, hi)
  BY DEF OrderInv
<1>7. PICK lo2, hi2 : /\ lo2 = [m \in DOMAIN heap \union {New1} |-> IF m \in DOMAIN heap THEN lo[m] ELSE pos']
                      /\ hi2 = [m \in DOMAIN heap \union {New1} |->
                                  IF m \in DOMAIN heap
                                  THEN IF m > Top.tree /\ hi[m] = Open THEN pos ELSE hi[m]
                                  ELSE Open]
  OBVIOUS
<1>8. Closes(lo, hi, lo2, hi2, FALSE)
  BY <1>7 DEF Closes
<1>9. lo2[New1] = pos' /\ hi2[New1] = Open
  BY <1>5, <1>7 DEF Written
<1>10. /\ InOrder(heap[t], t, lo2, hi2, Open) /\ hi2[t] = Open /\ lo2[t] \in Nat /\ lo2[t] <= pos
       /\ heap[t].held \in Nat /\ heap[t].held <= pos
       /\ \A k \in 1 .. 4 : Points(heap[t], k) => hi2[heap[t].kids[k]] \in Nat /\ hi2[heap[t].kids[k]] <= pos
  BY <1>6, <1>8, <1>a, <1>n, TopClosed
<1>11. t \in Nat /\ New1 \in Nat /\ t < New1 /\ pos \in Nat /\ pos' \in Nat /\ pos <= pos'
  BY <1>1, <1>a, <1>n, TopTyped, Tokens_ DEF New1
<1>12. heap'[t] = heap[t] /\ Local
  BY <1>5, <1>n DEF Written
<1>13. NewOrder(lo2, hi2)
  <2>1. ASSUME NEW m \in DOMAIN heap', m \notin DOMAIN heap
        PROVE  /\ lo2[m] \in 0 .. pos' /\ (hi2[m] \in 0 .. pos' \/ hi2[m] = Open)
               /\ heap'[m].held <= pos' /\ InOrder(heap'[m], m, lo2, hi2, Open)
    <3>1. m = New1 /\ heap'[m] = Fresh
      BY <1>5, <2>1 DEF Written
    <3>2. Fresh.held = 0 /\ \A k : ~Points(Fresh, k)
      BY FreshIs DEF Points
    <3>3. InOrder(Fresh, m, lo2, hi2, Open)
      BY <3>2 DEF InOrder
    <3> QED
      BY <1>9, <1>11, <3>1, <3>2, <3>3
  <2>2. heap[t].held <= pos'
    BY <1>10, <1>11
  <2> QED
    BY <1>10, <1>12, <1>n, <2>1, <2>2 DEF NewOrder
<1>14. /\ n \in Nat \ {0} /\ DOMAIN stack' = 1 .. n + 1 /\ stack'[n] = f /\ stack'[n + 1] = g
       /\ \A i \in 1 .. n - 1 : stack'[i] = stack[i]
  <2>1. n \in Nat \ {0} /\ \A i \in 1 .. n - 1 : i \in 1 .. n /\ i < n
    BY <1>a, <1>n, StackBase, Upto
  <2>2. /\ DOMAIN stack' = 1 .. n + 1 /\ stack'[n] = f /\ stack'[n + 1] = g
        /\ \A i \in 1 .. n : i < n => stack'[i] = stack[i]
    BY <1>1, <1>a, <1>n, StackIs
  <2> QED
    BY <2>1, <2>2
<1>15. \A i \in DOMAIN stack' : i >= n => i = n \/ i = n + 1
  BY <1>14
<1>16. StaleOf(stack') = StaleOf(stack)
  BY <1>2, <1>3, <1>14, <1>15, <1>a, <1>n, StaleBy
<1>17. Last(f) = New1 /\ Last(g) = New1
  BY <1>2, <1>3 DEF Last
<1>18. FrameOrder(f, heap'[f.tree], lo2, hi2, Open)
  <2>1. \A k \in 1 .. 4 : Points(heap[t], k) => hi2[heap[t].kids[k]] <= pos'
    BY <1>10, <1>11
  <2>2. t <= New1 /\ t # New1 /\ lo2[t] <= pos' /\ heap[t].held <= pos'
    BY <1>10, <1>11
  <2> QED
    BY <1>2, <1>9, <1>10, <1>12, <1>17, <2>1, <2>2 DEF FrameOrder
<1>19. FrameOrder(g, heap'[g.tree], lo2, hi2, Open)
  BY <1>3, <1>9, <1>11, <1>17 DEF FrameOrder, Locals
<1>20. \A i \in DOMAIN stack' : i >= n =>
           /\ FrameOrder(stack'[i], heap'[stack'[i].tree], lo2, hi2, Open)
           /\ t <= stack'[i].tree /\ stack'[i].tree \in Nat
  BY <1>2, <1>3, <1>11, <1>14, <1>15, <1>18, <1>19
<1>21. \A i, j \in DOMAIN stack' : i >= n /\ i < j => Last(stack'[i]) <= stack'[j].tree
  <2>1. \A i, j \in DOMAIN stack' : i >= n /\ i < j => i = n /\ j = n + 1
    BY <1>14
  <2> QED
    BY <1>3, <1>11, <1>14, <1>17, <2>1
<1>22. Ordered(lo2, hi2)'
  BY <1>1, <1>6, <1>8, <1>11, <1>12, <1>13, <1>14, <1>16, <1>20, <1>21, <1>a, <1>n, OrderStep
<1> QED
  BY <1>22 DEF OrderInv

LEMMA OperandDeeperOrder ==
  ASSUME ParserInv, NodesInv, OrderInv, OperandDeeper
  PROVE  OrderInv'
<1> DEFINE f == Resume("nth_deep")
           g == NthFrame(Top.own[1], Prec(Top.op) + 1)
<1>n. PICK n, t, o : n = Len(stack) /\ t = Top.tree /\ o = Top.own[1]
  OBVIOUS
<1>a. stack # <<>> /\ Top.at = "nth_right" /\ Top.at # "trail" /\ FramesInv
  BY DEF OperandDeeper, At, NodesInv
<1>1. Call(f, g) /\ heap' = heap /\ pos' = pos /\ tokens' = tokens
  BY DEF OperandDeeper, Call
<1>2. f.at = "nth_deep" /\ f.tree = t /\ f.own = Top.own
  BY <1>a, <1>n, ResumeIs
<1>3. g.at = "nth" /\ g.tree = o /\ g.own = <<>>
  BY <1>n DEF NthFrame, Frame
<1> HIDE DEF f, g
<1>4. o \in 1 .. Len(heap) /\ o \in Nat /\ t \in Nat /\ t \in DOMAIN heap /\ pos \in Nat
  <2>1. Top.own \in Seq(1 .. Len(heap)) /\ Len(Top.own) = 1
    BY <1>a, TopTyped DEF GoodFrames, Frames, WellFormed
  <2> QED
    BY <1>a, <1>n, <2>1, TopTyped, Tokens_ DEF ParserInv
<1>5. PICK lo, hi : Ordered(lo, hi)
  BY DEF OrderInv
<1>6. Closes(lo, hi, lo, hi, TRUE)
  BY DEF Closes
<1>7. t \notin StaleOf(stack) /\ InOrder(heap[t], t, lo, hi, Open) /\ heap[t].held <= pos
  BY <1>4, <1>5, <1>a, <1>n, TopInUse DEF Ordered
<1>8. NewOrder(lo, hi)
  BY <1>1, <1>7, <1>n DEF NewOrder
<1>9. /\ n \in Nat \ {0} /\ DOMAIN stack' = 1 .. n + 1 /\ stack'[n] = f /\ stack'[n + 1] = g
      /\ \A i \in 1 .. n - 1 : stack'[i] = stack[i]
      /\ n \in DOMAIN stack /\ stack[n] = Top
  <2>1. /\ n \in Nat \ {0} /\ \A i \in 1 .. n - 1 : i \in 1 .. n /\ i < n
        /\ n \in DOMAIN stack /\ stack[n] = Top
    BY <1>a, <1>n, StackBase, Upto
  <2>2. /\ DOMAIN stack' = 1 .. n + 1 /\ stack'[n] = f /\ stack'[n + 1] = g
        /\ \A i \in 1 .. n : i < n => stack'[i] = stack[i]
    BY <1>1, <1>a, <1>n, StackIs
  <2> QED
    BY <2>1, <2>2
<1>10. \A i \in DOMAIN stack' : i >= n => i = n \/ i = n + 1
  BY <1>9
<1>11. StaleOf(stack') = StaleOf(stack)
  BY <1>2, <1>3, <1>9, <1>10, <1>a, <1>n, StaleBy
<1>12. Last(f) = o /\ Last(g) = o /\ Last(Top) = o
  BY <1>2, <1>3, <1>a, <1>n DEF Last
<1>13. FrameOrder(Top, heap[t], lo, hi, Open)
  BY <1>5, <1>9, <1>n DEF Ordered
<1>14. /\ t <= o /\ hi[t] = Open /\ hi[o] = Open
       /\ lo[t] <= lo[o] /\ t # o /\ heap[t].held <= lo[o]
       /\ \A k \in 1 .. 4 : Points(heap[t], k) => hi[heap[t].kids[k]] <= lo[o]
  BY <1>12, <1>13, <1>a, <1>n DEF FrameOrder, Locals
<1>15. FrameOrder(f, heap[t], lo, hi, Open)
  BY <1>2, <1>12, <1>14 DEF FrameOrder
<1>16. FrameOrder(g, heap[o], lo, hi, Open)
  BY <1>3, <1>4, <1>12, <1>14 DEF FrameOrder, Locals
<1>17. \A i \in DOMAIN stack' : i >= n =>
           /\ FrameOrder(stack'[i], heap'[stack'[i].tree], lo, hi, Open)
           /\ t <= stack'[i].tree /\ stack'[i].tree \in Nat
  BY <1>1, <1>2, <1>3, <1>4, <1>9, <1>10, <1>14, <1>15, <1>16
<1>18. \A i, j \in DOMAIN stack' : i >= n /\ i < j => Last(stack'[i]) <= stack'[j].tree
  <2>1. \A i, j \in DOMAIN stack' : i >= n /\ i < j => i = n /\ j = n + 1
    BY <1>9
  <2> QED
    BY <1>3, <1>4, <1>9, <1>12, <2>1
<1>19. Local
  BY <1>1, <1>4, Tokens_ DEF Local, ParserInv
<1>20. Ordered(lo, hi)'
  <2>1. tokens' = tokens /\ pos' \in Nat /\ pos <= pos' /\ \A a \in StaleOf(stack) : a \in StaleOf(stack')
    BY <1>1, <1>4, <1>11
  <2>2. PICK m : m = Len(stack) + 1
    OBVIOUS
  <2>3. /\ m \in {Len(stack) - 1, Len(stack), Len(stack) + 1} /\ DOMAIN stack' = 1 .. m
        /\ \A i \in 1 .. Len(stack) - 1 : stack'[i] = stack[i]
        /\ \A i \in DOMAIN stack' : i >= Len(stack) =>
             /\ FrameOrder(stack'[i], heap'[stack'[i].tree], lo, hi, Open)
             /\ Top.tree <= stack'[i].tree /\ stack'[i].tree \in Nat
        /\ \A i, j \in DOMAIN stack' : i >= Len(stack) /\ i < j => Last(stack'[i]) <= stack'[j].tree
    BY <1>9, <1>17, <1>18, <1>n, <2>2
  <2> QED
    BY <1>5, <1>6, <1>8, <1>19, <1>a, <2>1, <2>3, OrderStep
<1> QED
  BY <1>20 DEF OrderInv

LEMMA AtomTrailOrder ==
  ASSUME ParserInv, NodesInv, OrderInv, AtomTrail
  PROVE  OrderInv'
<1> DEFINE f == [Resume("trail") EXCEPT !.own = <<New1, New2>>, !.op = Cur]
           g == Frame("atom", New2)
<1>n. PICK n, t : n = Len(stack) /\ t = Top.tree
  OBVIOUS
<1>a. stack # <<>> /\ Top.at = "suffix" /\ Top.at # "trail" /\ FramesInv
  BY DEF AtomTrail, At, NodesInv
<1>1. /\ heap' = heap \o <<heap[t], Fresh>> /\ Call(f, g) /\ pos' = pos + 1 /\ tokens' = tokens
  BY <1>n DEF AtomTrail, Call, Advance
<1>2. f.at = "trail" /\ f.tree = t /\ f.own[1] = New1 /\ f.own[2] = New2
  <2>1. Top \in Frames(Len(heap))
    BY <1>a, TopTyped DEF GoodFrames
  <2> QED
    BY <1>n, <2>1 DEF Resume, Frames
<1>3. g.at = "atom" /\ g.tree = New2 /\ g.own = <<>>
  BY FrameIs
<1> HIDE DEF f, g
<1>4. /\ Len(heap) \in Nat \ {0} /\ t \in 1 .. Len(heap) /\ DOMAIN heap = 1 .. Len(heap)
      /\ heap \in Seq(Nodes(Len(heap))) /\ pos \in Nat /\ t \in Nat
      /\ Open \in Nat /\ pos < Open
  BY <1>a, <1>n, TopTyped, Tokens_ DEF ParserInv, Open
<1>5. /\ New1 = Len(heap) + 1 /\ New1 \notin 1 .. Len(heap)
      /\ New2 = Len(heap) + 2 /\ New2 \notin 1 .. Len(heap) /\ New1 # New2
      /\ t < New1 /\ t < New2 /\ New1 \in Nat /\ New2 \in Nat
  BY <1>4 DEF New1, New2
<1>6. /\ Len(heap') = Len(heap) + 2 /\ DOMAIN heap' = 1 .. Len(heap) + 2
      /\ \A m \in 1 .. Len(heap) : heap'[m] = heap[m]
      /\ heap'[New1] = heap[t] /\ heap'[New2] = Fresh
  <2>1. PICK N, y : N = Nodes(Len(heap)) \union {Fresh} /\ y = heap[t]
    OBVIOUS
  <2>2. heap \in Seq(N) /\ y \in N /\ Fresh \in N
    BY <1>4, <2>1
  <2>3. heap' = heap \o <<y, Fresh>>
    BY <1>1, <2>1
  <2> QED
    BY <1>4, <1>5, <2>1, <2>2, <2>3
<1>7. Local
  BY <1>4, <1>6 DEF Local
<1>8. PICK lo, hi : Ordered(lo, hi)
  BY DEF OrderInv
<1>9. PICK lo2, hi2 : /\ lo2 = [m \in DOMAIN heap \union {New1, New2} |->
                                  IF m \in DOMAIN heap THEN lo[m] ELSE IF m = New1 THEN lo[t] ELSE pos']
                      /\ hi2 = [m \in DOMAIN heap \union {New1, New2} |->
                                  IF m \in DOMAIN heap
                                  THEN IF m > t /\ hi[m] = Open THEN pos ELSE hi[m]
                                  ELSE IF m = New1 THEN pos ELSE Open]
  OBVIOUS
<1>10. Closes(lo, hi, lo2, hi2, FALSE) /\ lo2[t] = lo[t]
  BY <1>4, <1>9, <1>n DEF Closes
<1>11. lo2[New1] = lo2[t] /\ hi2[New1] = pos /\ lo2[New2] = pos' /\ hi2[New2] = Open
  BY <1>4, <1>5, <1>9, <1>10
<1>12. /\ InOrder(heap[t], t, lo2, hi2, Open) /\ hi2[t] = Open /\ lo2[t] \in Nat /\ lo2[t] <= pos
       /\ heap[t].held \in Nat /\ heap[t].held <= pos
       /\ \A k \in 1 .. 4 : Points(heap[t], k) => hi2[heap[t].kids[k]] \in Nat /\ hi2[heap[t].kids[k]] <= pos
  BY <1>8, <1>10, <1>a, <1>n, TopClosed
<1>13. InOrder(heap[t], New1, lo2, hi2, Open)
  <2>1. PICK x : x = heap[t]
    OBVIOUS
  <2>2. \A k \in 1 .. 4 : Points(x, k) =>
          /\ lo2[New1] <= lo2[x.kids[k]] /\ hi2[x.kids[k]] <= hi2[New1]
          /\ hi2[x.kids[k]] = Open => New1 < x.kids[k]
    BY <1>4, <1>11, <1>12, <2>1 DEF InOrder
  <2>3. x.held > 0 => lo2[New1] < x.held /\ x.held <= hi2[New1]
    BY <1>11, <1>12, <2>1 DEF InOrder
  <2>4. InOrder(x, t, lo2, hi2, Open)
    BY <1>12, <2>1
  <2>5. InOrder(x, New1, lo2, hi2, Open)
    BY <2>2, <2>3, <2>4 DEF InOrder
  <2> QED
    BY <2>1, <2>5
<1>14. pos' \in Nat /\ pos <= pos'
  BY <1>1, <1>4
<1>15. /\ n \in Nat \ {0} /\ DOMAIN stack' = 1 .. n + 1 /\ stack'[n] = f /\ stack'[n + 1] = g
       /\ \A i \in 1 .. n - 1 : stack'[i] = stack[i]
       /\ n \in DOMAIN stack /\ stack[n] = Top /\ DOMAIN stack = 1 .. n
  <2>1. /\ n \in Nat \ {0} /\ \A i \in 1 .. n - 1 : i \in 1 .. n /\ i < n
        /\ n \in DOMAIN stack /\ stack[n] = Top /\ DOMAIN stack = 1 .. n
    BY <1>a, <1>n, StackBase, Upto
  <2>2. /\ DOMAIN stack' = 1 .. n + 1 /\ stack'[n] = f /\ stack'[n + 1] = g
        /\ \A i \in 1 .. n : i < n => stack'[i] = stack[i]
    BY <1>1, <1>a, <1>n, StackIs
  <2> QED
    BY <2>1, <2>2
<1>16. \A i \in DOMAIN stack' : i >= n => i = n \/ i = n + 1
  BY <1>15
<1>17. t \in StaleOf(stack') /\ \A a \in StaleOf(stack) : a \in StaleOf(stack')
  <2>1. n \in DOMAIN stack'
    BY <1>15
  <2>2. ASSUME NEW i \in DOMAIN stack, stack[i].at = "trail" PROVE stack[i].tree \in StaleOf(stack')
    <3>1. i # n
      BY <1>15, <1>a, <2>2
    <3>2. i \in 1 .. n - 1 /\ i \in DOMAIN stack'
      BY <1>15, <3>1
    <3>3. stack'[i] = stack[i]
      BY <1>15, <3>2
    <3> QED
      BY <2>2, <3>2, <3>3 DEF StaleOf
  <2> QED
    BY <1>2, <1>15, <2>1, <2>2 DEF StaleOf
<1>18. NewOrder(lo2, hi2)
  <2>1. ASSUME NEW m \in DOMAIN heap', m \notin DOMAIN heap
        PROVE  /\ lo2[m] \in 0 .. pos' /\ (hi2[m] \in 0 .. pos' \/ hi2[m] = Open)
               /\ heap'[m].held <= pos' /\ InOrder(heap'[m], m, lo2, hi2, Open)
    <3>1. m = New1 \/ m = New2
      BY <1>4, <1>5, <1>6, <2>1
    <3>2. CASE m = New1
      <4>1. lo2[m] \in 0 .. pos' /\ hi2[m] \in 0 .. pos' /\ heap'[m].held <= pos'
        BY <1>4, <1>6, <1>11, <1>12, <1>14, <3>2
      <4> QED
        BY <1>6, <1>13, <3>2, <4>1
    <3>3. CASE m = New2
      <4>1. Fresh.held = 0 /\ \A k : ~Points(Fresh, k)
        BY FreshIs DEF Points
      <4>2. InOrder(Fresh, m, lo2, hi2, Open)
        BY <4>1 DEF InOrder
      <4> QED
        BY <1>6, <1>11, <1>14, <3>3, <4>1, <4>2
    <3> QED
      BY <3>1, <3>2, <3>3
  <2>2. heap'[t].held <= pos'
    BY <1>4, <1>6, <1>12, <1>14
  <2> QED
    BY <1>17, <1>n, <2>1, <2>2 DEF NewOrder
<1>19. Last(f) = New2 /\ Last(g) = New2
  BY <1>2, <1>3 DEF Last
<1>20. FrameOrder(f, heap'[f.tree], lo2, hi2, Open)
  <2>1. t <= New2 /\ t # New2 /\ lo2[t] <= pos' /\ lo2[t] <= lo2[New1] /\ pos <= pos'
    BY <1>4, <1>5, <1>11, <1>12, <1>14
  <2> QED
    BY <1>2, <1>11, <1>12, <1>19, <2>1 DEF FrameOrder
<1>21. FrameOrder(g, heap'[g.tree], lo2, hi2, Open)
  BY <1>3, <1>5, <1>11, <1>19 DEF FrameOrder, Locals
<1>22. \A i \in DOMAIN stack' : i >= n =>
           /\ FrameOrder(stack'[i], heap'[stack'[i].tree], lo2, hi2, Open)
           /\ t <= stack'[i].tree /\ stack'[i].tree \in Nat
  BY <1>2, <1>3, <1>4, <1>5, <1>15, <1>16, <1>20, <1>21
<1>23. \A i, j \in DOMAIN stack' : i >= n /\ i < j => Last(stack'[i]) <= stack'[j].tree
  <2>1. \A i, j \in DOMAIN stack' : i >= n /\ i < j => i = n /\ j = n + 1
    BY <1>15
  <2> QED
    BY <1>3, <1>5, <1>15, <1>19, <2>1
<1>24. Ordered(lo2, hi2)'
  BY <1>1, <1>7, <1>8, <1>10, <1>14, <1>15, <1>17, <1>18, <1>22, <1>23, <1>a, <1>n, OrderStep
<1> QED
  BY <1>24 DEF OrderInv

LEMMA TrailEndOrder ==
  ASSUME ParserInv, NodesInv, OrderInv, TrailEnd
  PROVE  OrderInv'
<1>n. PICK n, t, own : n = Len(stack) /\ t = Top.tree /\ own = Top.own
  OBVIOUS
<1>a. stack # <<>> /\ Top.at = "trail"
  BY DEF TrailEnd, At
<1>1. PICK x : /\ x.held = 0 /\ x.kids = own /\ heap' = Write(t, x)
               /\ stack' = Below /\ pos' = pos /\ tokens' = tokens
  <2>1. PICK kind : heap' = Write(Top.tree, Node("TYPE_TRAIL", 0, kind, Top.own))
    BY DEF TrailEnd
  <2>2. stack' = Below /\ pos' = pos /\ tokens' = tokens
    BY DEF TrailEnd, Return
  <2> QED
    BY <1>n, <2>1, <2>2, NodeIs
<1>2. /\ DOMAIN own = {1, 2} /\ own[1] \in DOMAIN heap /\ own[2] \in DOMAIN heap
      /\ t \in DOMAIN heap /\ t \in Nat /\ own[1] \in Nat /\ own[2] \in Nat
  <2>1. own \in Seq(1 .. Len(heap)) /\ Len(own) = 2
    BY <1>a, <1>n, TopTyped DEF GoodFrames, Frames, WellFormed
  <2>2. DOMAIN own = 1 .. 2 /\ 1 .. 2 = {1, 2}
    BY <2>1
  <2>3. own[1] \in 1 .. Len(heap) /\ own[2] \in 1 .. Len(heap)
    BY <2>1
  <2>4. DOMAIN heap = 1 .. Len(heap) /\ Len(heap) \in Nat
    BY DEF ParserInv
  <2>5. t \in 1 .. Len(heap)
    BY <1>a, <1>n, TopTyped
  <2> QED
    BY <2>2, <2>3, <2>4, <2>5
<1>3. Writes(x, 0)
  BY <1>1, <1>n DEF Writes
<1>4. Local /\ heap'[t] = x /\ DOMAIN heap' = DOMAIN heap
  <2>1. Written(x, 0)
    BY <1>a, <1>3, WritesIs
  <2> QED
    BY <2>1, <1>n DEF Written, Local
<1>5. /\ n \in Nat \ {0} /\ DOMAIN stack = 1 .. n /\ stack[n] = Top /\ n \in DOMAIN stack
      /\ DOMAIN stack' = 1 .. n - 1 /\ \A i \in 1 .. n - 1 : stack'[i] = stack[i]
  BY <1>1, <1>a, <1>n, StackIs
<1>6. PICK lo, hi : Ordered(lo, hi)
  BY DEF OrderInv
<1>7. PICK lo2, hi2 : /\ lo2 = [m \in DOMAIN heap |-> lo[m]]
                      /\ hi2 = [m \in DOMAIN heap |-> IF m > t /\ hi[m] = Open THEN pos ELSE hi[m]]
  OBVIOUS
<1>8. Closes(lo, hi, lo2, hi2, FALSE)
  BY <1>7, <1>n DEF Closes
<1>9. PICK a, b, e : a = own[1] /\ b = own[2] /\ e = Open
  OBVIOUS
<1>10. e \in Nat /\ pos \in Nat /\ pos < e
  BY <1>9, Tokens_ DEF Open, ParserInv
<1>11. /\ t <= b /\ hi[t] = e /\ hi[b] = e /\ lo[t] <= lo[b] /\ t # b
       /\ lo[t] <= lo[a] /\ hi[a] <= lo[b]
  <2>1. Last(Top) = b
    BY <1>9, <1>a, <1>n DEF Last
  <2>2. FrameOrder(Top, heap[t], lo, hi, e)
    BY <1>5, <1>6, <1>9, <1>n DEF Ordered
  <2> QED
    BY <1>9, <1>a, <1>n, <2>1, <2>2 DEF FrameOrder, Locals
<1>12. /\ \A m \in {t, a, b} : lo[m] \in Nat /\ lo[m] <= pos /\ hi[m] \in Nat /\ lo2[m] = lo[m]
       /\ hi2[t] = hi[t] /\ hi2[a] = hi[a] /\ hi2[b] = pos
  <2>1. \A m \in {t, a, b} : /\ m \in DOMAIN heap /\ lo[m] \in Nat /\ lo[m] <= pos
                             /\ (hi[m] \in 0 .. pos \/ hi[m] = e)
    BY <1>2, <1>6, <1>9, <1>10 DEF Ordered
  <2>2. hi[a] # e
    BY <1>10, <1>11, <2>1
  <2>3. ~(t > t) /\ b > t
    BY <1>2, <1>9, <1>11
  <2> QED
    BY <1>7, <1>9, <1>10, <1>11, <2>1, <2>2, <2>3
<1>13. InOrder(x, t, lo2, hi2, e)
  <2>1. \A k : Points(x, k) => k = 1 \/ k = 2
    BY <1>1, <1>2 DEF Points
  <2>2. /\ lo2[t] <= lo2[a] /\ hi2[a] <= hi2[t] /\ hi2[a] # e
        /\ lo2[t] <= lo2[b] /\ hi2[b] <= hi2[t] /\ hi2[b] # e
        /\ hi2[a] <= lo2[b]
    BY <1>10, <1>11, <1>12
  <2>3. ASSUME NEW k \in 1 .. 4, Points(x, k)
        PROVE  /\ lo2[t] <= lo2[x.kids[k]] /\ hi2[x.kids[k]] <= hi2[t]
               /\ hi2[x.kids[k]] # e
    <3>1. x.kids[k] = a \/ x.kids[k] = b
      BY <1>1, <1>9, <2>1, <2>3
    <3> QED
      BY <2>2, <3>1
  <2>4. ASSUME NEW j \in 1 .. 4, NEW k \in 1 .. 4, Points(x, j), Points(x, k), j < k
        PROVE  hi2[x.kids[j]] <= lo2[x.kids[k]]
    <3>1. j = 1 /\ k = 2
      BY <2>1, <2>4
    <3> QED
      BY <1>1, <1>9, <2>2, <3>1
  <2>5. ~(x.held > 0)
    BY <1>1
  <2> QED
    BY <2>3, <2>4, <2>5 DEF InOrder
<1>14. NewOrder(lo2, hi2)
  <2>1. x.held <= pos'
    BY <1>1, <1>10
  <2> QED
    BY <1>4, <1>9, <1>13, <1>n, <2>1 DEF NewOrder
<1>15. \A c \in StaleOf(stack) : c = t \/ c \in StaleOf(stack')
  <2> SUFFICES ASSUME NEW i \in DOMAIN stack, stack[i].at = "trail", stack[i].tree # t
               PROVE  stack[i].tree \in StaleOf(stack')
    BY DEF StaleOf
  <2>1. i # n
    BY <1>5, <1>n
  <2>2. i \in 1 .. n - 1
    BY <1>5, <2>1
  <2> QED
    BY <1>5, <2>2 DEF StaleOf
<1>16. Ordered(lo2, hi2)'
  <2>1. \A i \in DOMAIN stack' : ~(i >= n)
    BY <1>5
  <2>2. PICK m : m = n - 1
    OBVIOUS
  <2>3. m \in {Len(stack) - 1, Len(stack), Len(stack) + 1} /\ DOMAIN stack' = 1 .. m
    BY <1>5, <1>n, <2>2
  <2>4. pos' \in Nat /\ pos <= pos' /\ tokens' = tokens
    BY <1>1, <1>10
  <2> QED
    BY <1>4, <1>5, <1>6, <1>8, <1>14, <1>15, <1>a, <1>n, <2>1, <2>3, <2>4, OrderStep
<1> QED
  BY <1>16 DEF OrderInv

LEMMA CombineOrder ==
  ASSUME ParserInv, NodesInv, OrderInv, Combine
  PROVE  OrderInv'
<1> DEFINE f == [Resume("nth") EXCEPT !.own = <<>>]
<1>n. PICK n, t, y, e : n = Len(stack) /\ t = Top.tree /\ y = heap[t] /\ e = Open
  OBVIOUS
<1>a. stack # <<>> /\ Top.at \in {"nth_right", "nth_deep"} /\ Top.at # "trail" /\ FramesInv
  BY DEF Combine, At, NodesInv
<1>2. PICK o : o \in 1 .. Len(heap) /\ Top.own[1] = o
  <2>1. Top.own \in Seq(1 .. Len(heap)) /\ Len(Top.own) = 1
    BY <1>a, TopTyped DEF GoodFrames, Frames, WellFormed
  <2> QED
    BY <2>1
<1>1. PICK x : /\ x.held = 0 /\ x.kids = <<New1, o>> /\ heap' = Append(Write(t, x), y)
               /\ GoOn(f) /\ pos' = pos /\ tokens' = tokens
  <2>1. PICK z : /\ z = Node("BINARY_OP", 0, OpCode(Top.op), <<New1, Top.own[1]>>)
                 /\ heap' = Append(Write(Top.tree, z), heap[Top.tree])
    BY DEF Combine
  <2>2. GoOn(f) /\ pos' = pos /\ tokens' = tokens
    BY DEF Combine, GoOn
  <2>3. z.held = 0 /\ z.kids = <<New1, Top.own[1]>>
    BY <2>1, NodeIs
  <2> QED
    BY <1>2, <1>n, <2>1, <2>2, <2>3
<1>3. f.at = "nth" /\ f.tree = t /\ f.own = <<>>
  <2>1. Top \in Frames(Len(heap))
    BY <1>a, TopTyped DEF GoodFrames
  <2> QED
    BY <1>n, <2>1 DEF Resume, Frames
<1> HIDE DEF f
<1>4. /\ Len(heap) \in Nat /\ t \in 1 .. Len(heap) /\ DOMAIN heap = 1 .. Len(heap)
      /\ Len(heap') = Len(heap) + 1 /\ DOMAIN heap' = 1 .. Len(heap) + 1
      /\ heap'[t] = x /\ heap'[Len(heap) + 1] = y
      /\ \A m \in 1 .. Len(heap) : m # t => heap'[m] = heap[m]
  BY <1>1, <1>a, <1>n, HeapIs
<1>5. /\ New1 = Len(heap) + 1 /\ New1 \notin DOMAIN heap /\ New1 \in Nat /\ t < New1 /\ t \in Nat
      /\ t \in DOMAIN heap /\ o \in DOMAIN heap /\ o \in Nat
  BY <1>2, <1>4 DEF New1
<1>6. Local
  BY <1>4, <1>n DEF Local
<1>7. /\ n \in Nat \ {0} /\ DOMAIN stack = 1 .. n /\ stack[n] = Top /\ n \in DOMAIN stack
      /\ DOMAIN stack' = 1 .. n /\ stack'[n] = f
      /\ \A i \in 1 .. n - 1 : stack'[i] = stack[i]
  <2>1. n \in Nat \ {0} /\ DOMAIN stack = 1 .. n /\ Top = stack[n] /\ n \in DOMAIN stack
        /\ \A i \in 1 .. n - 1 : i \in 1 .. n /\ i < n
    BY <1>a, <1>n, StackBase, Upto
  <2>2. /\ DOMAIN stack' = 1 .. n /\ stack'[n] = f
        /\ \A i \in 1 .. n : i < n => stack'[i] = stack[i]
    BY <1>1, <1>a, <1>n, StackIs
  <2> QED
    BY <2>1, <2>2
<1>8. \A i \in DOMAIN stack' : i >= n => i = n
  BY <1>7
<1>9. StaleOf(stack') = StaleOf(stack)
  BY <1>3, <1>7, <1>8, <1>a, <1>n, StaleBy
<1>10. PICK lo, hi : Ordered(lo, hi)
  BY DEF OrderInv
<1>11. PICK lo2, hi2 : /\ lo2 = [m \in DOMAIN heap \union {New1} |-> IF m \in DOMAIN heap THEN lo[m] ELSE lo[t]]
                       /\ hi2 = [m \in DOMAIN heap \union {New1} |->
                                   IF m \in DOMAIN heap
                                   THEN IF m > t /\ hi[m] = Open THEN pos ELSE hi[m]
                                   ELSE lo[o]]
  OBVIOUS
<1>12. Closes(lo, hi, lo2, hi2, FALSE)
  BY <1>11, <1>n DEF Closes
<1>13. e \in Nat /\ pos \in Nat /\ pos < e
  BY <1>n, Tokens_ DEF Open, ParserInv
<1>14. /\ t <= o /\ hi[t] = e /\ hi[o] = e /\ lo[t] <= lo[o] /\ t # o /\ y.held <= lo[o]
       /\ \A k \in 1 .. 4 : Points(y, k) => hi[y.kids[k]] <= lo[o]
  <2>1. Last(Top) = o
    BY <1>2, <1>a, <1>n DEF Last
  <2>2. FrameOrder(Top, y, lo, hi, e)
    BY <1>7, <1>10, <1>n DEF Ordered
  <2> QED
    BY <1>a, <1>n, <2>1, <2>2 DEF FrameOrder, Locals
<1>15. /\ \A m \in DOMAIN heap : /\ lo[m] \in Nat /\ lo[m] <= pos /\ hi[m] \in Nat
                                 /\ (hi[m] <= pos \/ hi[m] = e) /\ lo2[m] = lo[m]
                                 /\ hi2[m] \in Nat /\ hi2[m] <= hi[m]
       /\ hi2[t] = e /\ hi2[o] = pos /\ lo2[New1] = lo[t] /\ hi2[New1] = lo[o]
  <2>1. \A m \in DOMAIN heap : lo[m] \in Nat /\ lo[m] <= pos /\ hi[m] \in Nat /\ (hi[m] <= pos \/ hi[m] = e)
    BY <1>10, <1>13, <1>n DEF Ordered
  <2>2. \A m \in DOMAIN heap : lo2[m] = lo[m] /\ hi2[m] = IF m > t /\ hi[m] = e THEN pos ELSE hi[m]
    BY <1>12, <1>n DEF Closes
  <2>3. \A m \in DOMAIN heap : hi2[m] \in Nat /\ hi2[m] <= hi[m]
    BY <1>13, <2>1, <2>2
  <2>4. o > t /\ ~(t > t)
    BY <1>5, <1>14
  <2> QED
    BY <1>5, <1>11, <1>14, <2>1, <2>2, <2>3, <2>4
<1>16. /\ InOrder(y, t, lo2, hi2, e) /\ y.held \in Nat /\ y.held <= pos
       /\ \A k \in 1 .. 4 : Points(y, k) => y.kids[k] \in DOMAIN heap
  BY <1>10, <1>12, <1>a, <1>n, TopClosed
<1>17. InOrder(y, New1, lo2, hi2, e)
  <2>1. \A k \in 1 .. 4 : Points(y, k) =>
          /\ lo2[New1] <= lo2[y.kids[k]] /\ hi2[y.kids[k]] <= hi2[New1]
          /\ hi2[y.kids[k]] # e
    <3> SUFFICES ASSUME NEW k \in 1 .. 4, Points(y, k)
                 PROVE  /\ lo2[New1] <= lo2[y.kids[k]] /\ hi2[y.kids[k]] <= hi2[New1]
                        /\ hi2[y.kids[k]] # e
      OBVIOUS
    <3>1. PICK c \in DOMAIN heap : c = y.kids[k]
      BY <1>16
    <3>2. lo2[t] <= lo2[c] /\ hi[c] <= lo[o]
      BY <1>14, <1>16, <3>1 DEF InOrder
    <3>3. hi2[c] \in Nat /\ hi2[c] <= hi[c] /\ hi[c] \in Nat /\ lo[o] \in Nat /\ lo[o] <= pos
      BY <1>5, <1>15
    <3> QED
      BY <1>5, <1>13, <1>15, <3>1, <3>2, <3>3
  <2>2. y.held > 0 => lo2[New1] < y.held /\ y.held <= hi2[New1]
    BY <1>5, <1>14, <1>15, <1>16 DEF InOrder
  <2> QED
    BY <1>16, <2>1, <2>2 DEF InOrder
<1>18. InOrder(x, t, lo2, hi2, e)
  <2>1. \A k : Points(x, k) => k = 1 \/ k = 2
    BY <1>1 DEF Points
  <2>2. /\ lo2[t] <= lo2[New1] /\ hi2[New1] <= hi2[t] /\ hi2[New1] # e
        /\ lo2[t] <= lo2[o] /\ hi2[o] <= hi2[t] /\ hi2[o] # e
        /\ hi2[New1] <= lo2[o]
    <3>1. lo[t] \in Nat /\ lo[o] \in Nat /\ lo[o] <= pos /\ lo2[t] = lo[t] /\ lo2[o] = lo[o]
      BY <1>5, <1>15
    <3> QED
      BY <1>13, <1>14, <1>15, <3>1
  <2>3. ASSUME NEW k \in 1 .. 4, Points(x, k)
        PROVE  /\ lo2[t] <= lo2[x.kids[k]] /\ hi2[x.kids[k]] <= hi2[t]
               /\ hi2[x.kids[k]] # e
    <3>1. x.kids[k] = New1 \/ x.kids[k] = o
      BY <1>1, <2>1, <2>3
    <3> QED
      BY <2>2, <3>1
  <2>4. ASSUME NEW j \in 1 .. 4, NEW k \in 1 .. 4, Points(x, j), Points(x, k), j < k
        PROVE  hi2[x.kids[j]] <= lo2[x.kids[k]]
    <3>1. j = 1 /\ k = 2
      BY <2>1, <2>4
    <3> QED
      BY <1>1, <2>2, <3>1
  <2>5. ~(x.held > 0)
    BY <1>1
  <2> QED
    BY <2>3, <2>4, <2>5 DEF InOrder
<1>19. NewOrder(lo2, hi2)
  <2>1. ASSUME NEW m \in DOMAIN heap', m \notin DOMAIN heap
        PROVE  /\ lo2[m] \in 0 .. pos' /\ (hi2[m] \in 0 .. pos' \/ hi2[m] = e)
               /\ heap'[m].held <= pos' /\ InOrder(heap'[m], m, lo2, hi2, e)
    <3>1. m = New1 /\ heap'[m] = y
      BY <1>4, <1>5, <2>1
    <3>2. lo[t] \in 0 .. pos' /\ lo[o] \in 0 .. pos' /\ y.held <= pos'
      BY <1>1, <1>5, <1>13, <1>15, <1>16
    <3> QED
      BY <1>15, <1>17, <3>1, <3>2
  <2>2. x.held <= pos'
    BY <1>1, <1>13
  <2> QED
    BY <1>4, <1>18, <1>n, <2>1, <2>2 DEF NewOrder
<1>20. Last(f) = t /\ FrameOrder(f, x, lo2, hi2, e)
  <2>1. Last(f) = t
    BY <1>3 DEF Last
  <2> QED
    BY <1>3, <1>5, <1>15, <2>1 DEF FrameOrder, Locals
<1>21. Ordered(lo2, hi2)'
  <2>1. \A i \in DOMAIN stack' : i >= n =>
           /\ FrameOrder(stack'[i], heap'[stack'[i].tree], lo2, hi2, e)
           /\ t <= stack'[i].tree /\ stack'[i].tree \in Nat
    BY <1>3, <1>4, <1>5, <1>7, <1>8, <1>20
  <2>2. \A i, j \in DOMAIN stack' : ~(i >= n /\ i < j)
    BY <1>7
  <2>3. n \in {Len(stack) - 1, Len(stack), Len(stack) + 1}
    BY <1>n
  <2>4. pos' \in Nat /\ pos <= pos' /\ tokens' = tokens
    BY <1>1, <1>13
  <2> QED
    BY <1>6, <1>7, <1>9, <1>10, <1>12, <1>19, <1>a, <1>n, <2>1, <2>2, <2>3, <2>4, OrderStep
<1> QED
  BY <1>21 DEF OrderInv

LEMMA OrderInit == Init => OrderInv
<1> SUFFICES ASSUME Init PROVE OrderInv
  OBVIOUS
<1>1. /\ stack = <<Frame("block", 1)>> /\ DOMAIN stack = {1} /\ stack[1] = Frame("block", 1)
      /\ heap = <<Fresh>> /\ DOMAIN heap = {1} /\ heap[1] = Fresh /\ pos = 0
  BY DEF Init
<1>2. stack[1].at = "block" /\ stack[1].tree = 1
  BY <1>1, FrameIs
<1>3. PICK lo, hi : lo = [n \in {1} |-> 0] /\ hi = [n \in {1} |-> Open]
  OBVIOUS
<1>4. Fresh.held = 0 /\ \A k : ~Points(Fresh, k)
  BY FreshIs DEF Points
<1>5. Last(stack[1]) = 1
  BY <1>2 DEF Last
<1>6. FrameOrder(stack[1], heap[1], lo, hi, Open)
  BY <1>2, <1>3, <1>5 DEF FrameOrder, Locals
<1>7. InOrder(Fresh, 1, lo, hi, Open)
  BY <1>4 DEF InOrder
<1>8. Ordered(lo, hi)
  BY <1>1, <1>2, <1>3, <1>4, <1>6, <1>7 DEF Ordered
<1> QED
  BY <1>8 DEF OrderInv

LEMMA OrderNext == ParserInv /\ NodesInv /\ OrderInv /\ Next => OrderInv'
  BY StepCases, FillOrder, OperatorOrder, OperandDeeperOrder, AtomTrailOrder, TrailEndOrder,
     CombineOrder

LEMMA OrderSame == OrderInv /\ UNCHANGED vars => OrderInv'
<1> SUFFICES ASSUME OrderInv, UNCHANGED vars PROVE OrderInv'
  OBVIOUS
<1>1. heap' = heap /\ stack' = stack /\ pos' = pos /\ tokens' = tokens
  BY DEF vars
<1>2. PICK lo, hi : Ordered(lo, hi)
  BY DEF OrderInv
<1>3. Open' = Open
  BY <1>1 DEF Open
<1>4. Ordered(lo, hi)'
  BY <1>1, <1>2, <1>3 DEF Ordered
<1> QED
  BY <1>4 DEF OrderInv

LEMMA OrderKept == ParserInv /\ NodesInv /\ OrderInv /\ [Next]_vars => OrderInv'
  BY OrderNext, OrderSame

(* Every tree under construction holds its texts in order. *)
THEOREM OrderInvariant == Spec => []OrderInv
<1> QED
  BY OrderKept, OrderInit, NodesInvariant, ParserInvariant, PTL DEF Spec

-----------------------------------------------------------------------------
(* No node is above itself: a pointer, of a node or of a local variable,   *)
(* leads away from the root.  A node that is built gets an odd rank, below *)
(* the node its function fills and above all that this one had.            *)

Ranks(rk, top) ==
  /\ top \in Nat
  /\ \A n \in DOMAIN heap : rk[n] \in 0 .. top
  /\ \A n \in DOMAIN heap : \A k \in 1 .. 4 :
       Points(heap[n], k) => rk[n] < rk[heap[n].kids[k]]
  /\ \A i \in DOMAIN stack : \A k \in DOMAIN stack[i].own :
       rk[stack[i].tree] < rk[stack[i].own[k]]

RanksInv == \E rk, top : Ranks(rk, top)

(* How a pointer of the next state comes about. *)
Descends(rk, n, c) ==
  \/ n \in DOMAIN heap /\ c \in DOMAIN heap /\ rk[n] < rk[c]
  \/ n = Top.tree /\ c \in DOMAIN heap' /\ c \notin DOMAIN heap
  \/ n \in DOMAIN heap' /\ n \notin DOMAIN heap /\ c \in DOMAIN heap /\ rk[Top.tree] < rk[c]

LEMMA LocalExists ==
  ASSUME ParserInv, NEW i \in DOMAIN stack
  PROVE  /\ stack[i].tree \in DOMAIN heap
         /\ \A k \in DOMAIN stack[i].own : stack[i].own[k] \in DOMAIN heap
<1>1. stack[i] \in GoodFrames(Len(heap)) /\ DOMAIN heap = 1 .. Len(heap)
  BY ElementOfSeq DEF ParserInv
<1>2. stack[i].tree \in 1 .. Len(heap) /\ stack[i].own \in Seq(1 .. Len(heap))
  BY <1>1 DEF GoodFrames, Frames
<1>3. PICK s : s = stack[i].own
  OBVIOUS
<1>4. \A k \in DOMAIN s : s[k] \in 1 .. Len(heap)
  BY <1>2, <1>3
<1> QED
  BY <1>1, <1>2, <1>3, <1>4

LEMMA RanksStep ==
  ASSUME ParserInv, stack # <<>>, NEW rk, NEW top, Ranks(rk, top), Local,
         \A n \in DOMAIN heap' : n = Top.tree \/ n \notin DOMAIN heap =>
           \A k \in 1 .. 4 : Points(heap'[n], k) => Descends(rk, n, heap'[n].kids[k]),
         NEW m \in {Len(stack) - 1, Len(stack), Len(stack) + 1}, DOMAIN stack' = 1 .. m,
         \A i \in 1 .. Len(stack) - 1 : stack'[i] = stack[i],
         \A i \in DOMAIN stack' : i >= Len(stack) =>
           \A k \in DOMAIN stack'[i].own : Descends(rk, stack'[i].tree, stack'[i].own[k])
  PROVE  RanksInv'
<1>n. PICK t, n : t = Top.tree /\ n = Len(stack)
  OBVIOUS
<1>1. PICK rk2 : rk2 = [a \in DOMAIN heap' |-> IF a \in DOMAIN heap THEN 2 * rk[a] ELSE 2 * rk[t] + 1]
  OBVIOUS
<1>2. /\ t \in DOMAIN heap /\ DOMAIN heap \subseteq DOMAIN heap' /\ top \in Nat
      /\ \A a \in DOMAIN heap : rk[a] \in Nat /\ rk[a] <= top
      /\ \A a \in DOMAIN heap : a # t => heap'[a] = heap[a]
  <2>1. t \in 1 .. Len(heap) /\ DOMAIN heap = 1 .. Len(heap) /\ Len(heap) \in Nat
    BY <1>n, TopTyped DEF ParserInv
  <2>2. top \in Nat /\ \A a \in DOMAIN heap : rk[a] \in 0 .. top
    BY DEF Ranks
  <2> QED
    BY <1>n, <2>1, <2>2 DEF Local
<1>3. /\ \A a \in DOMAIN heap : rk2[a] = 2 * rk[a]
      /\ \A a \in DOMAIN heap' : a \notin DOMAIN heap => rk2[a] = 2 * rk[t] + 1
      /\ \A a \in DOMAIN heap' : rk2[a] \in 0 .. 2 * top + 1
  BY <1>1, <1>2
<1>4. ASSUME NEW a, NEW c, Descends(rk, a, c) PROVE rk2[a] < rk2[c]
  BY <1>2, <1>3, <1>4, <1>n DEF Descends
<1>5. ASSUME NEW a \in DOMAIN heap, a # t, NEW k \in 1 .. 4, Points(heap[a], k)
      PROVE  Descends(rk, a, heap[a].kids[k])
  BY <1>5, KidExists DEF Descends, Ranks
<1>6. \A a \in DOMAIN heap' : \A k \in 1 .. 4 : Points(heap'[a], k) => rk2[a] < rk2[heap'[a].kids[k]]
  <2> SUFFICES ASSUME NEW a \in DOMAIN heap', NEW k \in 1 .. 4, Points(heap'[a], k)
               PROVE  Descends(rk, a, heap'[a].kids[k])
    BY <1>4
  <2>1. CASE a = t \/ a \notin DOMAIN heap
    BY <1>n, <2>1
  <2>2. CASE a # t /\ a \in DOMAIN heap
    BY <1>2, <1>5, <2>2
  <2> QED
    BY <2>1, <2>2
<1>7. \A i \in DOMAIN stack' : \A k \in DOMAIN stack'[i].own : rk2[stack'[i].tree] < rk2[stack'[i].own[k]]
  <2> SUFFICES ASSUME NEW i \in DOMAIN stack', NEW k \in DOMAIN stack'[i].own
               PROVE  Descends(rk, stack'[i].tree, stack'[i].own[k])
    BY <1>4
  <2>1. n \in Nat /\ DOMAIN stack = 1 .. n
    BY <1>n, StackBase
  <2>2. CASE i >= n
    BY <1>n, <2>2
  <2>3. CASE ~(i >= n)
    <3>1. i \in 1 .. n - 1 /\ i \in DOMAIN stack
      BY <1>n, <2>1, <2>3
    <3>2. stack'[i] = stack[i]
      BY <1>n, <3>1
    <3> QED
      BY <3>1, <3>2, LocalExists DEF Descends, Ranks
  <2> QED
    BY <2>2, <2>3
<1>8. Ranks(rk2, 2 * top + 1)'
  <2>1. 2 * top + 1 \in Nat
    BY <1>2
  <2> QED
    BY <1>3, <1>6, <1>7, <2>1 DEF Ranks
<1> QED
  BY <1>8 DEF RanksInv

(* The pointers the node of the innermost function had. *)
LEMMA TopDescends ==
  ASSUME ParserInv, stack # <<>>, NEW rk, NEW top, Ranks(rk, top),
         NEW n, n = Top.tree \/ (n \in DOMAIN heap' /\ n \notin DOMAIN heap)
  PROVE  /\ \A k \in 1 .. 4 : Points(heap[Top.tree], k) =>
              Descends(rk, n, heap[Top.tree].kids[k])
         /\ \A k \in DOMAIN Top.own : Descends(rk, n, Top.own[k])
<1>1. Top.tree \in DOMAIN heap /\ Len(stack) \in DOMAIN stack /\ stack[Len(stack)] = Top
  BY TopTyped, StackBase DEF ParserInv
<1>2. ASSUME NEW k \in 1 .. 4, Points(heap[Top.tree], k)
      PROVE  Descends(rk, n, heap[Top.tree].kids[k])
  BY <1>1, <1>2, KidExists DEF Descends, Ranks
<1>3. ASSUME NEW k \in DOMAIN Top.own
      PROVE  Descends(rk, n, Top.own[k])
  BY <1>1, LocalExists DEF Descends, Ranks
<1> QED
  BY <1>2, <1>3

LEMMA FillRanks ==
  ASSUME ParserInv, NodesInv, RanksInv, FillStep
  PROVE  RanksInv'
<1>1. PICK x, k0, m : Filled(x, k0, m)
  BY DEF FillStep
<1>2. PICK rk, top : Ranks(rk, top)
  BY DEF RanksInv
<1>3. stack # <<>> /\ Writes(x, k0) /\ Grows(x, k0) /\ Continued(x, k0, m)
  BY <1>1 DEF Filled
<1>4. Written(x, k0)
  BY <1>3, WritesIs
<1>5. /\ Local /\ heap'[Top.tree] = x
      /\ \A a \in DOMAIN heap' : a \notin DOMAIN heap => heap'[a] = Fresh
      /\ k0 # 0 => New1 \in DOMAIN heap' /\ New1 \notin DOMAIN heap
  BY <1>4 DEF Written
<1>6. \A a \in DOMAIN heap' : a = Top.tree \/ a \notin DOMAIN heap =>
           \A k \in 1 .. 4 : Points(heap'[a], k) => Descends(rk, a, heap'[a].kids[k])
  <2> SUFFICES ASSUME NEW a \in DOMAIN heap', a = Top.tree \/ a \notin DOMAIN heap,
                      NEW k \in 1 .. 4, Points(heap'[a], k)
               PROVE  Descends(rk, a, heap'[a].kids[k])
    OBVIOUS
  <2>1. CASE a = Top.tree
    <3>1. \/ k = k0 /\ x.kids[k] = New1
          \/ Points(heap[Top.tree], k) /\ x.kids[k] = heap[Top.tree].kids[k]
      BY <1>3, <1>5, <2>1 DEF Grows
    <3>2. CASE k = k0 /\ x.kids[k] = New1
      BY <1>5, <2>1, <3>2 DEF Descends
    <3>3. CASE Points(heap[Top.tree], k) /\ x.kids[k] = heap[Top.tree].kids[k]
      BY <1>2, <1>3, <1>5, <2>1, <3>3, TopDescends
    <3> QED
      BY <3>1, <3>2, <3>3
  <2>2. CASE a # Top.tree
    BY <1>5, <2>2, FreshIs DEF Points
  <2> QED
    BY <2>1, <2>2
<1>7. /\ m \in {Len(stack) - 1, Len(stack), Len(stack) + 1} /\ DOMAIN stack' = 1 .. m
      /\ \A i \in 1 .. Len(stack) - 1 : stack'[i] = stack[i]
      /\ \A i \in DOMAIN stack' : i >= Len(stack) => stack'[i].own = <<>>
  BY <1>3 DEF Continued
<1> QED
  BY <1>2, <1>3, <1>5, <1>6, <1>7, RanksStep

LEMMA OperatorRanks ==
  ASSUME ParserInv, NodesInv, RanksInv, Operator
  PROVE  RanksInv'
<1> DEFINE f == [Resume("nth_right") EXCEPT !.own = <<New1>>, !.op = Cur]
           g == Frame("atom", New1)
<1>n. PICK n, t : n = Len(stack) /\ t = Top.tree
  OBVIOUS
<1>a. stack # <<>>
  BY DEF Operator, At
<1>1. heap' = Append(heap, Fresh) /\ Call(f, g)
  BY DEF Operator, Call
<1>2. f.tree = t /\ DOMAIN f.own = {1} /\ f.own[1] = New1
  <2>1. Top \in Frames(Len(heap))
    BY <1>a, TopTyped DEF GoodFrames
  <2> QED
    BY <1>n, <2>1 DEF Resume, Frames
<1>3. g.own = <<>>
  BY FrameIs
<1> HIDE DEF f, g
<1>4. Writes(heap[Top.tree], 1)
  <2>1. heap = [m \in DOMAIN heap |-> heap[m]]
    BY DEF ParserInv
  <2>2. heap = Write(Top.tree, heap[Top.tree])
    BY <2>1 DEF Write
  <2> QED
    BY <1>1, <2>2 DEF Writes
<1>5. Written(heap[Top.tree], 1)
  BY <1>a, <1>4, WritesIs
<1>6. /\ Local /\ heap'[t] = heap[t] /\ New1 \in DOMAIN heap' /\ New1 \notin DOMAIN heap
      /\ \A a \in DOMAIN heap' : a \notin DOMAIN heap => heap'[a] = Fresh
  BY <1>5, <1>n DEF Written
<1>7. PICK rk, top : Ranks(rk, top)
  BY DEF RanksInv
<1>8. \A a \in DOMAIN heap' : a = t \/ a \notin DOMAIN heap =>
           \A k \in 1 .. 4 : Points(heap'[a], k) => Descends(rk, a, heap'[a].kids[k])
  <2> SUFFICES ASSUME NEW a \in DOMAIN heap', a = t \/ a \notin DOMAIN heap,
                      NEW k \in 1 .. 4, Points(heap'[a], k)
               PROVE  Descends(rk, a, heap'[a].kids[k])
    OBVIOUS
  <2>1. CASE a = t
    BY <1>6, <1>7, <1>a, <1>n, <2>1, TopDescends
  <2>2. CASE a # t
    BY <1>6, <2>2, FreshIs DEF Points
  <2> QED
    BY <2>1, <2>2
<1>9. /\ n \in Nat \ {0} /\ DOMAIN stack' = 1 .. n + 1 /\ stack'[n] = f /\ stack'[n + 1] = g
      /\ \A i \in 1 .. n - 1 : stack'[i] = stack[i]
  <2>1. n \in Nat \ {0} /\ \A i \in 1 .. n - 1 : i \in 1 .. n /\ i < n
    BY <1>a, <1>n, StackBase, Upto
  <2>2. /\ DOMAIN stack' = 1 .. n + 1 /\ stack'[n] = f /\ stack'[n + 1] = g
        /\ \A i \in 1 .. n : i < n => stack'[i] = stack[i]
    BY <1>1, <1>a, <1>n, StackIs
  <2> QED
    BY <2>1, <2>2
<1>10. \A i \in DOMAIN stack' : i >= n =>
         \A k \in DOMAIN stack'[i].own : Descends(rk, stack'[i].tree, stack'[i].own[k])
  <2> SUFFICES ASSUME NEW i \in DOMAIN stack', i >= n, NEW k \in DOMAIN stack'[i].own
               PROVE  Descends(rk, stack'[i].tree, stack'[i].own[k])
    OBVIOUS
  <2>1. i = n \/ i = n + 1
    BY <1>9
  <2>2. i = n /\ k = 1
    BY <1>2, <1>3, <1>9, <2>1
  <2>3. stack'[i].tree = t /\ stack'[i].own[k] = New1
    BY <1>2, <1>9, <2>2
  <2> QED
    BY <1>6, <1>n, <2>3 DEF Descends
<1>11. PICK m : m = n + 1
  OBVIOUS
<1>12. m \in {Len(stack) - 1, Len(stack), Len(stack) + 1} /\ DOMAIN stack' = 1 .. m
  BY <1>9, <1>11, <1>n
<1> QED
  BY <1>6, <1>7, <1>8, <1>9, <1>10, <1>12, <1>a, <1>n, RanksStep

LEMMA OperandDeeperRanks ==
  ASSUME ParserInv, NodesInv, RanksInv, OperandDeeper
  PROVE  RanksInv'
<1> DEFINE f == Resume("nth_deep")
           g == NthFrame(Top.own[1], Prec(Top.op) + 1)
<1>n. PICK n, t : n = Len(stack) /\ t = Top.tree
  OBVIOUS
<1>a. stack # <<>>
  BY DEF OperandDeeper, At
<1>1. Call(f, g) /\ heap' = heap
  BY DEF OperandDeeper, Call
<1>2. f.tree = t /\ f.own = Top.own
  BY <1>a, <1>n, ResumeIs
<1>3. g.own = <<>>
  BY DEF NthFrame, Frame
<1> HIDE DEF f, g
<1>4. Local /\ t \in DOMAIN heap
  BY <1>1, <1>a, <1>n, TopTyped, Tokens_ DEF Local, ParserInv
<1>7. PICK rk, top : Ranks(rk, top)
  BY DEF RanksInv
<1>8. \A a \in DOMAIN heap' : a = t \/ a \notin DOMAIN heap =>
           \A k \in 1 .. 4 : Points(heap'[a], k) => Descends(rk, a, heap'[a].kids[k])
  BY <1>1, <1>7, <1>a, <1>n, TopDescends
<1>9. /\ n \in Nat \ {0} /\ DOMAIN stack' = 1 .. n + 1 /\ stack'[n] = f /\ stack'[n + 1] = g
      /\ \A i \in 1 .. n - 1 : stack'[i] = stack[i]
  <2>1. n \in Nat \ {0} /\ \A i \in 1 .. n - 1 : i \in 1 .. n /\ i < n
    BY <1>a, <1>n, StackBase, Upto
  <2>2. /\ DOMAIN stack' = 1 .. n + 1 /\ stack'[n] = f /\ stack'[n + 1] = g
        /\ \A i \in 1 .. n : i < n => stack'[i] = stack[i]
    BY <1>1, <1>a, <1>n, StackIs
  <2> QED
    BY <2>1, <2>2
<1>10. \A i \in DOMAIN stack' : i >= n =>
         \A k \in DOMAIN stack'[i].own : Descends(rk, stack'[i].tree, stack'[i].own[k])
  <2> SUFFICES ASSUME NEW i \in DOMAIN stack', i >= n, NEW k \in DOMAIN stack'[i].own
               PROVE  Descends(rk, stack'[i].tree, stack'[i].own[k])
    OBVIOUS
  <2>1. i = n \/ i = n + 1
    BY <1>9
  <2>2. i = n /\ k \in DOMAIN Top.own
    BY <1>2, <1>3, <1>9, <2>1
  <2>3. stack'[i].tree = t /\ stack'[i].own[k] = Top.own[k]
    BY <1>2, <1>9, <2>2
  <2> QED
    BY <1>7, <1>a, <1>n, <2>2, <2>3, TopDescends
<1>11. PICK m : m = n + 1
  OBVIOUS
<1>12. m \in {Len(stack) - 1, Len(stack), Len(stack) + 1} /\ DOMAIN stack' = 1 .. m
  BY <1>9, <1>11, <1>n
<1> QED
  BY <1>4, <1>7, <1>8, <1>9, <1>10, <1>12, <1>a, <1>n, RanksStep

LEMMA AtomTrailRanks ==
  ASSUME ParserInv, NodesInv, RanksInv, AtomTrail
  PROVE  RanksInv'
<1> DEFINE f == [Resume("trail") EXCEPT !.own = <<New1, New2>>, !.op = Cur]
           g == Frame("atom", New2)
<1>n. PICK n, t : n = Len(stack) /\ t = Top.tree
  OBVIOUS
<1>a. stack # <<>>
  BY DEF AtomTrail, At
<1>1. heap' = heap \o <<heap[t], Fresh>> /\ Call(f, g)
  BY <1>n DEF AtomTrail, Call
<1>2. f.tree = t /\ DOMAIN f.own = {1, 2} /\ f.own[1] = New1 /\ f.own[2] = New2
  <2>1. Top \in Frames(Len(heap))
    BY <1>a, TopTyped DEF GoodFrames
  <2> QED
    BY <1>n, <2>1 DEF Resume, Frames
<1>3. g.own = <<>>
  BY FrameIs
<1> HIDE DEF f, g
<1>4. /\ Len(heap) \in Nat \ {0} /\ t \in 1 .. Len(heap) /\ DOMAIN heap = 1 .. Len(heap)
      /\ heap \in Seq(Nodes(Len(heap)))
  BY <1>a, <1>n, TopTyped DEF ParserInv
<1>5. /\ New1 = Len(heap) + 1 /\ New1 \notin 1 .. Len(heap)
      /\ New2 = Len(heap) + 2 /\ New2 \notin 1 .. Len(heap) /\ New1 # New2
  BY <1>4 DEF New1, New2
<1>6. /\ Len(heap') = Len(heap) + 2 /\ DOMAIN heap' = 1 .. Len(heap) + 2
      /\ \A m \in 1 .. Len(heap) : heap'[m] = heap[m]
      /\ heap'[New1] = heap[t] /\ heap'[New2] = Fresh
  <2>1. PICK N, y : N = Nodes(Len(heap)) \union {Fresh} /\ y = heap[t]
    OBVIOUS
  <2>2. heap \in Seq(N) /\ y \in N /\ Fresh \in N
    BY <1>4, <2>1
  <2>3. heap' = heap \o <<y, Fresh>>
    BY <1>1, <2>1
  <2> QED
    BY <1>4, <1>5, <2>1, <2>2, <2>3
<1>7. Local /\ New1 \in DOMAIN heap' /\ New2 \in DOMAIN heap'
  BY <1>4, <1>5, <1>6 DEF Local
<1>8. PICK rk, top : Ranks(rk, top)
  BY DEF RanksInv
<1>9. \A a \in DOMAIN heap' : a = t \/ a \notin DOMAIN heap =>
           \A k \in 1 .. 4 : Points(heap'[a], k) => Descends(rk, a, heap'[a].kids[k])
  <2> SUFFICES ASSUME NEW a \in DOMAIN heap', a = t \/ a \notin DOMAIN heap,
                      NEW k \in 1 .. 4, Points(heap'[a], k)
               PROVE  Descends(rk, a, heap'[a].kids[k])
    OBVIOUS
  <2>1. a \in 1 .. Len(heap) \/ a = New1 \/ a = New2
    BY <1>4, <1>5, <1>6
  <2>2. CASE a = New2
    BY <1>6, <2>2, FreshIs DEF Points
  <2>3. CASE a # New2
    <3>1. heap'[a] = heap[Top.tree]
      BY <1>4, <1>6, <1>n, <2>1, <2>3
    <3>2. Points(heap[Top.tree], k) /\ heap'[a].kids[k] = heap[Top.tree].kids[k]
      BY <3>1
    <3> QED
      BY <1>8, <1>a, <1>n, <3>2, TopDescends
  <2> QED
    BY <2>2, <2>3
<1>10. /\ n \in Nat \ {0} /\ DOMAIN stack' = 1 .. n + 1 /\ stack'[n] = f /\ stack'[n + 1] = g
       /\ \A i \in 1 .. n - 1 : stack'[i] = stack[i]
  <2>1. n \in Nat \ {0} /\ \A i \in 1 .. n - 1 : i \in 1 .. n /\ i < n
    BY <1>a, <1>n, StackBase, Upto
  <2>2. /\ DOMAIN stack' = 1 .. n + 1 /\ stack'[n] = f /\ stack'[n + 1] = g
        /\ \A i \in 1 .. n : i < n => stack'[i] = stack[i]
    BY <1>1, <1>a, <1>n, StackIs
  <2> QED
    BY <2>1, <2>2
<1>11. \A i \in DOMAIN stack' : i >= n =>
         \A k \in DOMAIN stack'[i].own : Descends(rk, stack'[i].tree, stack'[i].own[k])
  <2> SUFFICES ASSUME NEW i \in DOMAIN stack', i >= n, NEW k \in DOMAIN stack'[i].own
               PROVE  Descends(rk, stack'[i].tree, stack'[i].own[k])
    OBVIOUS
  <2>1. i = n \/ i = n + 1
    BY <1>10
  <2>2. i = n /\ (k = 1 \/ k = 2)
    BY <1>2, <1>3, <1>10, <2>1
  <2>3. stack'[i].tree = t /\ (stack'[i].own[k] = New1 \/ stack'[i].own[k] = New2)
    BY <1>2, <1>10, <2>2
  <2> QED
    BY <1>4, <1>5, <1>7, <1>n, <2>3 DEF Descends
<1>12. PICK m : m = n + 1
  OBVIOUS
<1>13. m \in {Len(stack) - 1, Len(stack), Len(stack) + 1} /\ DOMAIN stack' = 1 .. m
  BY <1>10, <1>12, <1>n
<1> QED
  BY <1>7, <1>8, <1>9, <1>10, <1>11, <1>13, <1>a, <1>n, RanksStep

LEMMA TrailEndRanks ==
  ASSUME ParserInv, NodesInv, RanksInv, TrailEnd
  PROVE  RanksInv'
<1>n. PICK n, t : n = Len(stack) /\ t = Top.tree
  OBVIOUS
<1>a. stack # <<>>
  BY DEF TrailEnd, At
<1>1. PICK x : x.kids = Top.own /\ heap' = Write(t, x) /\ stack' = Below
  <2>1. PICK kind : heap' = Write(Top.tree, Node("TYPE_TRAIL", 0, kind, Top.own))
    BY DEF TrailEnd
  <2>2. stack' = Below
    BY DEF TrailEnd, Return
  <2> QED
    BY <1>n, <2>1, <2>2, NodeIs
<1>2. Writes(x, 0)
  BY <1>1, <1>n DEF Writes
<1>3. Local /\ heap'[t] = x /\ DOMAIN heap' = DOMAIN heap
  <2>1. Written(x, 0)
    BY <1>a, <1>2, WritesIs
  <2> QED
    BY <2>1, <1>n DEF Written, Local
<1>4. PICK rk, top : Ranks(rk, top)
  BY DEF RanksInv
<1>5. \A a \in DOMAIN heap' : a = t \/ a \notin DOMAIN heap =>
           \A k \in 1 .. 4 : Points(heap'[a], k) => Descends(rk, a, heap'[a].kids[k])
  BY <1>1, <1>3, <1>4, <1>a, <1>n, TopDescends DEF Points
<1>6. n \in Nat \ {0} /\ DOMAIN stack' = 1 .. n - 1 /\ \A i \in 1 .. n - 1 : stack'[i] = stack[i]
  BY <1>1, <1>a, <1>n, StackIs
<1>7. \A i \in DOMAIN stack' : ~(i >= n)
  BY <1>6
<1>8. PICK m : m = n - 1
  OBVIOUS
<1>9. m \in {Len(stack) - 1, Len(stack), Len(stack) + 1} /\ DOMAIN stack' = 1 .. m
  BY <1>6, <1>8, <1>n
<1> QED
  BY <1>3, <1>4, <1>5, <1>6, <1>7, <1>9, <1>a, <1>n, RanksStep

LEMMA CombineRanks ==
  ASSUME ParserInv, NodesInv, RanksInv, Combine
  PROVE  RanksInv'
<1> DEFINE f == [Resume("nth") EXCEPT !.own = <<>>]
<1>n. PICK n, t, y, o : n = Len(stack) /\ t = Top.tree /\ y = heap[t] /\ o = Top.own[1]
  OBVIOUS
<1>a. stack # <<>> /\ Top.at \in {"nth_right", "nth_deep"}
  BY DEF Combine, At
<1>1. PICK x : x.kids = <<New1, o>> /\ heap' = Append(Write(t, x), y) /\ GoOn(f)
  <2>1. PICK z : /\ z = Node("BINARY_OP", 0, OpCode(Top.op), <<New1, Top.own[1]>>)
                 /\ heap' = Append(Write(Top.tree, z), heap[Top.tree])
    BY DEF Combine
  <2>2. GoOn(f)
    BY DEF Combine, GoOn
  <2>3. z.kids = <<New1, Top.own[1]>>
    BY <2>1, NodeIs
  <2> QED
    BY <1>n, <2>1, <2>2, <2>3
<1>2. 1 \in DOMAIN Top.own
  <2>1. Top.own \in Seq(1 .. Len(heap)) /\ Len(Top.own) = 1
    BY <1>a, TopTyped DEF GoodFrames, Frames, WellFormed
  <2> QED
    BY <2>1
<1>3. f.own = <<>>
  <2>1. Top \in Frames(Len(heap))
    BY <1>a, TopTyped DEF GoodFrames
  <2> QED
    BY <2>1 DEF Resume, Frames
<1> HIDE DEF f
<1>4. /\ Len(heap) \in Nat /\ t \in 1 .. Len(heap) /\ DOMAIN heap = 1 .. Len(heap)
      /\ Len(heap') = Len(heap) + 1 /\ DOMAIN heap' = 1 .. Len(heap) + 1
      /\ heap'[t] = x /\ heap'[Len(heap) + 1] = y
      /\ \A m \in 1 .. Len(heap) : m # t => heap'[m] = heap[m]
  BY <1>1, <1>a, <1>n, HeapIs
<1>5. New1 = Len(heap) + 1 /\ New1 \notin DOMAIN heap /\ New1 \in DOMAIN heap'
  BY <1>4 DEF New1
<1>6. Local
  BY <1>4, <1>n DEF Local
<1>7. PICK rk, top : Ranks(rk, top)
  BY DEF RanksInv
<1>8. \A a \in DOMAIN heap' : a = t \/ a \notin DOMAIN heap =>
           \A k \in 1 .. 4 : Points(heap'[a], k) => Descends(rk, a, heap'[a].kids[k])
  <2> SUFFICES ASSUME NEW a \in DOMAIN heap', a = t \/ a \notin DOMAIN heap,
                      NEW k \in 1 .. 4, Points(heap'[a], k)
               PROVE  Descends(rk, a, heap'[a].kids[k])
    OBVIOUS
  <2>1. CASE a = t
    <3>1. heap'[a].kids[k] = New1 \/ heap'[a].kids[k] = o
      BY <1>1, <1>4, <2>1 DEF Points
    <3>2. Descends(rk, t, New1)
      BY <1>5, <1>n DEF Descends
    <3>3. Descends(rk, t, o)
      BY <1>2, <1>7, <1>a, <1>n, TopDescends
    <3> QED
      BY <2>1, <3>1, <3>2, <3>3
  <2>2. CASE a # t
    <3>1. a \notin DOMAIN heap /\ heap'[a] = heap[Top.tree]
      BY <1>4, <1>n, <2>2
    <3>2. Points(heap[Top.tree], k) /\ heap'[a].kids[k] = heap[Top.tree].kids[k]
      BY <3>1
    <3> QED
      BY <1>7, <1>a, <3>1, <3>2, TopDescends
  <2> QED
    BY <2>1, <2>2
<1>9. /\ n \in Nat \ {0} /\ DOMAIN stack' = 1 .. n /\ stack'[n] = f
      /\ \A i \in 1 .. n - 1 : stack'[i] = stack[i]
  <2>1. n \in Nat \ {0} /\ \A i \in 1 .. n - 1 : i \in 1 .. n /\ i < n
    BY <1>a, <1>n, StackBase, Upto
  <2>2. /\ DOMAIN stack' = 1 .. n /\ stack'[n] = f
        /\ \A i \in 1 .. n : i < n => stack'[i] = stack[i]
    BY <1>1, <1>a, <1>n, StackIs
  <2> QED
    BY <2>1, <2>2
<1>10. \A i \in DOMAIN stack' : i >= n => stack'[i].own = <<>>
  BY <1>3, <1>9
<1>11. n \in {Len(stack) - 1, Len(stack), Len(stack) + 1}
  BY <1>n
<1> QED
  BY <1>6, <1>7, <1>8, <1>9, <1>10, <1>11, <1>a, <1>n, RanksStep

LEMMA RanksInit == Init => RanksInv
<1> SUFFICES ASSUME Init PROVE RanksInv
  OBVIOUS
<1>1. stack = <<Frame("block", 1)>> /\ heap = <<Fresh>>
  BY DEF Init
<1>2. DOMAIN stack = {1} /\ stack[1].own = <<>> /\ DOMAIN heap = {1} /\ heap[1].kids = <<>>
  BY <1>1, FrameIs, FreshIs
<1>3. PICK rk : rk = [n \in {1} |-> 0]
  OBVIOUS
<1>4. Ranks(rk, 0)
  BY <1>2, <1>3 DEF Ranks, Points
<1> QED
  BY <1>4 DEF RanksInv

LEMMA RanksNext == ParserInv /\ NodesInv /\ OrderInv /\ RanksInv /\ Next => RanksInv'
  BY StepCases, FillRanks, OperatorRanks, OperandDeeperRanks, AtomTrailRanks, TrailEndRanks,
     CombineRanks

LEMMA RanksSame == RanksInv /\ UNCHANGED vars => RanksInv'
<1> SUFFICES ASSUME RanksInv, UNCHANGED vars PROVE RanksInv'
  OBVIOUS
<1>1. heap' = heap /\ stack' = stack
  BY DEF vars
<1>2. PICK rk, top : Ranks(rk, top)
  BY DEF RanksInv
<1>3. Ranks(rk, top)'
  BY <1>1, <1>2 DEF Ranks
<1> QED
  BY <1>3 DEF RanksInv

LEMMA RanksKept == ParserInv /\ NodesInv /\ OrderInv /\ RanksInv /\ [Next]_vars => RanksInv'
  BY RanksNext, RanksSame

(* A pointer leads from a node to one of a higher rank: none is above      *)
(* itself.                                                                 *)
THEOREM RanksInvariant == Spec => []RanksInv
<1> QED
  BY RanksKept, RanksInit, OrderInvariant, NodesInvariant, ParserInvariant, PTL DEF Spec

-----------------------------------------------------------------------------
(* The finished tree. *)

LEMMA FinishedOrder ==
  ASSUME stack = <<>>, NEW lo, NEW hi, Ordered(lo, hi)
  PROVE  \A n \in DOMAIN heap : InOrder(heap[n], n, lo, hi, Open)
<1>1. StaleOf(stack) = {}
  BY DEF StaleOf
<1> QED
  BY <1>1 DEF Ordered

(* Every node but the root is the child of one. *)
LEMMA HasParent ==
  ASSUME ParserInv, NodesInv, stack = <<>>, NEW n \in DOMAIN heap, n # 1
  PROVE  \E m \in DOMAIN heap : \E k \in 1 .. 4 : Points(heap[m], k) /\ heap[m].kids[k] = n
<1>1. n \in 2 .. Len(heap)
  BY DEF ParserInv
<1>2. PICK p \in Pointers : Target(p) > 0 /\ Target(p) = n
  BY <1>1 DEF NodesInv, OwnedOnce
<1>3. DOMAIN stack = {}
  OBVIOUS
<1>4. PICK m \in InUse, k \in 1 .. 4 : p = <<"field", m, k>> /\ k \in DOMAIN heap[m].kids
  BY <1>2, <1>3 DEF Pointers
<1>5. Target(p) = heap[m].kids[k]
  BY <1>4 DEF Target
<1> QED
  BY <1>2, <1>4, <1>5 DEF InUse, Points

(* Every set of naturals that is not empty has a least element.            *)
LEMMA LeastNatural ==
  ASSUME NEW T, T \subseteq Nat, T # {}
  PROVE  \E x \in T : \A y \in T : x <= y
<1>1. \E R : IsWellFoundedOn(R, Nat) /\ \A x, y \in Nat : y < x => <<y, x>> \in R
  <2>1. \A x, y \in Nat : y < x => <<y, x>> \in OpToRel(<, Nat)
    BY DEF OpToRel
  <2> QED
    BY <2>1, NatLessThanWellFounded
<1>2. PICK R : IsWellFoundedOn(R, Nat) /\ \A x, y \in Nat : y < x => <<y, x>> \in R
  BY <1>1
<1>3. PICK x \in T : \A y \in T : <<y, x>> \notin R
  BY <1>2, WFMin
<1>4. ASSUME NEW y \in T PROVE x <= y
  <2>1. ~ (y < x)
    BY <1>2, <1>3, Zenon
  <2> QED
    BY <2>1
<1> QED
  BY <1>4

(* Of nodes of which there is one, there is a highest and a lowest one.    *)
LEMMA Highest ==
  ASSUME NEW rk, NEW top, Ranks(rk, top), NEW S, S \subseteq DOMAIN heap, S # {}
  PROVE  \E n \in S : \A m \in S : rk[n] <= rk[m]
<1>1. PICK T : T = {rk[n] : n \in S}
  OBVIOUS
<1>2. T \subseteq Nat /\ T # {}
  BY <1>1 DEF Ranks
<1>3. PICK x \in T : \A y \in T : x <= y
  BY <1>2, LeastNatural
<1> QED
  BY <1>1, <1>3

LEMMA Lowest ==
  ASSUME NEW rk, NEW top, Ranks(rk, top), NEW S, S \subseteq DOMAIN heap, S # {}
  PROVE  \E n \in S : \A m \in S : rk[m] <= rk[n]
<1>1. PICK T : T = {top - rk[n] : n \in S}
  OBVIOUS
<1>2. top \in Nat /\ \A n \in S : rk[n] \in 0 .. top
  BY DEF Ranks
<1>3. T \subseteq Nat /\ T # {}
  BY <1>1, <1>2
<1>4. PICK x \in T : \A y \in T : x <= y
  BY <1>3, LeastNatural
<1>5. PICK n \in S : x = top - rk[n]
  BY <1>1
<1>6. ASSUME NEW m \in S PROVE rk[m] <= rk[n]
  <2>1. top - rk[n] <= top - rk[m]
    BY <1>1, <1>4, <1>5
  <2> QED
    BY <1>2, <2>1
<1> QED
  BY <1>6

-----------------------------------------------------------------------------
(* The recursion of Leaves. *)

(* What it makes of a node, f being what it makes of the others. *)
Spell(f, n) ==
  LET node == heap[n]
      own  == IF node.held > 0 THEN <<node.held>> ELSE <<>>
      kid(k) == IF k \in DOMAIN node.kids /\ node.kids[k] > 0
                THEN f[node.kids[k]] ELSE <<>>
  IN IF node.type = "STMT_ASSIGNMENT"
     THEN kid(1) \o own \o kid(2)
     ELSE own \o kid(1) \o kid(2) \o kid(3) \o kid(4)

Parts(f, x) ==
  [k \in 1 .. 4 |-> IF Points(x, k) THEN f[x.kids[k]] ELSE <<>>]

Own(x) == IF x.held > 0 THEN <<x.held>> ELSE <<>>

(* The name of a declaration stands between its parts. *)
Row(type, o, p) ==
  IF type = "STMT_ASSIGNMENT" THEN p[1] \o o \o p[2]
  ELSE o \o p[1] \o p[2] \o p[3] \o p[4]

LEMMA SpellIs ==
  ASSUME NEW f, NEW n
  PROVE  Spell(f, n) = Row(heap[n].type, Own(heap[n]), Parts(f, heap[n]))
<1>1. PICK p, o : p = Parts(f, heap[n]) /\ o = Own(heap[n])
  OBVIOUS
<1>2. /\ p[1] = IF 1 \in DOMAIN heap[n].kids /\ heap[n].kids[1] > 0 THEN f[heap[n].kids[1]] ELSE <<>>
      /\ p[2] = IF 2 \in DOMAIN heap[n].kids /\ heap[n].kids[2] > 0 THEN f[heap[n].kids[2]] ELSE <<>>
      /\ p[3] = IF 3 \in DOMAIN heap[n].kids /\ heap[n].kids[3] > 0 THEN f[heap[n].kids[3]] ELSE <<>>
      /\ p[4] = IF 4 \in DOMAIN heap[n].kids /\ heap[n].kids[4] > 0 THEN f[heap[n].kids[4]] ELSE <<>>
  BY <1>1 DEF Points, Parts
<1>3. o = IF heap[n].held > 0 THEN <<heap[n].held>> ELSE <<>>
  BY <1>1 DEF Own
<1>4. Spell(f, n) = Row(heap[n].type, o, p)
  BY <1>2, <1>3, Zenon DEF Spell, Row
<1> QED
  BY <1>1, <1>4

LEMMA SpellLocal ==
  ASSUME NEW f, NEW g, NEW n,
         \A k \in 1 .. 4 : Points(heap[n], k) => f[heap[n].kids[k]] = g[heap[n].kids[k]]
  PROVE  Spell(f, n) = Spell(g, n)
<1>1. Parts(f, heap[n]) = Parts(g, heap[n])
  BY DEF Parts
<1> QED
  BY <1>1, SpellIs, Zenon

(* The tree has no loop, so there is such a function. *)
LEMMA SpellExists ==
  ASSUME ParserInv, RanksInv
  PROVE  \E f : f = [n \in DOMAIN heap |-> Spell(f, n)]
<1>1. PICK rk, top : Ranks(rk, top)
  BY DEF RanksInv
<1>2. top \in Nat /\ \A n \in DOMAIN heap : rk[n] \in 0 .. top
  BY <1>1 DEF Ranks
<1> DEFINE Deep(f, d) == \A n \in DOMAIN heap : rk[n] > d => f[n] = Spell(f, n)
<1>3. ASSUME NEW d \in Nat, NEW f, Deep(f, d), d # 0 PROVE \E g : Deep(g, d - 1)
  <2>1. PICK g : g = [n \in DOMAIN heap |-> IF rk[n] > d THEN f[n] ELSE Spell(f, n)]
    OBVIOUS
  <2>2. ASSUME NEW n \in DOMAIN heap, rk[n] > d - 1 PROVE g[n] = Spell(g, n)
    <3>1. ASSUME NEW k \in 1 .. 4, Points(heap[n], k)
          PROVE  g[heap[n].kids[k]] = f[heap[n].kids[k]]
      <4>1. PICK c \in DOMAIN heap : c = heap[n].kids[k]
        BY <3>1, KidExists
      <4>2. rk[n] < rk[c]
        BY <1>1, <3>1, <4>1 DEF Ranks
      <4>3. rk[c] > d
        BY <1>2, <2>2, <4>2
      <4> QED
        BY <2>1, <4>1, <4>3
    <3>2. Spell(g, n) = Spell(f, n)
      BY <3>1, SpellLocal
    <3>3. g[n] = Spell(f, n)
      BY <1>3, <2>1
    <3> QED
      BY <3>2, <3>3
  <2> QED
    BY <2>2
<1>4. PICK D : D = {d \in Nat : \E f : Deep(f, d)}
  OBVIOUS
<1> HIDE DEF Deep
<1>5. D \subseteq Nat /\ D # {}
  <2>1. \A f : Deep(f, top)
    BY <1>2 DEF Deep
  <2> QED
    BY <1>2, <1>4, <2>1
<1>6. PICK d \in D : \A e \in D : d <= e
  BY <1>5, LeastNatural
<1>7. PICK f : d \in Nat /\ Deep(f, d)
  BY <1>4
<1>8. d = 0
  <2> SUFFICES ASSUME d # 0 PROVE FALSE
    OBVIOUS
  <2>1. PICK g : Deep(g, d - 1)
    BY <1>3, <1>7
  <2>2. d - 1 \in D
    BY <1>4, <1>7, <2>1
  <2> QED
    BY <1>6, <1>7, <2>2
<1>9. PICK g : g = [n \in DOMAIN heap |-> IF rk[n] > 0 THEN f[n] ELSE Spell(f, n)]
  OBVIOUS
<1>10. ASSUME NEW n \in DOMAIN heap PROVE g[n] = Spell(g, n)
  <2>1. ASSUME NEW k \in 1 .. 4, Points(heap[n], k)
        PROVE  g[heap[n].kids[k]] = f[heap[n].kids[k]]
    <3>1. PICK c \in DOMAIN heap : c = heap[n].kids[k]
      BY <2>1, KidExists
    <3>2. rk[n] < rk[c]
      BY <1>1, <2>1, <3>1 DEF Ranks
    <3>3. rk[c] > 0
      BY <1>2, <3>2
    <3> QED
      BY <1>9, <3>1, <3>3
  <2>2. Spell(g, n) = Spell(f, n)
    BY <2>1, SpellLocal
  <2>3. g[n] = Spell(f, n)
    BY <1>7, <1>8, <1>9 DEF Deep
  <2> QED
    BY <2>2, <2>3
<1>11. g = [n \in DOMAIN heap |-> Spell(g, n)]
  BY <1>9, <1>10
<1> QED
  BY <1>11

LEMMA LeavesAre ==
  ASSUME ParserInv, RanksInv, 1 \in DOMAIN heap
  PROVE  \E f : Leaves = f[1] /\ \A n \in DOMAIN heap : f[n] = Spell(f, n)
<1>1. \E f : f = (CHOOSE g : g = [n \in DOMAIN heap |-> Spell(g, n)]) /\ Leaves = f[1]
  BY Zenon DEF Leaves, Spell
<1>2. PICK f : f = (CHOOSE g : g = [n \in DOMAIN heap |-> Spell(g, n)]) /\ Leaves = f[1]
  BY <1>1
<1>3. f = [n \in DOMAIN heap |-> Spell(f, n)]
  BY <1>2, SpellExists
<1> QED
  BY <1>2, <1>3

-----------------------------------------------------------------------------
(* Sequences of texts. *)

Elems(s) == {s[i] : i \in DOMAIN s}

Rising(s) == s \in Seq(Nat) /\ \A i, j \in DOMAIN s : i < j => s[i] < s[j]

Ahead(A, B) == \A x \in A, y \in B : x < y

LEMMA EmptyRising == Rising(<<>>) /\ Elems(<<>>) = {}
  BY DEF Rising, Elems

LEMMA OwnRising ==
  ASSUME NEW x, x.held \in Nat
  PROVE  /\ Rising(Own(x))
         /\ \A y : y \in Elems(Own(x)) <=> x.held > 0 /\ y = x.held
<1>1. CASE x.held > 0
  <2>1. PICK s : s = Own(x)
    OBVIOUS
  <2>2. s = <<x.held>>
    BY <1>1, <2>1 DEF Own
  <2>3. s \in Seq(Nat) /\ DOMAIN s = {1} /\ s[1] = x.held
    BY <2>2
  <2>4. Rising(s) /\ \A y : y \in Elems(s) <=> y = x.held
    BY <2>3 DEF Rising, Elems
  <2> QED
    BY <1>1, <2>1, <2>4
<1>2. CASE ~ (x.held > 0)
  <2>1. Own(x) = <<>>
    BY <1>2 DEF Own
  <2> QED
    BY <1>2, <2>1, EmptyRising
<1> QED
  BY <1>1, <1>2

LEMMA Joined ==
  ASSUME NEW s, NEW t, Rising(s), Rising(t), Ahead(Elems(s), Elems(t))
  PROVE  Rising(s \o t) /\ Elems(s \o t) = Elems(s) \union Elems(t)
<1>1. PICK a, b, u : a = Len(s) /\ b = Len(t) /\ u = s \o t
  OBVIOUS
<1>2. /\ a \in Nat /\ b \in Nat /\ DOMAIN s = 1 .. a /\ DOMAIN t = 1 .. b
      /\ u \in Seq(Nat) /\ DOMAIN u = 1 .. a + b
      /\ \A i \in 1 .. a : u[i] = s[i]
      /\ \A i \in 1 .. b : u[a + i] = t[i]
  BY <1>1 DEF Rising
<1>3. /\ \A i \in 1 .. a : s[i] \in Nat
      /\ \A i \in 1 .. b : t[i] \in Nat
  <2>1. s \in Seq(Nat) /\ t \in Seq(Nat)
    BY DEF Rising
  <2> QED
    BY <1>2, <2>1, ElementOfSeq, SMTT(30)
<1>4. \A i \in 1 .. a + b : i \in 1 .. a \/ (i - a \in 1 .. b /\ i = a + (i - a))
  BY <1>2
<1>5. \A i \in 1 .. a, j \in 1 .. b : s[i] < t[j]
  BY <1>2 DEF Ahead, Elems
<1>6. ASSUME NEW i \in 1 .. a + b, NEW j \in 1 .. a + b, i < j PROVE u[i] < u[j]
  <2>1. CASE i \in 1 .. a /\ j \in 1 .. a
    BY <1>2, <1>6, <2>1 DEF Rising
  <2>2. CASE i \in 1 .. a /\ j \notin 1 .. a
    <3>1. u[j] = t[j - a] /\ j - a \in 1 .. b
      BY <1>2, <1>4, <2>2
    <3> QED
      BY <1>2, <1>5, <2>2, <3>1
  <2>3. CASE i \notin 1 .. a
    <3>1. u[i] = t[i - a] /\ i - a \in 1 .. b
      BY <1>2, <1>4, <2>3
    <3>2. j \notin 1 .. a
      BY <1>2, <1>6, <2>3
    <3>3. u[j] = t[j - a] /\ j - a \in 1 .. b
      BY <1>2, <1>4, <3>2
    <3>4. i - a < j - a
      BY <1>2, <1>6
    <3>5. t[i - a] < t[j - a]
      BY <1>2, <3>1, <3>3, <3>4 DEF Rising
    <3> QED
      BY <3>1, <3>3, <3>5
  <2> QED
    BY <2>1, <2>2, <2>3
<1>7. Rising(u)
  BY <1>2, <1>6 DEF Rising
<1>8. Elems(u) \subseteq Elems(s) \union Elems(t)
  <2> SUFFICES ASSUME NEW i \in 1 .. a + b PROVE u[i] \in Elems(s) \union Elems(t)
    BY <1>2 DEF Elems
  <2>1. CASE i \in 1 .. a
    BY <1>2, <2>1 DEF Elems
  <2>2. CASE i - a \in 1 .. b /\ i = a + (i - a)
    <3>1. u[i] = t[i - a]
      BY <1>2, <2>2
    <3> QED
      BY <1>2, <2>2, <3>1 DEF Elems
  <2> QED
    BY <1>4, <2>1, <2>2
<1>9. Elems(s) \union Elems(t) \subseteq Elems(u)
  <2>1. ASSUME NEW i \in 1 .. a PROVE s[i] \in Elems(u)
    <3>1. i \in 1 .. a + b
      BY <1>2
    <3> QED
      BY <1>2, <3>1 DEF Elems
  <2>2. ASSUME NEW i \in 1 .. b PROVE t[i] \in Elems(u)
    <3>1. a + i \in 1 .. a + b
      BY <1>2
    <3> QED
      BY <1>2, <3>1 DEF Elems
  <2> QED
    BY <1>2, <2>1, <2>2 DEF Elems
<1> QED
  BY <1>1, <1>7, <1>8, <1>9

(* The texts of a node, when those of its parts are in order. *)
LEMMA RowRising ==
  ASSUME NEW type, NEW o, NEW p, Rising(o), \A k \in 1 .. 4 : Rising(p[k]),
         \A j, k \in 1 .. 4 : j < k => Ahead(Elems(p[j]), Elems(p[k])),
         type # "STMT_ASSIGNMENT" => \A k \in 1 .. 4 : Ahead(Elems(o), Elems(p[k])),
         type = "STMT_ASSIGNMENT" =>
           /\ Ahead(Elems(p[1]), Elems(o)) /\ Ahead(Elems(o), Elems(p[2]))
           /\ Elems(p[3]) = {} /\ Elems(p[4]) = {}
  PROVE  /\ Rising(Row(type, o, p))
         /\ Elems(Row(type, o, p)) =
              Elems(o) \union Elems(p[1]) \union Elems(p[2]) \union Elems(p[3]) \union Elems(p[4])
<1>1. /\ Rising(p[1]) /\ Rising(p[2]) /\ Rising(p[3]) /\ Rising(p[4])
      /\ Ahead(Elems(p[1]), Elems(p[2])) /\ Ahead(Elems(p[1]), Elems(p[3]))
      /\ Ahead(Elems(p[1]), Elems(p[4])) /\ Ahead(Elems(p[2]), Elems(p[3]))
      /\ Ahead(Elems(p[2]), Elems(p[4])) /\ Ahead(Elems(p[3]), Elems(p[4]))
  OBVIOUS
<1>2. PICK a, b, c, d : a = p[1] /\ b = p[2] /\ c = p[3] /\ d = p[4]
  OBVIOUS
<1>3. CASE type = "STMT_ASSIGNMENT"
  <2>1. PICK s : s = a \o o
    OBVIOUS
  <2>2. Rising(s) /\ Elems(s) = Elems(a) \union Elems(o)
    BY <1>1, <1>2, <1>3, <2>1, Joined
  <2>3. Ahead(Elems(s), Elems(b))
    BY <1>1, <1>2, <1>3, <2>2 DEF Ahead
  <2>4. Rising(s \o b) /\ Elems(s \o b) = Elems(s) \union Elems(b)
    BY <1>1, <1>2, <2>2, <2>3, Joined
  <2>5. Row(type, o, p) = s \o b
    BY <1>2, <1>3, <2>1 DEF Row
  <2> QED
    BY <1>2, <1>3, <2>2, <2>4, <2>5
<1>4. CASE type # "STMT_ASSIGNMENT"
  <2>0. /\ Ahead(Elems(o), Elems(a)) /\ Ahead(Elems(o), Elems(b))
        /\ Ahead(Elems(o), Elems(c)) /\ Ahead(Elems(o), Elems(d))
    BY <1>2, <1>4
  <2>1. PICK s, t, u : s = o \o a /\ t = s \o b /\ u = t \o c
    OBVIOUS
  <2>2. Rising(s) /\ Elems(s) = Elems(o) \union Elems(a)
    BY <1>1, <1>2, <2>0, <2>1, Joined
  <2>3. Ahead(Elems(s), Elems(b))
    BY <1>1, <1>2, <2>0, <2>2 DEF Ahead
  <2>4. Rising(t) /\ Elems(t) = Elems(s) \union Elems(b)
    BY <1>1, <1>2, <2>1, <2>2, <2>3, Joined
  <2>5. Ahead(Elems(t), Elems(c))
    BY <1>1, <1>2, <2>0, <2>2, <2>4 DEF Ahead
  <2>6. Rising(u) /\ Elems(u) = Elems(t) \union Elems(c)
    BY <1>1, <1>2, <2>1, <2>4, <2>5, Joined
  <2>7. Ahead(Elems(u), Elems(d))
    BY <1>1, <1>2, <2>0, <2>2, <2>4, <2>6 DEF Ahead
  <2>8. Rising(u \o d) /\ Elems(u \o d) = Elems(u) \union Elems(d)
    BY <1>1, <1>2, <2>6, <2>7, Joined
  <2>9. Row(type, o, p) = u \o d
    BY <1>2, <1>4, <2>1 DEF Row
  <2> QED
    BY <1>2, <2>2, <2>4, <2>6, <2>8, <2>9
<1> QED
  BY <1>3, <1>4

-----------------------------------------------------------------------------
(* The texts of the tree. *)

(* What is spelled for a node is in order, in the interval of the node, and *)
(* made of texts that nodes hold.                                          *)
Fine(f, lo, hi, n) ==
  /\ Rising(f[n])
  /\ \A x \in Elems(f[n]) :
       lo[n] < x /\ x <= hi[n] /\ \E m \in DOMAIN heap : heap[m].held = x /\ x > 0

LEMMA PartIs ==
  ASSUME NEW f, NEW x, NEW k \in 1 .. 4
  PROVE  /\ Points(x, k) => Parts(f, x)[k] = f[x.kids[k]]
         /\ ~ Points(x, k) => Parts(f, x)[k] = <<>>
  BY DEF Parts

LEMMA NodeFine ==
  ASSUME ParserInv, ShapeInv, stack = <<>>, NEW lo, NEW hi, Ordered(lo, hi),
         NEW f, NEW n \in DOMAIN heap, f[n] = Spell(f, n),
         \A k \in 1 .. 4 : Points(heap[n], k) => Fine(f, lo, hi, heap[n].kids[k])
  PROVE  /\ Fine(f, lo, hi, n)
         /\ heap[n].held > 0 => heap[n].held \in Elems(f[n])
         /\ \A k \in 1 .. 4 : Points(heap[n], k) => Elems(f[heap[n].kids[k]]) \subseteq Elems(f[n])
<1>1. PICK x, p, o : x = heap[n] /\ p = Parts(f, heap[n]) /\ o = Own(heap[n])
  OBVIOUS
<1>2. x.held \in Nat /\ \A k : Points(x, k) => x.kids[k] \in DOMAIN heap
  BY <1>1, KidExists
<1>3. InOrder(x, n, lo, hi, Open)
  BY <1>1, FinishedOrder
<1>4. /\ \A m \in DOMAIN heap : lo[m] \in Nat /\ hi[m] \in Nat
  BY Tokens_ DEF Ordered, Open
<1>5. /\ \A k \in 1 .. 4 : Points(x, k) => p[k] = f[x.kids[k]]
      /\ \A k \in 1 .. 4 : ~ Points(x, k) => p[k] = <<>>
  BY <1>1, PartIs
<1>6. \A k \in 1 .. 4 : Rising(p[k])
  BY <1>1, <1>5, EmptyRising DEF Fine
<1>7. \A k \in 1 .. 4 : \A y \in Elems(p[k]) :
        /\ Points(x, k) /\ y \in Nat /\ lo[x.kids[k]] < y /\ y <= hi[x.kids[k]]
        /\ lo[n] < y /\ y <= hi[n]
        /\ \E m \in DOMAIN heap : heap[m].held = y /\ y > 0
  <2> SUFFICES ASSUME NEW k \in 1 .. 4, NEW y \in Elems(p[k])
               PROVE  /\ Points(x, k) /\ y \in Nat /\ lo[x.kids[k]] < y /\ y <= hi[x.kids[k]]
                      /\ lo[n] < y /\ y <= hi[n]
                      /\ \E m \in DOMAIN heap : heap[m].held = y /\ y > 0
    OBVIOUS
  <2>1. Points(x, k)
    BY <1>5, EmptyRising
  <2>2. /\ lo[x.kids[k]] < y /\ y <= hi[x.kids[k]]
        /\ \E m \in DOMAIN heap : heap[m].held = y /\ y > 0
    BY <1>1, <1>5, <2>1 DEF Fine
  <2>3. y \in Nat
    BY <2>2, KidExists
  <2>4. lo[n] <= lo[x.kids[k]] /\ hi[x.kids[k]] <= hi[n]
    BY <1>3, <2>1 DEF InOrder
  <2>5. x.kids[k] \in DOMAIN heap
    BY <1>2, <2>1
  <2>6. PICK c \in DOMAIN heap : c = x.kids[k]
    BY <2>5
  <2>7. lo[c] \in Nat /\ hi[c] \in Nat /\ lo[n] \in Nat /\ hi[n] \in Nat
    BY <1>4
  <2>8. lo[n] < y /\ y <= hi[n]
    BY <2>2, <2>3, <2>4, <2>6, <2>7
  <2> QED
    BY <2>1, <2>2, <2>3, <2>8
<1>8. Rising(o) /\ \A y : y \in Elems(o) <=> x.held > 0 /\ y = x.held
  BY <1>1, <1>2, OwnRising
<1>9. \A y \in Elems(o) :
        /\ y \in Nat /\ lo[n] < y /\ y <= hi[n]
        /\ \E m \in DOMAIN heap : heap[m].held = y /\ y > 0
  <2>1. x.held > 0 => lo[n] < x.held /\ x.held <= hi[n]
    BY <1>3 DEF InOrder
  <2> QED
    BY <1>1, <1>2, <1>8, <2>1
<1>10. \A j, k \in 1 .. 4 : j < k => Ahead(Elems(p[j]), Elems(p[k]))
  <2> SUFFICES ASSUME NEW j \in 1 .. 4, NEW k \in 1 .. 4, j < k,
                      NEW y \in Elems(p[j]), NEW z \in Elems(p[k])
               PROVE  y < z
    BY DEF Ahead
  <2>1. PICK c, d : c = x.kids[j] /\ d = x.kids[k]
    OBVIOUS
  <2>2. Points(x, j) /\ Points(x, k)
    BY <1>7
  <2>3. y \in Nat /\ z \in Nat /\ y <= hi[c] /\ lo[d] < z
    BY <1>7, <2>1
  <2>4. hi[c] <= lo[d]
    BY <1>3, <2>1, <2>2 DEF InOrder
  <2>5. c \in DOMAIN heap /\ d \in DOMAIN heap
    BY <1>2, <2>1, <2>2
  <2>6. hi[c] \in Nat /\ lo[d] \in Nat
    BY <1>4, <2>5
  <2> QED
    BY <2>3, <2>4, <2>6
<1>11. x.type # "STMT_ASSIGNMENT" => \A k \in 1 .. 4 : Ahead(Elems(o), Elems(p[k]))
  <2> SUFFICES ASSUME x.type # "STMT_ASSIGNMENT", NEW k \in 1 .. 4,
                      NEW y \in Elems(o), NEW z \in Elems(p[k])
               PROVE  FALSE
    BY DEF Ahead
  <2>1. x.held > 0 /\ Points(x, k)
    BY <1>7, <1>8
  <2> QED
    BY <1>3, <2>1 DEF InOrder
<1>12. ASSUME x.type = "STMT_ASSIGNMENT"
       PROVE  /\ Ahead(Elems(p[1]), Elems(o)) /\ Ahead(Elems(o), Elems(p[2]))
              /\ Elems(p[3]) = {} /\ Elems(p[4]) = {}
  <2>1. DOMAIN x.kids = {1, 2}
    BY <1>1, <1>12 DEF ShapeInv, Shaped
  <2>2. ~ Points(x, 3) /\ ~ Points(x, 4)
    BY <2>1 DEF Points
  <2>3. Elems(p[3]) = {} /\ Elems(p[4]) = {}
    BY <1>7, <2>2
  <2>4. ASSUME NEW y \in Elems(p[1]), NEW z \in Elems(o) PROVE y < z
    <3>1. x.held > 0 /\ z = x.held /\ Points(x, 1)
      BY <1>7, <1>8, <2>4
    <3>2. PICK c : c = x.kids[1]
      OBVIOUS
    <3>3. hi[c] < z
      BY <1>3, <3>1, <3>2 DEF InOrder
    <3>4. y \in Nat /\ y <= hi[c] /\ c \in DOMAIN heap
      BY <1>2, <1>7, <2>4, <3>1, <3>2
    <3>5. hi[c] \in Nat /\ z \in Nat
      BY <1>2, <1>4, <3>1, <3>4
    <3> QED
      BY <3>3, <3>4, <3>5
  <2>5. ASSUME NEW y \in Elems(o), NEW z \in Elems(p[2]) PROVE y < z
    <3>1. x.held > 0 /\ y = x.held /\ Points(x, 2)
      BY <1>7, <1>8, <2>5
    <3>2. PICK c : c = x.kids[2]
      OBVIOUS
    <3>3. y <= lo[c]
      BY <1>3, <3>1, <3>2 DEF InOrder
    <3>4. z \in Nat /\ lo[c] < z /\ c \in DOMAIN heap
      BY <1>2, <1>7, <2>5, <3>1, <3>2
    <3>5. lo[c] \in Nat /\ y \in Nat
      BY <1>2, <1>4, <3>1, <3>4
    <3> QED
      BY <3>3, <3>4, <3>5
  <2> QED
    BY <2>3, <2>4, <2>5 DEF Ahead
<1>13. PICK s : s = f[n]
  OBVIOUS
<1>14. s = Row(x.type, o, p)
  BY <1>1, <1>13, SpellIs, Zenon
<1>15. /\ Rising(s)
       /\ Elems(s) =
            Elems(o) \union Elems(p[1]) \union Elems(p[2]) \union Elems(p[3]) \union Elems(p[4])
  BY <1>6, <1>8, <1>10, <1>11, <1>12, <1>14, RowRising
<1>16. \A y \in Elems(s) : y \in Elems(o) \/ \E k \in 1 .. 4 : y \in Elems(p[k])
  BY <1>15
<1>17. Fine(f, lo, hi, n)
  BY <1>7, <1>9, <1>13, <1>15, <1>16 DEF Fine
<1>18. heap[n].held > 0 => heap[n].held \in Elems(f[n])
  BY <1>1, <1>8, <1>13, <1>15
<1>19. ASSUME NEW k \in 1 .. 4, Points(heap[n], k)
       PROVE  Elems(f[heap[n].kids[k]]) \subseteq Elems(f[n])
  <2>1. Elems(p[k]) \subseteq Elems(s)
    BY <1>15
  <2>2. p[k] = f[heap[n].kids[k]]
    BY <1>1, <1>5, <1>19
  <2> QED
    BY <1>13, <2>1, <2>2
<1> QED
  BY <1>17, <1>18, <1>19

(* From the lowest nodes upwards, all are fine. *)
LEMMA AllFine ==
  ASSUME ParserInv, ShapeInv, RanksInv, stack = <<>>, NEW lo, NEW hi, Ordered(lo, hi),
         NEW f, \A n \in DOMAIN heap : f[n] = Spell(f, n)
  PROVE  \A n \in DOMAIN heap : Fine(f, lo, hi, n)
<1>1. PICK S : S = {n \in DOMAIN heap : ~ Fine(f, lo, hi, n)}
  OBVIOUS
<1> SUFFICES ASSUME S # {} PROVE FALSE
  BY <1>1
<1>2. PICK rk, top : Ranks(rk, top)
  BY DEF RanksInv
<1>3. S \subseteq DOMAIN heap
  BY <1>1
<1>4. PICK n \in S : \A m \in S : rk[m] <= rk[n]
  BY <1>2, <1>3, Lowest
<1>5. n \in DOMAIN heap /\ ~ Fine(f, lo, hi, n)
  BY <1>1
<1>6. ASSUME NEW k \in 1 .. 4, Points(heap[n], k) PROVE Fine(f, lo, hi, heap[n].kids[k])
  <2>1. PICK c \in DOMAIN heap : c = heap[n].kids[k]
    BY <1>5, <1>6, KidExists
  <2>2. rk[n] < rk[c] /\ rk[n] \in Nat /\ rk[c] \in Nat
    BY <1>2, <1>5, <1>6, <2>1 DEF Ranks
  <2>3. c \notin S
    BY <1>4, <2>2
  <2> QED
    BY <1>1, <2>1, <2>3
<1>7. f[n] = Spell(f, n)
  BY <1>5
<1>8. Fine(f, lo, hi, n)
  BY <1>5, <1>6, <1>7, NodeFine
<1> QED
  BY <1>5, <1>8

(* What is spelled for a node is part of what is spelled for the root.     *)
LEMMA AllBelowRoot ==
  ASSUME ParserInv, NodesInv, ShapeInv, RanksInv, stack = <<>>,
         NEW lo, NEW hi, Ordered(lo, hi),
         NEW f, \A n \in DOMAIN heap : f[n] = Spell(f, n)
  PROVE  \A n \in DOMAIN heap :
           /\ Elems(f[n]) \subseteq Elems(f[1])
           /\ heap[n].held > 0 => heap[n].held \in Elems(f[n])
<1>1. \A n \in DOMAIN heap : Fine(f, lo, hi, n)
  BY AllFine
<1>2. ASSUME NEW n \in DOMAIN heap
      PROVE  /\ heap[n].held > 0 => heap[n].held \in Elems(f[n])
             /\ \A k \in 1 .. 4 : Points(heap[n], k) => Elems(f[heap[n].kids[k]]) \subseteq Elems(f[n])
  <2>1. \A k \in 1 .. 4 : Points(heap[n], k) => Fine(f, lo, hi, heap[n].kids[k])
    BY <1>1, KidExists
  <2>2. f[n] = Spell(f, n)
    OBVIOUS
  <2> QED
    BY <2>1, <2>2, NodeFine
<1>3. PICK S : S = {n \in DOMAIN heap : ~ (Elems(f[n]) \subseteq Elems(f[1]))}
  OBVIOUS
<1>4. S = {}
  <2> SUFFICES ASSUME S # {} PROVE FALSE
    OBVIOUS
  <2>1. PICK rk, top : Ranks(rk, top)
    BY DEF RanksInv
  <2>2. S \subseteq DOMAIN heap
    BY <1>3
  <2>3. PICK n \in S : \A m \in S : rk[n] <= rk[m]
    BY <2>1, <2>2, Highest
  <2>4. n \in DOMAIN heap /\ n # 1
    BY <1>3
  <2>5. PICK m \in DOMAIN heap : \E k \in 1 .. 4 : Points(heap[m], k) /\ heap[m].kids[k] = n
    BY <2>4, HasParent
  <2>6. PICK k \in 1 .. 4 : Points(heap[m], k) /\ heap[m].kids[k] = n
    BY <2>5
  <2>7. rk[m] < rk[n] /\ rk[m] \in Nat /\ rk[n] \in Nat
    BY <2>1, <2>4, <2>6 DEF Ranks
  <2>8. m \notin S
    BY <2>3, <2>7
  <2>9. Elems(f[m]) \subseteq Elems(f[1])
    BY <1>3, <2>8
  <2>10. Elems(f[n]) \subseteq Elems(f[m])
    BY <1>2, <2>6
  <2> QED
    BY <1>3, <2>9, <2>10
<1> QED
  BY <1>2, <1>3, <1>4

LEMMA FinishedSpelling ==
  ASSUME ParserInv, NodesInv, ShapeInv, OrderInv, RanksInv
  PROVE  SourceOrder
<1> SUFFICES ASSUME Done PROVE
      /\ \A i, j \in DOMAIN Leaves : i < j => Leaves[i] < Leaves[j]
      /\ {Leaves[i] : i \in DOMAIN Leaves} = {i \in 1 .. pos : tokens[i] \in Texts}
  BY DEF SourceOrder
<1>1. stack = <<>> /\ 1 \in DOMAIN heap
  BY DEF Done, ShapeInv
<1>2. PICK lo, hi : Ordered(lo, hi)
  BY DEF OrderInv
<1>3. PICK f : Leaves = f[1] /\ \A n \in DOMAIN heap : f[n] = Spell(f, n)
  BY <1>1, LeavesAre
<1>4. Fine(f, lo, hi, 1)
  BY <1>1, <1>2, <1>3, AllFine
<1>5. PICK s : s = Leaves
  OBVIOUS
<1>6. Rising(s) /\ \A x \in Elems(s) : \E m \in DOMAIN heap : heap[m].held = x /\ x > 0
  BY <1>3, <1>4, <1>5 DEF Fine
<1>7. \A n \in DOMAIN heap : heap[n].held > 0 => heap[n].held \in Elems(s)
  BY <1>1, <1>2, <1>3, <1>5, AllBelowRoot
<1>8. InUse = DOMAIN heap
  <2>1. DOMAIN stack = {}
    BY <1>1
  <2> QED
    BY <2>1 DEF InUse, Stale
<1>9. Elems(s) = {heap[n].held : n \in {m \in DOMAIN heap : heap[m].held > 0}}
  BY <1>6, <1>7
<1>10. {heap[n].held : n \in {m \in DOMAIN heap : heap[m].held > 0}} =
          {i \in 1 .. pos : tokens[i] \in Texts}
  BY <1>8 DEF NodesInv, HeldOnce, Texts
<1>11. \A i, j \in DOMAIN s : i < j => s[i] < s[j]
  BY <1>6 DEF Rising
<1>12. Elems(s) = {i \in 1 .. pos : tokens[i] \in Texts}
  BY <1>9, <1>10
<1> QED
  BY <1>5, <1>11, <1>12 DEF Elems

(* Whatever the tokens are, the tree spells the texts the parser has gone  *)
(* past in the order of the source, each once: no operator that is rotated *)
(* by its precedence, no suffix and no declaration puts one before another *)
(* (parse.c:147, 217, 262).                                                *)
THEOREM TextsInSourceOrder == Spec => []SourceOrder
<1>1. Spec => []ShapeInv
  BY ShapeInit, ShapeStep, ParserInvariant, PTL DEF Spec
<1> QED
  BY <1>1, FinishedSpelling, OrderInvariant, RanksInvariant, NodesInvariant, ParserInvariant, PTL

-----------------------------------------------------------------------------
(* Operators stand in the tree as their precedences ask.                   *)

(* The functions of an atom, those of a chain of operators, those that     *)
(* have had another one fill their own node and only return, and those     *)
(* whose node is no operator.                                              *)
Atomic   == {"small_atom", "prefix", "atom", "suffix", "trail"}
Chaining == {"nth", "nth_right", "nth_deep"}
Passing  == {"stmt_end", "expr_end", "tail"}
Tame     == Labels \ (Chaining \union Passing \union {"paren"})

(* The tokens to come, up to the semicolon, and what a function relies on  *)
(* the operators among them to be.                                         *)
Soon(ts, p) ==
  {k \in p + 1 .. Len(ts) : \A j \in p + 1 .. k : ts[j] # "SEMICOLON"}
Above(ts, p, low) ==
  \A k \in Soon(ts, p) : Prec(ts[k]) # -1 => Prec(ts[k]) > low
Rises(ts, p, low) ==
  \A j, k \in Soon(ts, p) :
    j < k /\ Prec(ts[j]) > low /\ Prec(ts[k]) # -1 => Prec(ts[k]) > low

Expects(ts, p, f) ==
  /\ f.at \in Chaining => Above(ts, p, f.num - 1)
  /\ f.at = "nth_right" => Rises(ts, p, Prec(f.op))
  /\ f.at = "nth_deep" => Above(ts, p, Prec(f.op))

(* The node of a function is an operator only in the loop that builds it;  *)
(* what it holds already binds as tight as the operator it waits for.      *)
Settled(hp, f) ==
  /\ f.at # "paren"
  /\ f.at \in Tame => hp[f.tree].type # "BINARY_OP"
  /\ f.at \in {"nth_right", "nth_deep"} =>
       f.num <= Prec(f.op) /\ Prec(f.op) <= Grade(hp[f.tree])
  /\ f.at = "nth_right" => hp[f.own[1]].type # "BINARY_OP"

(* The innermost function, with the next token. *)
Facing(hp, f, cur) ==
  /\ f.at = "nth" =>
       /\ f.num <= Grade(hp[f.tree]) /\ Prec(cur) <= Grade(hp[f.tree])
       /\ f.num <= Prec(f.op) \/ Prec(cur) = -1
  /\ f.at = "nth_deep" => Prec(cur) = -1 /\ Prec(f.op) < Grade(hp[f.own[1]])

(* Which functions are above which. *)
Nests(f, g) ==
  /\ f.at \in Atomic \union {"expr_ops", "nth_right"} => g.at \in Atomic
  /\ f.at = "nth_deep" => g.at \in Atomic \union Chaining
Inside(f, g) ==
  f.at = "nth_deep" => g.at \in Chaining /\ g.tree = f.own[1] /\ g.num = Prec(f.op) + 1

(* An operator node climbs, and its operands are finished. *)
TreesOf(st) == {st[i].tree : i \in DOMAIN st}
NodeClimbs(hp, x, busy) ==
  x.type = "BINARY_OP" =>
    /\ \A k \in {1, 2} : x.kids[k] \in DOMAIN hp /\ x.kids[k] \notin busy
    /\ Grade(hp[x.kids[1]]) >= Grade(x) /\ Grade(hp[x.kids[2]]) > Grade(x)

ClimbInv ==
  /\ \A i \in DOMAIN stack : Settled(heap, stack[i])
  /\ \A i \in DOMAIN stack : Expects(tokens, pos, stack[i])
  /\ stack # <<>> => Facing(heap, Top, Cur)
  /\ \A i, j \in DOMAIN stack : i < j => Nests(stack[i], stack[j])
  /\ \A i \in DOMAIN stack : i + 1 \in DOMAIN stack => Inside(stack[i], stack[i + 1])
  /\ \A n \in DOMAIN heap : NodeClimbs(heap, heap[n], TreesOf(stack))

NoParen == \A i \in 1 .. pos : tokens[i] # "LPAREN"
Climbing == ParserInv /\ NodesInv /\ stack # <<>> /\ ClimbInv

-----------------------------------------------------------------------------
(* The tables, and the tokens to come. *)

LEMMA GradeIs ==
  /\ \A x : Grade(x) \in 1 .. 6 /\ (x.type # "BINARY_OP" => Grade(x) = 6)
  /\ \A t, kids : Prec(t) # -1 => Grade(Node("BINARY_OP", 0, OpCode(t), kids)) = Prec(t)
<1>1. ASSUME NEW x PROVE Grade(x) \in 1 .. 6 /\ (x.type # "BINARY_OP" => Grade(x) = 6)
  <2>1. Grade(x) \in {1, 2, 3, 4, 5, 6} /\ (x.type # "BINARY_OP" => Grade(x) = 6)
    BY Zenon DEF Grade
  <2> QED
    BY <2>1
<1>2. ASSUME NEW t, NEW kids, Prec(t) # -1
      PROVE  Grade(Node("BINARY_OP", 0, OpCode(t), kids)) = Prec(t)
  <2>1. \A c : Grade(Node("BINARY_OP", 0, c, kids)) =
                 CASE c \in {0, 1}   -> 1
                   [] c \in {2, 3}   -> 2
                   [] c \in {8, 9}   -> 3
                   [] c \in {10, 11} -> 4
                   [] OTHER          -> 5
    BY DEF Grade, Node
  <2>2. t \in {"PLUS", "MINUS", "STAR", "SLASH", "PLUS_EQ", "MINUS_EQ", "MULT_EQ", "DIV_EQ",
               "COMP_EQ", "COMP_NEQ", "LEFT_ANGLE", "RIGHT_ANGLE"}
    BY <1>2 DEF Prec
  <2> QED
    BY <2>1, <2>2 DEF Prec, OpCode
<1> QED
  BY <1>1, <1>2

LEMMA ExpectsKept ==
  ASSUME NEW ts, NEW p, NEW q, Soon(ts, q) \subseteq Soon(ts, p), NEW f, Expects(ts, p, f)
  PROVE  Expects(ts, q, f)
<1>1. \A low : Above(ts, p, low) => Above(ts, q, low)
  BY DEF Above
<1>2. \A low : Rises(ts, p, low) => Rises(ts, q, low)
  BY DEF Rises
<1> QED
  BY <1>1, <1>2 DEF Expects

LEMMA SoonKept ==
  ASSUME NEW ts, Len(ts) \in Nat, NEW p \in Nat, NEW q \in Nat, p <= q,
         \A j \in p + 1 .. q : ts[j] # "SEMICOLON"
  PROVE  Soon(ts, q) \subseteq Soon(ts, p)
<1> SUFFICES ASSUME NEW k \in Soon(ts, q) PROVE k \in Soon(ts, p)
  OBVIOUS
<1>1. k \in q + 1 .. Len(ts) /\ \A j \in q + 1 .. k : ts[j] # "SEMICOLON"
  BY DEF Soon
<1>2. k \in p + 1 .. Len(ts) /\ \A j \in p + 1 .. k : j \in p + 1 .. q \/ j \in q + 1 .. k
  BY <1>1
<1> QED
  BY <1>1, <1>2 DEF Soon

(* The functions of a chain of operators and of its atoms consume no       *)
(* semicolon.                                                              *)
Keeps == pos' \in Nat /\ pos <= pos' /\ tokens' = tokens
           /\ Soon(tokens, pos') \subseteq Soon(tokens, pos)

LEMMA KeepsIf ==
  ASSUME ParserInv, tokens' = tokens,
         \/ pos' = pos
         \/ pos' = pos + 1 /\ Cur \notin {"SEMICOLON", "END"}
         \/ pos' = pos + 2 /\ Cur \notin {"SEMICOLON", "END"} /\ Peek \notin {"SEMICOLON", "END"}
  PROVE  Keeps
<1>1. pos \in Nat /\ Len(tokens) \in Nat
  BY Tokens_
<1>2. /\ Cur \notin {"SEMICOLON", "END"} => tokens[pos + 1] # "SEMICOLON"
      /\ Peek \notin {"SEMICOLON", "END"} => tokens[pos + 2] # "SEMICOLON"
  BY <1>1 DEF Cur, Peek
<1>3. pos' \in Nat /\ pos <= pos' /\ \A j \in pos + 1 .. pos' : tokens[j] # "SEMICOLON"
  <2>1. CASE pos' = pos
    BY <1>1, <2>1
  <2>2. CASE pos' = pos + 1 /\ Cur \notin {"SEMICOLON", "END"}
    BY <1>1, <1>2, <2>2
  <2>3. CASE pos' = pos + 2 /\ Cur \notin {"SEMICOLON", "END"} /\ Peek \notin {"SEMICOLON", "END"}
    <3>1. \A j \in pos + 1 .. pos' : j = pos + 1 \/ j = pos + 2
      BY <1>1, <2>3
    <3> QED
      BY <1>1, <1>2, <2>3, <3>1
  <2> QED
    BY <2>1, <2>2, <2>3
<1> QED
  BY <1>1, <1>3, SoonKept DEF Keeps

(* A frame below the innermost one. *)
LEMMA LowerFrame ==
  ASSUME Climbing, NEW i \in 1 .. Len(stack) - 1
  PROVE  /\ i \in DOMAIN stack /\ stack[i].at \notin Working /\ stack[i].at \in Labels
         /\ stack[i].tree \in 1 .. Len(heap) /\ stack[i].num \in Nat
         /\ stack[i].at \in {"nth_right", "nth_deep"} => stack[i].own[1] \in 1 .. Len(heap)
         /\ stack[i].at \in Holding => stack[i].tree # Top.tree
         /\ Nests(stack[i], Top) /\ Settled(heap, stack[i]) /\ Expects(tokens, pos, stack[i])
<1>n. PICK n : n = Len(stack)
  OBVIOUS
<1>1. /\ n \in Nat \ {0} /\ i \in 1 .. n - 1 /\ i \in DOMAIN stack /\ n \in DOMAIN stack
      /\ Top = stack[n] /\ stack[i] \in GoodFrames(Len(heap)) /\ i < n
  BY <1>n, StackBase DEF Climbing
<1>2. stack[i] \in Frames(Len(heap)) /\ WellFormed(stack[i])
  BY <1>1 DEF GoodFrames
<1>3. /\ stack[i].at \in Labels /\ stack[i].tree \in 1 .. Len(heap) /\ stack[i].num \in Nat
      /\ stack[i].own \in Seq(1 .. Len(heap))
  BY <1>2 DEF Frames
<1>4. stack[i].at \in {"nth_right", "nth_deep"} => stack[i].own[1] \in 1 .. Len(heap)
  BY <1>2, <1>3 DEF WellFormed
<1>5. stack[i].at \notin Working
  BY <1>1, <1>n DEF Climbing, NodesInv, FramesInv
<1>6. stack[i].at \in Holding => stack[i].tree # Top.tree
  BY <1>n, NearApart DEF Climbing, NodesInv, FramesInv, Near
<1>7. Nests(stack[i], Top) /\ Settled(heap, stack[i]) /\ Expects(tokens, pos, stack[i])
  BY <1>1 DEF Climbing, ClimbInv
<1> QED
  BY <1>1, <1>3, <1>4, <1>5, <1>6, <1>7

(* Such a frame stays settled, and what it expects stays true. *)
LEMMA LowerSettled ==
  ASSUME Climbing, Local, NEW i \in 1 .. Len(stack) - 1,
         \/ Top.at \in {"nth_right", "nth_deep"}
         \/ heap'[Top.tree].type # "BINARY_OP"
         \/ heap'[Top.tree] = heap[Top.tree]
  PROVE  Settled(heap', stack[i])
<1>f. PICK f, t : f = stack[i] /\ t = Top.tree
  OBVIOUS
<1>1. /\ f.at \notin Working /\ f.at \in Labels /\ f.tree \in 1 .. Len(heap)
      /\ f.at \in {"nth_right", "nth_deep"} => f.own[1] \in 1 .. Len(heap)
      /\ f.at \in Holding => f.tree # t
      /\ Nests(f, Top) /\ Settled(heap, f)
  BY <1>f, LowerFrame
<1>2. \A m \in 1 .. Len(heap) : m # t => heap'[m] = heap[m]
  BY <1>f DEF Local
<1>3. f.at \in Tame => heap'[f.tree].type # "BINARY_OP"
  <2>1. CASE f.tree # t
    BY <1>1, <1>2, <2>1 DEF Settled
  <2>2. CASE f.tree = t /\ f.at \in Tame
    <3>1. f.at \in Atomic \union {"expr_ops"}
      BY <1>1, <2>2 DEF Tame, Labels, Holding, Working, Entry, Chaining, Passing, Atomic
    <3>2. Top.at \in Atomic
      BY <1>1, <3>1 DEF Nests
    <3>3. Top.at \notin {"nth_right", "nth_deep"}
      BY <3>2 DEF Atomic
    <3> QED
      BY <1>1, <1>f, <2>2, <3>3 DEF Settled
  <2> QED
    BY <2>1, <2>2
<1>4. f.at \in {"nth_right", "nth_deep"} => heap'[f.tree] = heap[f.tree]
  BY <1>1, <1>2 DEF Holding
<1>5. f.at = "nth_right" => heap'[f.own[1]].type # "BINARY_OP"
  <2>1. CASE f.at = "nth_right" /\ f.own[1] # t
    BY <1>1, <1>2, <2>1 DEF Settled
  <2>2. CASE f.at = "nth_right" /\ f.own[1] = t
    <3>1. Top.at \in Atomic
      BY <1>1, <2>2 DEF Nests
    <3>2. Top.at \notin {"nth_right", "nth_deep"}
      BY <3>1 DEF Atomic
    <3> QED
      BY <1>1, <1>f, <2>2, <3>2 DEF Settled
  <2> QED
    BY <2>1, <2>2
<1>6. Settled(heap', f)
  BY <1>1, <1>3, <1>4, <1>5 DEF Settled
<1> QED
  BY <1>6, <1>f

LEMMA LowerExpects ==
  ASSUME Climbing, NEW i \in 1 .. Len(stack) - 1,
         Top.at \in Atomic \union Chaining => Keeps
  PROVE  Expects(tokens, pos', stack[i])
<1>f. PICK f : f = stack[i]
  OBVIOUS
<1>1. f.at \notin Working /\ Nests(f, Top) /\ Expects(tokens, pos, f)
  BY <1>f, LowerFrame
<1>2. CASE f.at \in Chaining
  <2>1. f.at \in {"nth_right", "nth_deep"}
    BY <1>1, <1>2 DEF Chaining, Working
  <2>2. Keeps
    BY <1>1, <2>1 DEF Nests
  <2> QED
    BY <1>1, <1>f, <2>2, ExpectsKept DEF Keeps
<1>3. CASE f.at \notin Chaining
  <2>1. Expects(tokens, pos', f)
    BY <1>3 DEF Expects, Chaining
  <2> QED
    BY <1>f, <2>1
<1> QED
  BY <1>2, <1>3

(* A step that makes no operator node. *)
Calm ==
  /\ Local
  /\ heap'[Top.tree].type # "BINARY_OP" \/ heap'[Top.tree] = heap[Top.tree]
  /\ \A m \in DOMAIN heap' : m \notin DOMAIN heap => heap'[m].type # "BINARY_OP"

LEMMA CalmNodes ==
  ASSUME Climbing, Calm, NEW busy,
         \A m \in busy : m \in TreesOf(stack) \/ m \notin DOMAIN heap
  PROVE  \A m \in DOMAIN heap' : NodeClimbs(heap', heap'[m], busy)
<1> SUFFICES ASSUME NEW m \in DOMAIN heap', heap'[m].type = "BINARY_OP"
             PROVE  NodeClimbs(heap', heap'[m], busy)
  BY DEF NodeClimbs
<1>1. /\ DOMAIN heap = 1 .. Len(heap) /\ DOMAIN heap \subseteq DOMAIN heap'
      /\ \A k \in DOMAIN heap : k # Top.tree => heap'[k] = heap[k]
  <2>1. PICK p, q : p = Len(heap) /\ q = Len(heap')
    OBVIOUS
  <2>2. p \in Nat /\ DOMAIN heap = 1 .. p
    BY <2>1, HeapIs DEF Climbing
  <2>3. /\ q \in Nat /\ p <= q /\ DOMAIN heap' = 1 .. q
        /\ \A k \in 1 .. p : k # Top.tree => heap'[k] = heap[k]
    BY <2>1 DEF Calm, Local
  <2> QED
    BY <2>1, <2>2, <2>3
<1>2. m \in DOMAIN heap /\ heap'[m] = heap[m]
  BY <1>1 DEF Calm
<1>3. PICK x : x = heap[m]
  OBVIOUS
<1>4. /\ \A k \in {1, 2} : x.kids[k] \in DOMAIN heap /\ x.kids[k] \notin TreesOf(stack)
      /\ Grade(heap[x.kids[1]]) >= Grade(x) /\ Grade(heap[x.kids[2]]) > Grade(x)
  BY <1>2, <1>3 DEF Climbing, ClimbInv, NodeClimbs
<1>5. Top.tree \in TreesOf(stack)
  BY StackBase DEF Climbing, TreesOf
<1>6. /\ \A k \in {1, 2} : x.kids[k] \in DOMAIN heap' /\ x.kids[k] \notin busy
      /\ heap'[x.kids[1]] = heap[x.kids[1]] /\ heap'[x.kids[2]] = heap[x.kids[2]]
  BY <1>1, <1>4, <1>5
<1> QED
  BY <1>2, <1>3, <1>4, <1>6 DEF NodeClimbs

(* What the frames a step leaves on top have to satisfy. *)
Goes(f) ==
  /\ Top.at \in Atomic => f.at \in Atomic
  /\ Top.at \in Chaining => f.at \in Chaining /\ f.tree = Top.tree /\ f.num = Top.num
StandsOn(f) ==
  /\ Top.at \in Atomic => f.at \in Atomic
  /\ Top.at \in Chaining => f.at \in Atomic \union Chaining
Fits(f) == Settled(heap', f) /\ Expects(tokens, pos', f)

LEMMA NestsGo ==
  ASSUME NEW i \in DOMAIN stack, Nests(stack[i], Top), NEW f, StandsOn(f)
  PROVE  Nests(stack[i], f)
  BY DEF Nests, StandsOn

LEMMA InsideGo ==
  ASSUME NEW i \in DOMAIN stack, Inside(stack[i], Top), NEW f, Goes(f)
  PROVE  Inside(stack[i], f)
  BY DEF Inside, Goes

(* ClimbInv after a step, from what the step leaves. *)
LEMMA ClimbFrames ==
  ASSUME Climbing, tokens' = tokens, NEW m,
         m \in {Len(stack) - 1, Len(stack), Len(stack) + 1}, DOMAIN stack' = 1 .. m,
         \A i \in 1 .. Len(stack) - 1 : stack'[i] = stack[i],
         \A i \in 1 .. Len(stack) - 1 : Fits(stack[i]),
         \A i \in DOMAIN stack' : i >= Len(stack) => Fits(stack'[i]) /\ StandsOn(stack'[i]),
         Len(stack) \in DOMAIN stack' => Goes(stack'[Len(stack)]),
         Len(stack) + 1 \in DOMAIN stack' =>
           /\ Nests(stack'[Len(stack)], stack'[Len(stack) + 1])
           /\ Inside(stack'[Len(stack)], stack'[Len(stack) + 1]),
         m # 0 => Facing(heap', stack'[m], Cur'),
         \A k \in DOMAIN heap' : NodeClimbs(heap', heap'[k], TreesOf(stack'))
  PROVE  ClimbInv'
<1>n. PICK n : n = Len(stack)
  OBVIOUS
<1>1. /\ n \in Nat \ {0} /\ DOMAIN stack = 1 .. n /\ Top = stack[n] /\ n \in DOMAIN stack
      /\ \A i \in 1 .. n - 1 : i \in 1 .. n /\ i < n
  BY <1>n, StackBase, Upto DEF Climbing
<1>2. m \in {n - 1, n, n + 1} /\ DOMAIN stack' = 1 .. m
      /\ \A i \in DOMAIN stack' : i \in 1 .. n - 1 \/ i = n \/ i = n + 1
  BY <1>1, <1>n
<1>3. Len(stack') = m
  <2>1. /\ Len(stack') = n - 1 => n - 1 = m
        /\ DOMAIN stack' = 1 .. Len(stack')
    BY <1>1, <1>2
  <2> QED
    BY <1>1, <1>2, <2>1
<1>4. \A i \in DOMAIN stack' : Fits(stack'[i])
  BY <1>1, <1>2, <1>n
<1>5. \A i, j \in DOMAIN stack' : i < j => Nests(stack'[i], stack'[j])
  <2> SUFFICES ASSUME NEW i \in DOMAIN stack', NEW j \in DOMAIN stack', i < j
               PROVE  Nests(stack'[i], stack'[j])
    OBVIOUS
  <2>1. CASE j \in 1 .. n - 1
    <3>1. i \in 1 .. n - 1
      BY <1>1, <1>2, <2>1
    <3> QED
      BY <1>1, <1>n, <2>1, <3>1 DEF Climbing, ClimbInv
  <2>2. CASE j \notin 1 .. n - 1 /\ i \in 1 .. n - 1
    <3>1. j >= n
      BY <1>1, <1>2, <2>2
    <3>2. StandsOn(stack'[j]) /\ stack'[i] = stack[i] /\ Nests(stack[i], Top)
      BY <1>1, <1>n, <2>2, <3>1 DEF Climbing, ClimbInv
    <3> QED
      BY <1>1, <2>2, <3>2, NestsGo
  <2>3. CASE j \notin 1 .. n - 1 /\ i \notin 1 .. n - 1
    <3>1. i = n /\ j = n + 1
      BY <1>1, <1>2, <2>3
    <3> QED
      BY <1>n, <3>1
  <2> QED
    BY <2>1, <2>2, <2>3
<1>6. \A i \in DOMAIN stack' : i + 1 \in DOMAIN stack' => Inside(stack'[i], stack'[i + 1])
  <2> SUFFICES ASSUME NEW i \in DOMAIN stack', i + 1 \in DOMAIN stack'
               PROVE  Inside(stack'[i], stack'[i + 1])
    OBVIOUS
  <2>1. i \in 1 .. n /\ (i = n \/ i + 1 = n \/ i + 1 \in 1 .. n - 1)
    BY <1>1, <1>2
  <2>2. CASE i = n
    BY <1>n, <2>2
  <2>3. CASE i # n
    <3>1. i \in 1 .. n - 1 /\ i \in DOMAIN stack /\ i + 1 \in DOMAIN stack
      BY <1>1, <2>1, <2>3
    <3>2. Inside(stack[i], stack[i + 1]) /\ stack'[i] = stack[i]
      BY <1>n, <3>1 DEF Climbing, ClimbInv
    <3>3. CASE i + 1 = n
      BY <1>1, <1>n, <3>1, <3>2, <3>3, InsideGo
    <3>4. CASE i + 1 # n
      <4>1. stack'[i + 1] = stack[i + 1]
        BY <1>n, <2>1, <2>3, <3>4
      <4> QED
        BY <3>2, <4>1
    <3> QED
      BY <3>3, <3>4
  <2> QED
    BY <2>2, <2>3
<1>7. stack' # <<>> => Facing(heap, Top, Cur)'
  <2> SUFFICES ASSUME stack' # <<>> PROVE Facing(heap, Top, Cur)'
    OBVIOUS
  <2>1. m # 0
    BY <1>1, <1>2, <1>3
  <2>2. Top' = stack'[m]
    BY <1>3 DEF Top
  <2> QED
    BY <2>1, <2>2 DEF Facing
<1> QED
  BY <1>4, <1>5, <1>6, <1>7 DEF ClimbInv, Fits, Settled, Expects, Nests, Inside, NodeClimbs, TreesOf

-----------------------------------------------------------------------------
(* ClimbInv, by how a step that makes no operator node ends. *)

LEMMA LowerFits ==
  ASSUME Climbing, Calm, Top.at \in Atomic \union Chaining => Keeps
  PROVE  \A i \in 1 .. Len(stack) - 1 : Fits(stack[i])
  BY LowerSettled, LowerExpects DEF Calm, Fits

(* What a function that goes on, or is called, may have for its node. *)
OwnOrNew(t) == t = Top.tree \/ t \notin DOMAIN heap

LEMMA BusyTrees ==
  ASSUME Climbing, \A i \in 1 .. Len(stack) - 1 : i \in DOMAIN stack' => stack'[i] = stack[i],
         \A i \in DOMAIN stack' : i \in 1 .. Len(stack) - 1 \/ OwnOrNew(stack'[i].tree)
  PROVE  \A t \in TreesOf(stack') : t \in TreesOf(stack) \/ t \notin DOMAIN heap
<1> SUFFICES ASSUME NEW i \in DOMAIN stack'
             PROVE  stack'[i].tree \in TreesOf(stack) \/ stack'[i].tree \notin DOMAIN heap
  BY DEF TreesOf
<1>1. Top.tree \in TreesOf(stack) /\ \A j \in 1 .. Len(stack) - 1 : stack[j].tree \in TreesOf(stack)
  BY StackBase DEF Climbing, TreesOf
<1> QED
  BY <1>1 DEF OwnOrNew

LEMMA CalmReturn ==
  ASSUME Climbing, Calm, Top.at \in Atomic \union Chaining => Keeps,
         stack' = Below, tokens' = tokens,
         Len(stack) # 1 => Facing(heap', stack[Len(stack) - 1], Cur')
  PROVE  ClimbInv'
<1>n. PICK n : n = Len(stack)
  OBVIOUS
<1>1. n \in Nat \ {0} /\ DOMAIN stack' = 1 .. n - 1 /\ \A i \in 1 .. n - 1 : stack'[i] = stack[i]
  BY <1>n, StackIs DEF Climbing
<1>2. \A i \in DOMAIN stack' : ~(i >= n) /\ i \in 1 .. n - 1
  BY <1>1
<1>3. n \notin DOMAIN stack' /\ n + 1 \notin DOMAIN stack'
  BY <1>1
<1>4. \A t \in TreesOf(stack') : t \in TreesOf(stack) \/ t \notin DOMAIN heap
  BY <1>1, <1>2, <1>n, BusyTrees
<1>5. \A k \in DOMAIN heap' : NodeClimbs(heap', heap'[k], TreesOf(stack'))
  BY <1>4, CalmNodes
<1>6. n - 1 # 0 => Facing(heap', stack'[n - 1], Cur')
  <2>1. n - 1 # 0 => n # 1 /\ n - 1 \in 1 .. n - 1
    BY <1>1
  <2> QED
    BY <1>1, <1>n, <2>1
<1>7. n - 1 \in {n - 1, n, n + 1}
  OBVIOUS
<1> QED
  BY <1>1, <1>2, <1>3, <1>5, <1>6, <1>7, <1>n, LowerFits, ClimbFrames

LEMMA CalmGoOn ==
  ASSUME Climbing, Calm, Top.at \in Atomic \union Chaining => Keeps,
         NEW f, GoOn(f), Fits(f), Goes(f), OwnOrNew(f.tree), Facing(heap', f, Cur')
  PROVE  ClimbInv'
<1>n. PICK n : n = Len(stack)
  OBVIOUS
<1>1. /\ n \in Nat \ {0} /\ DOMAIN stack' = 1 .. n /\ stack'[n] = f /\ tokens' = tokens
      /\ \A i \in 1 .. n : i < n => stack'[i] = stack[i]
  BY <1>n, StackIs DEF Climbing
<1>2. \A i \in 1 .. n - 1 : i \in 1 .. n /\ i < n /\ stack'[i] = stack[i]
  BY <1>1
<1>3. \A i \in DOMAIN stack' : (i >= n => i = n) /\ (i \in 1 .. n - 1 \/ i = n)
  BY <1>1
<1>4. n + 1 \notin DOMAIN stack' /\ n \in DOMAIN stack' /\ n \in {n - 1, n, n + 1} /\ n # 0
  BY <1>1
<1>5. \A t \in TreesOf(stack') : t \in TreesOf(stack) \/ t \notin DOMAIN heap
  BY <1>1, <1>2, <1>3, <1>n, BusyTrees
<1>6. \A k \in DOMAIN heap' : NodeClimbs(heap', heap'[k], TreesOf(stack'))
  BY <1>5, CalmNodes
<1>7. StandsOn(f)
  BY DEF Goes, StandsOn
<1> QED
  BY <1>1, <1>2, <1>3, <1>4, <1>6, <1>7, <1>n, LowerFits, ClimbFrames

LEMMA CalmCall ==
  ASSUME Climbing, Calm, Top.at \in Atomic \union Chaining => Keeps,
         NEW f, NEW g, Call(f, g), Fits(f), Fits(g), Goes(f), StandsOn(g), Nests(f, g), Inside(f, g),
         Facing(heap', g, Cur'), OwnOrNew(f.tree),
         \A k \in DOMAIN heap' : NodeClimbs(heap', heap'[k], TreesOf(stack) \union {f.tree, g.tree})
  PROVE  ClimbInv'
<1>n. PICK n : n = Len(stack)
  OBVIOUS
<1>1. /\ n \in Nat \ {0} /\ DOMAIN stack' = 1 .. n + 1 /\ stack'[n] = f /\ stack'[n + 1] = g
      /\ \A i \in 1 .. n : i < n => stack'[i] = stack[i]
      /\ tokens' = tokens /\ DOMAIN stack = 1 .. n
  BY <1>n, StackIs DEF Climbing
<1>2. \A i \in 1 .. n - 1 : i \in 1 .. n /\ i < n /\ stack'[i] = stack[i]
  BY <1>1
<1>3. \A i \in DOMAIN stack' : (i >= n => i = n \/ i = n + 1) /\ (i \in 1 .. n - 1 \/ i = n \/ i = n + 1)
  BY <1>1
<1>4. n + 1 \in DOMAIN stack' /\ n \in DOMAIN stack' /\ n + 1 \in {n - 1, n, n + 1} /\ n + 1 # 0
  BY <1>1
<1>5. TreesOf(stack') \subseteq TreesOf(stack) \union {f.tree, g.tree}
  <2> SUFFICES ASSUME NEW i \in DOMAIN stack'
               PROVE  stack'[i].tree \in TreesOf(stack) \union {f.tree, g.tree}
    BY DEF TreesOf
  <2>1. CASE i \in 1 .. n - 1
    BY <1>1, <1>2, <2>1 DEF TreesOf
  <2> QED
    BY <1>1, <1>3, <2>1
<1>6. \A k \in DOMAIN heap' : NodeClimbs(heap', heap'[k], TreesOf(stack'))
  BY <1>5 DEF NodeClimbs
<1>7. StandsOn(f)
  BY DEF Goes, StandsOn
<1> QED
  BY <1>1, <1>2, <1>3, <1>4, <1>6, <1>7, <1>n, LowerFits, ClimbFrames

(* Outside the loop over operators it is a matter of the labels.           *)
Eases(f) ==
  /\ f.at \in Tame \union Passing /\ OwnOrNew(f.tree) /\ Top.at \notin Passing
  /\ Top.at \in Atomic => f.at \in Atomic

TreesFit == \A i \in DOMAIN stack : stack[i].tree \in DOMAIN heap

LEMMA TreesFitNext == ParserInv' => TreesFit'
<1>1. ParserInv => TreesFit
  <2> DEFINE S == GoodFrames(Len(heap))
  <2> SUFFICES ASSUME ParserInv, NEW i \in DOMAIN stack PROVE stack[i].tree \in DOMAIN heap
    BY DEF TreesFit
  <2>1. stack \in Seq(S) /\ DOMAIN heap = 1 .. Len(heap)
    BY DEF ParserInv
  <2>2. stack[i] \in S
    <3> HIDE DEF S
    <3> QED
      BY <2>1, ElementOfSeq
  <2> QED
    BY <2>1, <2>2 DEF GoodFrames, Frames
<1> QED
  BY <1>1, PTL

LEMMA TreesExist ==
  ASSUME ParserInv, stack # <<>>, ParserInv'
  PROVE  /\ \A f : GoOn(f) => f.tree \in DOMAIN heap'
         /\ \A f, g : Call(f, g) => f.tree \in DOMAIN heap' /\ g.tree \in DOMAIN heap'
<1>1. \A i \in DOMAIN stack' : stack'[i].tree \in DOMAIN heap'
  BY TreesFitNext DEF TreesFit
<1>2. ASSUME NEW f, GoOn(f) PROVE f.tree \in DOMAIN heap'
  <2>1. PICK n : n = Len(stack)
    OBVIOUS
  <2>2. n \in DOMAIN stack' /\ stack'[n] = f
    BY <1>2, <2>1, Innermost
  <2> QED
    BY <1>1, <2>2
<1>3. ASSUME NEW f, NEW g, Call(f, g) PROVE f.tree \in DOMAIN heap' /\ g.tree \in DOMAIN heap'
  <2>1. PICK n : n = Len(stack)
    OBVIOUS
  <2>2. /\ n \in Nat \ {0} /\ DOMAIN stack' = 1 .. n + 1 /\ stack'[n] = f /\ stack'[n + 1] = g
    BY <1>3, <2>1, StackIs
  <2>3. n \in 1 .. n + 1 /\ n + 1 \in 1 .. n + 1
    BY <2>2
  <2> QED
    BY <1>1, <2>2, <2>3
<1> QED
  BY <1>2, <1>3

LEMMA EasesFits ==
  ASSUME Climbing, Calm, Top.at \notin Chaining, NEW f, Eases(f), f.tree \in DOMAIN heap'
  PROVE  Fits(f) /\ \A c : Facing(heap', f, c)
<1>1. f.at \notin Chaining /\ f.at # "paren"
  BY DEF Eases, Tame, Chaining, Passing
<1>2. f.at \in Tame => heap'[f.tree].type # "BINARY_OP"
  <2>1. Settled(heap, Top) /\ Top.at \in Labels
    BY StackBase, TopTyped DEF Climbing, ClimbInv
  <2>2. Top.at \in Tame
    BY <2>1 DEF Eases, Settled, Tame
  <2>3. heap[Top.tree].type # "BINARY_OP"
    BY <2>1, <2>2 DEF Settled
  <2>4. heap'[Top.tree].type # "BINARY_OP"
    BY <2>3 DEF Calm
  <2> QED
    BY <2>4 DEF Calm, Eases, OwnOrNew
<1> QED
  BY <1>1, <1>2 DEF Fits, Settled, Expects, Facing, Chaining

LEMMA PlainClimb ==
  ASSUME Climbing, Calm, ParserInv', tokens' = tokens, Top.at \notin Chaining,
         Top.at \in Atomic => Keeps,
         \/ stack' = Below
         \/ \E f : GoOn(f) /\ Eases(f)
         \/ \E f, g : /\ Call(f, g) /\ Eases(f) /\ Eases(g)
                      /\ f.at \in Atomic \union {"expr_ops"} => g.at \in Atomic
  PROVE  ClimbInv'
<1>1. Top.at \in Atomic \union Chaining => Keeps
  OBVIOUS
<1>2. CASE stack' = Below
  <2>1. ASSUME Len(stack) # 1 PROVE Facing(heap', stack[Len(stack) - 1], Cur')
    <3>1. PICK n : n = Len(stack)
      OBVIOUS
    <3>2. n \in Nat \ {0} /\ n # 1 /\ Top = stack[n] /\ DOMAIN stack = 1 .. n
      BY <2>1, <3>1, StackBase DEF Climbing
    <3>3. n - 1 \in 1 .. n - 1 /\ n - 1 \in 1 .. n /\ (n - 1) + 1 = n /\ n \in 1 .. n
      BY <3>2
    <3>4. stack[n - 1].at \notin Working
      BY <3>1, <3>3, LowerFrame
    <3>5. Inside(stack[n - 1], Top)
      BY <3>2, <3>3 DEF Climbing, ClimbInv
    <3> QED
      BY <3>1, <3>4, <3>5 DEF Facing, Inside, Working
  <2> QED
    BY <1>1, <1>2, <2>1, CalmReturn
<1>3. CASE \E f : GoOn(f) /\ Eases(f)
  <2>1. PICK f : GoOn(f) /\ Eases(f)
    BY <1>3
  <2>2. Fits(f) /\ Facing(heap', f, Cur')
    BY <2>1, TreesExist, EasesFits DEF Climbing
  <2>3. Goes(f) /\ OwnOrNew(f.tree)
    BY <2>1 DEF Goes, Eases
  <2> QED
    BY <1>1, <2>1, <2>2, <2>3, CalmGoOn
<1>4. CASE \E f, g : /\ Call(f, g) /\ Eases(f) /\ Eases(g)
                     /\ f.at \in Atomic \union {"expr_ops"} => g.at \in Atomic
  <2>1. PICK f, g : /\ Call(f, g) /\ Eases(f) /\ Eases(g)
                    /\ f.at \in Atomic \union {"expr_ops"} => g.at \in Atomic
    BY <1>4
  <2>2. Fits(f) /\ Fits(g) /\ Facing(heap', g, Cur')
    BY <2>1, TreesExist, EasesFits DEF Climbing
  <2>3. Goes(f) /\ OwnOrNew(f.tree) /\ StandsOn(g) /\ OwnOrNew(g.tree) /\ f.at \notin Chaining
    BY <2>1 DEF Goes, StandsOn, Eases, Tame, Chaining, Passing
  <2>4. Nests(f, g) /\ Inside(f, g)
    BY <2>1, <2>3 DEF Nests, Inside, Chaining
  <2>5. \A t \in TreesOf(stack) \union {f.tree, g.tree} : t \in TreesOf(stack) \/ t \notin DOMAIN heap
    <3>1. Top.tree \in TreesOf(stack)
      BY StackBase DEF Climbing, TreesOf
    <3> QED
      BY <2>3, <3>1 DEF OwnOrNew
  <2>6. \A k \in DOMAIN heap' : NodeClimbs(heap', heap'[k], TreesOf(stack) \union {f.tree, g.tree})
    BY <2>5, CalmNodes
  <2> QED
    BY <1>1, <2>1, <2>2, <2>3, <2>4, <2>6, CalmCall
<1> QED
  BY <1>2, <1>3, <1>4

(* What makes a step calm. *)
LEMMA CalmIf ==
  ASSUME ParserInv, stack # <<>>, NEW x, x.type # "BINARY_OP" \/ x = heap[Top.tree],
         heap' = heap \/ heap' = Write(Top.tree, x) \/ heap' = Append(Write(Top.tree, x), Fresh)
  PROVE  Calm
<1>1. Fresh.type # "BINARY_OP"
  BY DEF Fresh, Node
<1> QED
  BY <1>1, LocalIs DEF Calm

LEMMA FreeIs ==
  ASSUME ParserInv
  PROVE  OwnOrNew(Top.tree) /\ OwnOrNew(New1) /\ OwnOrNew(New2)
<1>1. DOMAIN heap = 1 .. Len(heap) /\ Len(heap) \in Nat
  BY DEF ParserInv
<1> QED
  BY <1>1 DEF OwnOrNew, New1, New2

-----------------------------------------------------------------------------
(* The steps outside the loop over operators. *)

LEMMA TypeIs ==
  ASSUME NEW type, NEW held, NEW code, NEW kids
  PROVE  Node(type, held, code, kids).type = type
  BY DEF Node

LEMMA SmallAtomClimb ==
  ASSUME Climbing, ParserInv', NoParen', SmallAtomStep
  PROVE  ClimbInv'
<1>a. ParserInv /\ stack # <<>> /\ pos \in Nat /\ Len(tokens) \in Nat
  BY Tokens_ DEF Climbing
<1>1. CASE SmallAtomLeaf
  <2>1. /\ Top.at = "small_atom" /\ stack' = Below /\ tokens' = tokens /\ pos' = pos + 1
        /\ Cur \notin {"SEMICOLON", "END"}
    BY <1>1 DEF SmallAtomLeaf, Return, Advance, At
  <2>2. PICK type : type # "BINARY_OP" /\ heap' = Write(Top.tree, Node(type, pos + 1, Unset, <<>>))
    BY <1>1 DEF SmallAtomLeaf
  <2>3. Calm
    BY <1>a, <2>2, TypeIs, CalmIf
  <2> QED
    BY <1>a, <2>1, <2>3, KeepsIf, PlainClimb DEF Chaining
<1>2. CASE SmallAtomParen
  <2>1. Cur = "LPAREN" /\ pos' = pos + 1 /\ tokens' = tokens
    BY <1>2 DEF SmallAtomParen, Advance, Call
  <2>2. tokens[pos + 1] = "LPAREN" /\ pos + 1 \in 1 .. pos + 1
    BY <1>a, <2>1 DEF Cur
  <2> QED
    BY <2>1, <2>2 DEF NoParen
<1>3. CASE ParenEnd
  <2>1. Settled(heap, Top) /\ Top.at = "paren"
    BY <1>3, StackBase DEF ParenEnd, At, Climbing, ClimbInv
  <2> QED
    BY <2>1 DEF Settled
<1>4. CASE SmallAtomPrefix
  <2> DEFINE x(type) == Node(type, 0, Unset, <<New1>>)
             f == Resume("prefix")
             g == Frame("atom", New1)
  <2>1. /\ Top.at = "small_atom" /\ Call(f, g) /\ tokens' = tokens /\ pos' = pos + 1
        /\ Cur \notin {"SEMICOLON", "END"}
    BY <1>4 DEF SmallAtomPrefix, PrefixBegins, Call, Advance, At
  <2>2. PICK type : type # "BINARY_OP" /\ heap' = Append(Write(Top.tree, x(type)), Fresh)
    BY <1>4 DEF SmallAtomPrefix
  <2>3. f.at = "prefix" /\ f.tree = Top.tree /\ g.at = "atom" /\ g.tree = New1
    BY <1>a, ResumeIs, FrameIs
  <2> HIDE DEF f, g
  <2>4. Calm
    BY <1>a, <2>2, TypeIs, CalmIf
  <2>5. Eases(f) /\ Eases(g) /\ g.at \in Atomic
    BY <1>a, <2>1, <2>3, FreeIs DEF Eases, Tame, Labels, Chaining, Passing, Atomic
  <2>6. Keeps
    BY <1>a, <2>1, KeepsIf
  <2> QED
    BY <2>1, <2>4, <2>5, <2>6, PlainClimb DEF Chaining
<1>5. CASE PrefixEnd \/ SmallAtomFail
  <2>1. /\ Top.at \in {"prefix", "small_atom"} /\ stack' = Below /\ tokens' = tokens
        /\ pos' = pos /\ heap' = heap
    BY <1>5 DEF PrefixEnd, SmallAtomFail, Return, At
  <2>2. Calm
    BY <1>a, <2>1, CalmIf
  <2> QED
    BY <1>a, <2>1, <2>2, KeepsIf, PlainClimb DEF Chaining
<1> QED
  BY <1>1, <1>2, <1>3, <1>4, <1>5 DEF SmallAtomStep

LEMMA AtomClimb ==
  ASSUME Climbing, ParserInv', AtomStep
  PROVE  ClimbInv'
<1>a. ParserInv /\ stack # <<>>
  BY DEF Climbing
<1>1. CASE Atom
  <2> DEFINE f == Resume("suffix")
             g == Frame("small_atom", Top.tree)
  <2>1. Top.at = "atom" /\ Call(f, g) /\ tokens' = tokens /\ pos' = pos /\ heap' = heap
    BY <1>1 DEF Atom, Call, At
  <2>2. f.at = "suffix" /\ f.tree = Top.tree /\ g.at = "small_atom" /\ g.tree = Top.tree
    BY <1>a, ResumeIs, FrameIs
  <2> HIDE DEF f, g
  <2>3. Calm
    BY <1>a, <2>1, CalmIf
  <2>4. Eases(f) /\ Eases(g) /\ g.at \in Atomic
    BY <1>a, <2>1, <2>2, FreeIs DEF Eases, Tame, Labels, Chaining, Passing, Atomic
  <2>5. Keeps
    BY <1>a, <2>1, KeepsIf
  <2> QED
    BY <2>1, <2>3, <2>4, <2>5, PlainClimb DEF Chaining
<1>2. CASE AtomEnd
  <2>1. /\ Top.at = "suffix" /\ stack' = Below /\ tokens' = tokens
        /\ pos' = pos /\ heap' = heap
    BY <1>2 DEF AtomEnd, Return, At
  <2>2. Calm
    BY <1>a, <2>1, CalmIf
  <2> QED
    BY <1>a, <2>1, <2>2, KeepsIf, PlainClimb DEF Chaining
<1>3. CASE AtomTrail
  <2> DEFINE f == [Resume("trail") EXCEPT !.own = <<New1, New2>>, !.op = Cur]
             g == Frame("atom", New2)
  <2>1. /\ Call(f, g) /\ Top.at = "suffix" /\ tokens' = tokens /\ pos' = pos + 1
        /\ Cur \notin {"SEMICOLON", "END"}
    BY <1>3 DEF AtomTrail, At, Call, Advance
  <2>2. f.at = "trail" /\ f.tree = Top.tree /\ g.at = "atom" /\ g.tree = New2
    <3>1. Top \in Frames(Len(heap))
      BY <1>a, TopTyped DEF GoodFrames
    <3> QED
      BY <3>1, FrameIs DEF Resume, Frames
  <2> HIDE DEF f, g
  <2>4. PICK n, x : n = Len(heap) /\ x = heap[Top.tree]
    OBVIOUS
  <2>5. n \in Nat /\ heap \in Seq(Nodes(n)) /\ x \in Nodes(n) /\ heap' = heap \o <<x, Fresh>>
    BY <1>3, <1>a, <2>4, TopTyped DEF AtomTrail, ParserInv
  <2>6. /\ Len(heap') = n + 2 /\ DOMAIN heap' = 1 .. n + 2 /\ DOMAIN heap = 1 .. n
        /\ heap'[n + 1] = x /\ heap'[n + 2] = Fresh
        /\ \A m \in 1 .. n : heap'[m] = heap[m]
    <3>1. PICK N : N = Nodes(n) \union {Fresh}
      OBVIOUS
    <3>2. heap \in Seq(N) /\ x \in N /\ Fresh \in N
      BY <2>5, <3>1
    <3> QED
      BY <2>4, <2>5, <3>2
  <2>7. Local
    BY <2>4, <2>5, <2>6 DEF Local
  <2>8. Top.tree \in 1 .. n
    BY <1>a, <2>4, HeapIs
  <2>9. x.type # "BINARY_OP" /\ Fresh.type # "BINARY_OP"
    <3>1. Settled(heap, Top)
      BY StackBase DEF Climbing, ClimbInv
    <3> QED
      BY <2>1, <2>4, <3>1 DEF Settled, Tame, Labels, Chaining, Passing, Fresh, Node
  <2>10. \A m \in 1 .. n + 2 : m \in 1 .. n \/ m = n + 1 \/ m = n + 2
    BY <2>5
  <2>11. Calm
    BY <2>6, <2>7, <2>8, <2>9, <2>10 DEF Calm
  <2>12. Eases(f) /\ Eases(g) /\ g.at \in Atomic
    BY <1>a, <2>1, <2>2, FreeIs DEF Eases, Tame, Labels, Chaining, Passing, Atomic
  <2>13. Keeps
    BY <1>a, <2>1, KeepsIf
  <2> QED
    BY <2>1, <2>11, <2>12, <2>13, PlainClimb DEF Chaining
<1>4. CASE TrailEnd
  <2>1. Top.at = "trail" /\ stack' = Below /\ tokens' = tokens /\ pos' = pos
    BY <1>4 DEF TrailEnd, Return, At
  <2>2. PICK kind : heap' = Write(Top.tree, Node("TYPE_TRAIL", 0, kind, Top.own))
    BY <1>4 DEF TrailEnd
  <2>3. Calm
    BY <1>a, <2>2, TypeIs, CalmIf
  <2> QED
    BY <1>a, <2>1, <2>3, KeepsIf, PlainClimb DEF Chaining
<1> QED
  BY <1>1, <1>2, <1>3, <1>4 DEF AtomStep

(* The functions of statements and blocks: what each writes is no          *)
(* operator, and they stand below no operator.                             *)
Outer == Tame \ (Atomic \union {"expr_ops"})

LEMMA OuterTop ==
  ASSUME Climbing, Top.at \in Outer
  PROVE  /\ heap[Top.tree] \in Nodes(Len(heap)) /\ heap[Top.tree].type # "BINARY_OP"
         /\ Top.at \notin Chaining /\ Top.at \notin Atomic /\ Top.at \notin Passing
<1>1. Settled(heap, Top)
  BY StackBase DEF Climbing, ClimbInv
<1> QED
  BY <1>1, TopTyped DEF Climbing, Settled, Outer, Tame

(* Such a function writes x, and goes on as f, calls g or returns. *)
LEMMA OuterClimb ==
  ASSUME Climbing, ParserInv', tokens' = tokens, Top.at \in Outer,
         NEW x, x.type # "BINARY_OP" \/ x = heap[Top.tree],
         heap' = heap \/ heap' = Write(Top.tree, x) \/ heap' = Append(Write(Top.tree, x), Fresh),
         \/ stack' = Below
         \/ \E f : GoOn(f) /\ f.at \in Outer /\ f.tree \in {Top.tree, New1}
         \/ \E f, g : /\ Call(f, g) /\ f.at \in Outer \union Passing /\ f.tree = Top.tree
                      /\ g.at \in Outer \union {"atom"} /\ g.tree \in {Top.tree, New1}
  PROVE  ClimbInv'
<1>1. Calm
  BY CalmIf DEF Climbing
<1>2. Top.at \notin Chaining /\ Top.at \notin Atomic /\ Top.at \notin Passing
  BY OuterTop
<1>3. OwnOrNew(Top.tree) /\ OwnOrNew(New1)
  BY FreeIs DEF Climbing
<1>4. ASSUME NEW f, f.at \in Outer \union Passing \union {"atom"}, f.tree \in {Top.tree, New1}
      PROVE  Eases(f)
  BY <1>2, <1>3, <1>4 DEF Eases, Outer, Tame, Labels, Chaining, Passing
<1>5. CASE stack' = Below
  BY <1>1, <1>2, <1>5, PlainClimb
<1>6. CASE \E f : GoOn(f) /\ f.at \in Outer /\ f.tree \in {Top.tree, New1}
  <2>1. \E f : GoOn(f) /\ Eases(f)
    BY <1>4, <1>6
  <2> QED
    BY <1>1, <1>2, <2>1, PlainClimb
<1>7. CASE \E f, g : /\ Call(f, g) /\ f.at \in Outer \union Passing /\ f.tree = Top.tree
                     /\ g.at \in Outer \union {"atom"} /\ g.tree \in {Top.tree, New1}
  <2>1. PICK f, g : /\ Call(f, g) /\ f.at \in Outer \union Passing /\ f.tree = Top.tree
                    /\ g.at \in Outer \union {"atom"} /\ g.tree \in {Top.tree, New1}
    BY <1>7
  <2>2. Eases(f) /\ Eases(g)
    BY <1>4, <2>1
  <2>3. f.at \notin Atomic \union {"expr_ops"}
    BY <2>1 DEF Outer, Atomic, Passing
  <2> QED
    BY <1>1, <1>2, <2>1, <2>2, <2>3, PlainClimb
<1> QED
  BY <1>5, <1>6, <1>7

LEMMA OuterLabels ==
  /\ {"expr", "stmt", "assign", "let_name", "if_cond", "for", "block", "stmts", "stmts_next"}
       \subseteq Outer
  /\ {"stmt_end", "tail"} \subseteq Passing
  BY DEF Outer, Tame, Labels, Chaining, Atomic, Passing

LEMMA BeginClimb ==
  ASSUME Climbing, ParserInv', Top.at = "stmt",
         NEW type, type # "BINARY_OP", NEW code, NEW kids,
         NEW label \in Outer \union Passing, NEW part \in Outer \union {"atom"},
         Begin(type, code, kids, label, part)
  PROVE  ClimbInv'
<1> DEFINE f == Resume(label)
           g == Frame(part, New1)
<1>1. /\ heap' = Append(Write(Top.tree, Node(type, 0, code, kids)), Fresh)
      /\ Call(f, g) /\ tokens' = tokens
  BY DEF Begin, Call
<1>2. f.at = label /\ f.tree = Top.tree /\ g.at = part /\ g.tree = New1
  BY ResumeIs, FrameIs DEF Climbing
<1> HIDE DEF f, g
<1> QED
  BY <1>1, <1>2, TypeIs, OuterLabels, OuterClimb

LEMMA StatementClimb ==
  ASSUME Climbing, ParserInv', StatementStep
  PROVE  ClimbInv'
<1>a. ParserInv /\ stack # <<>>
  BY DEF Climbing
<1>o. PICK old, n : old = heap[Top.tree] /\ n = Len(heap)
  OBVIOUS
<1>b. Top.at \in Outer => old \in Nodes(n) /\ old.type # "BINARY_OP"
  BY <1>o, OuterTop
<1>1. CASE StmtLet
  <2> DEFINE f == Resume("tail")
             g == Frame("assign", Top.tree)
  <2>1. PICK x : heap' = Write(Top.tree, x) /\ x.type # "BINARY_OP"
    BY <1>1, TypeIs DEF StmtLet
  <2>2. Top.at \in Outer /\ Call(f, g) /\ tokens' = tokens
    BY <1>1, OuterLabels DEF StmtLet, At, Call
  <2>3. f.at = "tail" /\ f.tree = Top.tree /\ g.at = "assign" /\ g.tree = Top.tree
    BY <1>a, ResumeIs, FrameIs
  <2> HIDE DEF f, g
  <2> QED
    BY <2>1, <2>2, <2>3, OuterLabels, OuterClimb
<1>2. CASE StmtReturn
  BY <1>2, OuterLabels, BeginClimb DEF StmtReturn, At
<1>3. CASE StmtIf
  BY <1>3, OuterLabels, BeginClimb DEF StmtIf, At
<1>4. CASE StmtFor
  BY <1>4, OuterLabels, BeginClimb DEF StmtFor, At
<1>5. CASE LetDeclares \/ LetFail
  <2>1. Top.at \in Outer /\ stack' = Below /\ tokens' = tokens
    BY <1>5, OuterLabels DEF LetDeclares, LetFail, At, Return
  <2>2. heap' = heap \/ heap' = Write(Top.tree, WithHeld(old, pos + 1))
    BY <1>5, <1>o DEF LetDeclares, LetFail, Write, WithHeld
  <2>3. WithHeld(old, pos + 1).type # "BINARY_OP"
    BY <1>b, <2>1 DEF Nodes, WithHeld
  <2> QED
    BY <2>1, <2>2, <2>3, OuterClimb
<1>6. CASE LetValue
  <2> DEFINE x == WithKid(WithHeld(old, pos + 1), 2, New1)
             f == Resume("stmt_end")
             g == Frame("expr", New1)
  <2>1. Top.at \in Outer /\ Call(f, g) /\ tokens' = tokens
    BY <1>6, OuterLabels DEF LetValue, At, Call
  <2>2. heap' = Append(Write(Top.tree, x), Fresh)
    BY <1>6, <1>b, <1>o, <2>1 DEF LetValue, Write, Nodes, WithHeld, WithKid
  <2>3. x.type # "BINARY_OP"
    BY <1>b, <2>1 DEF Nodes, WithHeld, WithKid
  <2>4. f.at = "stmt_end" /\ f.tree = Top.tree /\ g.at = "expr" /\ g.tree = New1
    BY <1>a, ResumeIs, FrameIs
  <2> HIDE DEF x, f, g
  <2> QED
    BY <2>1, <2>2, <2>3, <2>4, OuterLabels, OuterClimb
<1>7. CASE IfValue
  <2> DEFINE x == WithKid(old, 2, New1)
             f == Resume("tail")
             g == Frame("block", New1)
  <2>1. Top.at \in Outer /\ Call(f, g) /\ tokens' = tokens
    BY <1>7, OuterLabels DEF IfValue, At, Call
  <2>2. heap' = Append(Write(Top.tree, x), Fresh)
    BY <1>7, <1>o DEF IfValue, Write, WithKid
  <2>3. x.type # "BINARY_OP"
    BY <1>b, <2>1 DEF Nodes, WithKid
  <2>4. f.at = "tail" /\ f.tree = Top.tree /\ g.at = "block" /\ g.tree = New1
    BY <1>a, ResumeIs, FrameIs
  <2> HIDE DEF x, f, g
  <2> QED
    BY <2>1, <2>2, <2>3, <2>4, OuterLabels, OuterClimb
<1>8. CASE ForPart
  <2> DEFINE x == WithKid(old, Top.num + 2, New1)
             f == [Top EXCEPT !.num = @ + 1]
             g == Frame("block", New1)
  <2>1. Top.at \in Outer /\ Call(f, g) /\ tokens' = tokens /\ Top.at = "for"
    BY <1>8, OuterLabels DEF ForPart, At, Call
  <2>2. heap' = Append(Write(Top.tree, x), Fresh)
    BY <1>8, <1>o DEF ForPart, Write, WithKid
  <2>3. x.type # "BINARY_OP"
    BY <1>b, <2>1 DEF Nodes, WithKid
  <2>4. f.at = "for" /\ f.tree = Top.tree /\ g.at = "block" /\ g.tree = New1
    <3>1. Top \in Frames(n)
      BY <1>a, <1>o, TopTyped DEF GoodFrames
    <3> QED
      BY <2>1, <3>1, FrameIs DEF Frames
  <2> HIDE DEF x, f, g
  <2> QED
    BY <2>1, <2>2, <2>3, <2>4, OuterLabels, OuterClimb
<1>9. CASE ForEnd \/ StmtFail
  <2>1. Top.at \in Outer /\ stack' = Below /\ tokens' = tokens /\ heap' = heap
    BY <1>9, OuterLabels DEF ForEnd, StmtFail, At, Return
  <2> QED
    BY <2>1, OuterClimb
<1>10. CASE StmtAssign
  <2> DEFINE x == Node("STMT_ASSIGNMENT", pos + 1, Unset, <<NullTree, New1>>)
             f == Resume("stmt_end")
             g == Frame("expr", New1)
  <2>1. Top.at \in Outer /\ Call(f, g) /\ tokens' = tokens /\ heap' = Append(Write(Top.tree, x), Fresh)
    BY <1>10, OuterLabels DEF StmtAssign, At, Call
  <2>2. x.type # "BINARY_OP"
    BY TypeIs
  <2>3. f.at = "stmt_end" /\ f.tree = Top.tree /\ g.at = "expr" /\ g.tree = New1
    BY <1>a, ResumeIs, FrameIs
  <2> HIDE DEF x, f, g
  <2> QED
    BY <2>1, <2>2, <2>3, OuterLabels, OuterClimb
<1>11. CASE StmtExpression
  <2> DEFINE f == Resume("stmt_end")
             g == Frame("expr", Top.tree)
  <2>1. Top.at \in Outer /\ Call(f, g) /\ tokens' = tokens /\ heap' = heap
    BY <1>11, OuterLabels DEF StmtExpression, At, Call
  <2>2. f.at = "stmt_end" /\ f.tree = Top.tree /\ g.at = "expr" /\ g.tree = Top.tree
    BY <1>a, ResumeIs, FrameIs
  <2> HIDE DEF f, g
  <2> QED
    BY <2>1, <2>2, OuterLabels, OuterClimb
<1>12. CASE StmtEnd \/ PassOn
  <2>1. Top.at \in {"stmt_end", "tail"} /\ stack' = Below /\ tokens' = tokens /\ heap' = heap
    BY <1>12 DEF StmtEnd, PassOn, At, Return
  <2>2. Calm
    BY <1>a, <2>1, CalmIf
  <2>3. Top.at \notin Chaining /\ Top.at \notin Atomic
    BY <2>1 DEF Chaining, Atomic
  <2> QED
    BY <2>1, <2>2, <2>3, PlainClimb
<1>13. CASE Assignment
  <2> DEFINE x == WithKid(old, 1, New1)
             f == Resume("let_name")
             g == Frame("atom", New1)
  <2>1. Top.at \in Outer /\ Call(f, g) /\ tokens' = tokens
    BY <1>13, OuterLabels DEF Assignment, At, Call
  <2>2. heap' = Append(Write(Top.tree, x), Fresh)
    BY <1>13, <1>o DEF Assignment, Write, WithKid
  <2>3. x.type # "BINARY_OP"
    BY <1>b, <2>1 DEF Nodes, WithKid
  <2>4. f.at = "let_name" /\ f.tree = Top.tree /\ g.at = "atom" /\ g.tree = New1
    BY <1>a, ResumeIs, FrameIs
  <2> HIDE DEF x, f, g
  <2> QED
    BY <2>1, <2>2, <2>3, <2>4, OuterLabels, OuterClimb
<1> QED
  BY <1>1, <1>2, <1>3, <1>4, <1>5, <1>6, <1>7, <1>8, <1>9, <1>10, <1>11, <1>12, <1>13
     DEF StatementStep

LEMMA BlockClimb ==
  ASSUME Climbing, ParserInv', BlockStep
  PROVE  ClimbInv'
<1>a. ParserInv /\ stack # <<>>
  BY DEF Climbing
<1>o. PICK old, n : old = heap[Top.tree] /\ n = Len(heap)
  OBVIOUS
<1>b. Top.at \in Outer => old \in Nodes(n) /\ old.type # "BINARY_OP"
  BY <1>o, OuterTop
<1>1. CASE BlockFail \/ BlockClose \/ BlockGiveUp
  <2>1. Top.at \in Outer /\ stack' = Below /\ tokens' = tokens /\ heap' = heap
    BY <1>1, OuterLabels DEF BlockFail, BlockClose, BlockGiveUp, At, Return
  <2> QED
    BY <2>1, OuterClimb
<1>2. CASE BlockStatement
  <2> DEFINE f == Resume("tail")
             g == Frame("stmt", Top.tree)
  <2>1. Top.at \in Outer /\ Call(f, g) /\ tokens' = tokens /\ heap' = heap
    BY <1>2, OuterLabels DEF BlockStatement, At, Call
  <2>2. f.at = "tail" /\ f.tree = Top.tree /\ g.at = "stmt" /\ g.tree = Top.tree
    BY <1>a, ResumeIs, FrameIs
  <2> HIDE DEF f, g
  <2> QED
    BY <2>1, <2>2, OuterLabels, OuterClimb
<1>3. CASE BlockEmpty
  <2>1. Top.at \in Outer /\ stack' = Below /\ tokens' = tokens
    BY <1>3, OuterLabels DEF BlockEmpty, At, Return
  <2>2. heap' = Write(Top.tree, Node("EMPTY_LVL_STMTS", 0, Unset, <<>>))
    BY <1>3 DEF BlockEmpty
  <2> QED
    BY <2>1, <2>2, TypeIs, OuterClimb
<1>4. CASE BlockOpen
  <2> DEFINE f == Resume("stmts")
  <2>1. Top.at \in Outer /\ GoOn(f) /\ tokens' = tokens
    BY <1>4, OuterLabels DEF BlockOpen, At, GoOn
  <2>2. heap' = Write(Top.tree, Node("LVL_STMTS", 0, Unset, <<Wild, Wild>>))
    BY <1>4 DEF BlockOpen
  <2>3. f.at = "stmts" /\ f.tree = Top.tree
    BY <1>a, ResumeIs
  <2> HIDE DEF f
  <2> QED
    BY <2>1, <2>2, <2>3, TypeIs, OuterLabels, OuterClimb
<1>5. CASE BlockNext
  <2> DEFINE x == Node("LVL_STMTS", 0, Unset, <<New1, Wild>>)
             f == Resume("stmts_next")
             g == Frame("stmt", New1)
  <2>1. Top.at \in Outer /\ Call(f, g) /\ tokens' = tokens /\ heap' = Append(Write(Top.tree, x), Fresh)
    BY <1>5, OuterLabels DEF BlockNext, At, Call
  <2>2. x.type # "BINARY_OP"
    BY TypeIs
  <2>3. f.at = "stmts_next" /\ f.tree = Top.tree /\ g.at = "stmt" /\ g.tree = New1
    BY <1>a, ResumeIs, FrameIs
  <2> HIDE DEF x, f, g
  <2> QED
    BY <2>1, <2>2, <2>3, OuterLabels, OuterClimb
<1>6. CASE BlockLink
  <2> DEFINE x == WithKid(old, 2, New1)
             f == [Resume("stmts") EXCEPT !.tree = New1]
  <2>1. Top.at \in Outer /\ GoOn(f) /\ tokens' = tokens
    BY <1>6, OuterLabels DEF BlockLink, At, GoOn
  <2>2. heap' = Append(Write(Top.tree, x), Fresh)
    BY <1>6, <1>o DEF BlockLink, Write, WithKid
  <2>3. x.type # "BINARY_OP"
    BY <1>b, <2>1 DEF Nodes, WithKid
  <2>4. f.at = "stmts" /\ f.tree = New1
    <3>1. Top \in Frames(n)
      BY <1>a, <1>o, TopTyped DEF GoodFrames
    <3> QED
      BY <3>1 DEF Resume, Frames
  <2> HIDE DEF x, f
  <2> QED
    BY <2>1, <2>2, <2>3, <2>4, OuterLabels, OuterClimb
<1>7. CASE BlockLast
  <2> DEFINE x == WithKid(old, 2, NullTree)
             f == Resume("stmts")
  <2>1. Top.at \in Outer /\ GoOn(f) /\ tokens' = tokens
    BY <1>7, OuterLabels DEF BlockLast, At, GoOn
  <2>2. heap' = Write(Top.tree, x)
    BY <1>7, <1>o DEF BlockLast, Write, WithKid
  <2>3. x.type # "BINARY_OP"
    BY <1>b, <2>1 DEF Nodes, WithKid
  <2>4. f.at = "stmts" /\ f.tree = Top.tree
    BY <1>a, ResumeIs
  <2> HIDE DEF x, f
  <2> QED
    BY <2>1, <2>2, <2>3, <2>4, OuterLabels, OuterClimb
<1> QED
  BY <1>1, <1>2, <1>3, <1>4, <1>5, <1>6, <1>7 DEF BlockStep

-----------------------------------------------------------------------------
(* The loop over operators. *)

LEMMA NthFrameIs ==
  ASSUME NEW tree, NEW p
  PROVE  LET f == NthFrame(tree, p)
         IN f.at = "nth" /\ f.tree = tree /\ f.own = <<>> /\ f.op = Cur /\ f.num = p
  BY DEF NthFrame, Frame

LEMMA SameClimb ==
  ASSUME ParserInv, stack # <<>>, heap' = heap, pos' = pos, tokens' = tokens
  PROVE  Calm /\ Keeps /\ Cur' = Cur
  BY CalmIf, KeepsIf DEF Cur

LEMMA ExpressionClimb ==
  ASSUME Climbing, ParserInv', Expression
  PROVE  ClimbInv'
<1> DEFINE f == Resume("expr_ops")
           g == Frame("atom", Top.tree)
<1>1. Top.at = "expr" /\ Call(f, g) /\ tokens' = tokens /\ pos' = pos /\ heap' = heap
  BY DEF Expression, Call, At
<1>2. f.at = "expr_ops" /\ f.tree = Top.tree /\ g.at = "atom" /\ g.tree = Top.tree
  BY ResumeIs, FrameIs DEF Climbing
<1> HIDE DEF f, g
<1>3. Eases(f) /\ Eases(g) /\ g.at \in Atomic
  BY <1>1, <1>2, FreeIs DEF Eases, Tame, Labels, Chaining, Passing, Atomic, Climbing
<1> QED
  BY <1>1, <1>3, SameClimb, PlainClimb DEF Chaining, Climbing

LEMMA ExpressionOperatorsClimb ==
  ASSUME Climbing, ExpressionOperators
  PROVE  ClimbInv'
<1> DEFINE f == Resume("expr_end")
           g == NthFrame(Top.tree, 0)
<1>1. Top.at = "expr_ops" /\ Call(f, g) /\ tokens' = tokens /\ pos' = pos /\ heap' = heap
  BY DEF ExpressionOperators, Call, At
<1>2. /\ f.at = "expr_end" /\ f.tree = Top.tree
      /\ g.at = "nth" /\ g.tree = Top.tree /\ g.op = Cur /\ g.num = 0
  BY NthFrameIs, ResumeIs DEF Climbing
<1> HIDE DEF f, g
<1>3. Calm /\ Keeps /\ Cur' = Cur
  BY <1>1, SameClimb DEF Climbing
<1>4. Grade(heap'[Top.tree]) = 6
  <2>1. Settled(heap, Top)
    BY StackBase DEF Climbing, ClimbInv
  <2> QED
    BY <1>1, <2>1, GradeIs DEF Settled, Tame, Labels, Chaining, Passing
<1>5. Fits(f) /\ Fits(g)
  <2>1. Fits(f)
    BY <1>2 DEF Fits, Settled, Expects, Tame, Chaining, Passing
  <2>2. Fits(g)
    BY <1>2, PrecRange DEF Fits, Settled, Expects, Above, Tame, Chaining
  <2> QED
    BY <2>1, <2>2
<1>6. Facing(heap', g, Cur')
  <2>1. Prec(Cur) = -1 \/ (0 <= Prec(Cur) /\ Prec(Cur) <= 6)
    BY PrecRange
  <2>2. Prec(Cur) <= 6 /\ (0 <= Prec(Cur) \/ Prec(Cur) = -1)
    BY <2>1
  <2> QED
    BY <1>2, <1>3, <1>4, <2>2 DEF Facing
<1>7. Goes(f) /\ StandsOn(g) /\ Nests(f, g) /\ Inside(f, g) /\ OwnOrNew(f.tree)
  BY <1>1, <1>2 DEF Goes, StandsOn, Nests, Inside, OwnOrNew, Atomic, Chaining
<1>8. \A k \in DOMAIN heap' : NodeClimbs(heap', heap'[k], TreesOf(stack) \union {f.tree, g.tree})
  <2>1. Top.tree \in TreesOf(stack)
    BY StackBase DEF Climbing, TreesOf
  <2> QED
    BY <1>2, <1>3, <2>1, CalmNodes
<1> QED
  BY <1>1, <1>3, <1>5, <1>6, <1>7, <1>8, CalmCall

LEMMA ExpressionEndClimb ==
  ASSUME Climbing, ParserInv', ExpressionEnd
  PROVE  ClimbInv'
<1>1. Top.at = "expr_end" /\ stack' = Below /\ tokens' = tokens /\ pos' = pos /\ heap' = heap
  BY DEF ExpressionEnd, Return, At
<1>2. Calm /\ Top.at \notin Chaining /\ Top.at \notin Atomic
  BY <1>1, SameClimb DEF Chaining, Atomic, Climbing
<1> QED
  BY <1>1, <1>2, PlainClimb

LEMMA OperatorClimb ==
  ASSUME Climbing, StaysUp(tokens), Operator
  PROVE  ClimbInv'
<1> DEFINE f == [Resume("nth_right") EXCEPT !.own = <<New1>>, !.op = Cur]
           g == Frame("atom", New1)
<1>a. ParserInv /\ stack # <<>> /\ Top.at = "nth"
  BY DEF Operator, At, Climbing
<1>n. PICK t, low : t = Top.tree /\ low = Top.num
  OBVIOUS
<1>1. /\ heap' = Append(heap, Fresh) /\ Call(f, g) /\ pos' = pos + 1 /\ tokens' = tokens
      /\ Prec(Cur) # -1
  BY DEF Operator, Call, Advance, Continues
<1>2. f.at = "nth_right" /\ f.tree = t /\ f.own[1] = New1 /\ f.op = Cur /\ f.num = low
  <2>1. Top \in Frames(Len(heap))
    BY <1>a, TopTyped DEF GoodFrames
  <2> QED
    BY <1>n, <2>1 DEF Resume, Frames
<1>3. g.at = "atom" /\ g.tree = New1
  BY FrameIs
<1> HIDE DEF f, g
<1>4. pos \in Nat /\ Len(tokens) \in Nat /\ low \in Nat /\ Prec(Cur) \in 1 .. 5
  BY <1>1, <1>a, <1>n, Tokens_, TopTyped, PrecRange
<1>5. Cur \notin {"SEMICOLON", "END"} /\ Cur = tokens[pos + 1] /\ pos + 1 <= Len(tokens)
  BY <1>1, <1>4 DEF Prec, Cur
<1>6. /\ Local /\ heap'[t] = heap[t] /\ heap'[New1] = Fresh
      /\ \A m \in DOMAIN heap' : m \notin DOMAIN heap => heap'[m] = Fresh
  <2>1. heap = [m \in DOMAIN heap |-> heap[m]]
    BY <1>a DEF ParserInv
  <2>2. heap' = Append(Write(Top.tree, heap[Top.tree]), Fresh)
    BY <1>1, <2>1 DEF Write
  <2> QED
    BY <1>a, <1>n, <2>2, LocalIs, HeapIs DEF New1
<1>7. Fresh.type # "BINARY_OP"
  BY DEF Fresh, Node
<1>8. Calm
  BY <1>6, <1>7, <1>n DEF Calm
<1>9. Keeps
  BY <1>1, <1>5, <1>a, KeepsIf
<1>10. Expects(tokens, pos, Top) /\ Facing(heap, Top, Cur)
  BY <1>a, StackBase DEF Climbing, ClimbInv
<1>11. low <= Prec(Cur) /\ Prec(Cur) <= Grade(heap[t])
  <2>1. Above(tokens, pos, low - 1)
    BY <1>10, <1>a, <1>n DEF Expects, Chaining
  <2>2. pos + 1 \in Soon(tokens, pos)
    <3>1. pos + 1 \in pos + 1 .. Len(tokens) /\ \A j \in pos + 1 .. pos + 1 : j = pos + 1
      BY <1>4, <1>5
    <3> QED
      BY <1>5, <3>1 DEF Soon
  <2>3. Prec(Cur) > low - 1
    BY <1>1, <1>5, <2>1, <2>2 DEF Above
  <2> QED
    BY <1>4, <1>10, <1>a, <1>n, <2>3 DEF Facing
<1>12. Settled(heap', f)
  BY <1>2, <1>6, <1>7, <1>11 DEF Settled, Tame, Chaining
<1>13. Rises(tokens, pos + 1, Prec(Cur))
  <2> SUFFICES ASSUME NEW j \in Soon(tokens, pos + 1), NEW k \in Soon(tokens, pos + 1),
                      j < k, Prec(tokens[j]) > Prec(Cur), Prec(tokens[k]) # -1
               PROVE  Prec(tokens[k]) > Prec(Cur)
    BY DEF Rises
  <2>1. /\ j \in pos + 2 .. Len(tokens) /\ k \in pos + 2 .. Len(tokens)
        /\ \A m \in pos + 2 .. k : tokens[m] # "SEMICOLON"
    BY <1>4 DEF Soon
  <2>2. \A m \in pos + 1 .. k : m = pos + 1 \/ m \in pos + 2 .. k
    BY <1>4, <2>1
  <2>3. \A m \in pos + 1 .. k : tokens[m] # "SEMICOLON"
    BY <1>5, <2>1, <2>2
  <2>4. /\ pos + 1 \in DOMAIN tokens /\ j \in DOMAIN tokens /\ k \in DOMAIN tokens /\ pos + 1 < j
    BY <1>4, <1>5, <1>a, <2>1 DEF ParserInv
  <2> QED
    BY <1>5, <2>3, <2>4 DEF StaysUp
<1>14. Expects(tokens, pos', f)
  <2>1. Above(tokens, pos', low - 1)
    BY <1>9, <1>10, <1>a, <1>n DEF Expects, Chaining, Keeps, Above
  <2> QED
    BY <1>1, <1>2, <1>13, <2>1 DEF Expects
<1>15. Fits(f) /\ Fits(g)
  <2>1. Fits(g)
    BY <1>3, <1>6, <1>7 DEF Fits, Settled, Expects, Chaining
  <2> QED
    BY <1>12, <1>14, <2>1 DEF Fits
<1>16. /\ Goes(f) /\ StandsOn(g) /\ Nests(f, g) /\ Inside(f, g) /\ Facing(heap', g, Cur')
       /\ OwnOrNew(f.tree) /\ OwnOrNew(g.tree)
  <2>1. OwnOrNew(t) /\ OwnOrNew(New1)
    BY <1>a, <1>n, FreeIs
  <2> QED
    BY <1>2, <1>3, <1>a, <1>n, <2>1 DEF Goes, StandsOn, Nests, Inside, Facing, Atomic, Chaining
<1>17. \A k \in DOMAIN heap' : NodeClimbs(heap', heap'[k], TreesOf(stack) \union {f.tree, g.tree})
  <2>1. Top.tree \in TreesOf(stack)
    BY <1>a, StackBase DEF TreesOf
  <2>2. \A m \in TreesOf(stack) \union {f.tree, g.tree} : m \in TreesOf(stack) \/ m \notin DOMAIN heap
    BY <1>16, <2>1 DEF OwnOrNew
  <2> QED
    BY <1>8, <2>2, CalmNodes
<1> QED
  BY <1>1, <1>8, <1>9, <1>15, <1>16, <1>17, CalmCall

(* The node a function holds besides its own is not below an operator.     *)
LEMMA HeldApart ==
  ASSUME Climbing, ShapeInv, NEW o \in 1 .. Len(heap), 1 \in DOMAIN Top.own, Top.own[1] = o
  PROVE  \A m \in DOMAIN heap : NodeClimbs(heap, heap[m], TreesOf(stack) \union {o})
<1>a. ParserInv /\ stack # <<>> /\ OwnedOnce
  BY DEF Climbing, NodesInv
<1> SUFFICES ASSUME NEW m \in DOMAIN heap, heap[m].type = "BINARY_OP"
             PROVE  \A k \in {1, 2} : heap[m].kids[k] # o
  <2>1. \A m \in DOMAIN heap : NodeClimbs(heap, heap[m], TreesOf(stack))
    BY DEF Climbing, ClimbInv
  <2> QED
    BY <2>1 DEF NodeClimbs
<1>1. m \notin StaleOf(stack)
  <2> SUFFICES ASSUME NEW i \in DOMAIN stack, stack[i].at = "trail", m = stack[i].tree
               PROVE  FALSE
    BY DEF StaleOf
  <2>1. Settled(heap, stack[i])
    BY DEF Climbing, ClimbInv
  <2> QED
    BY <2>1 DEF Settled, Tame, Labels, Chaining, Passing
<1>2. DOMAIN heap[m].kids = {1, 2}
  BY DEF ShapeInv, Shaped
<1>3. SUFFICES ASSUME NEW k \in {1, 2}, heap[m].kids[k] = o PROVE FALSE
  OBVIOUS
<1>4. PICK n : n = Len(stack)
  OBVIOUS
<1>5. o > 0 /\ n \in DOMAIN stack /\ stack[n] = Top
  BY <1>4, <1>a, StackBase, Tokens_
<1>6. HasField(heap, stack, m, k) /\ HasLocal(stack, n, 1)
  BY <1>1, <1>2, <1>3, <1>5 DEF HasField, HasLocal
<1>7. PICK T : T = LinksOf(heap, stack)
  OBVIOUS
<1>8. /\ <<"field", m, k>> \in DOMAIN T /\ T[<<"field", m, k>>] = o
      /\ <<"local", n, 1>> \in DOMAIN T /\ T[<<"local", n, 1>>] = o
  BY <1>3, <1>5, <1>6, <1>7, LinksAre
<1>9. Owns(T, 2 .. Len(heap))
  BY <1>7, <1>a, OwnedIs
<1>10. <<"field", m, k>> = <<"local", n, 1>>
  BY <1>8, <1>9 DEF Owns
<1> QED
  BY <1>10

LEMMA OperandDeeperClimb ==
  ASSUME Climbing, ShapeInv, OperandDeeper
  PROVE  ClimbInv'
<1> DEFINE f == Resume("nth_deep")
           g == NthFrame(Top.own[1], Prec(Top.op) + 1)
<1>a. ParserInv /\ stack # <<>> /\ Top.at = "nth_right"
  BY DEF OperandDeeper, At, Climbing
<1>n. PICK t, low, o, p : t = Top.tree /\ low = Top.num /\ o = Top.own[1] /\ p = Prec(Top.op)
  OBVIOUS
<1>1. /\ heap' = heap /\ Call(f, g) /\ pos' = pos /\ tokens' = tokens
      /\ Prec(Cur) > p
  BY <1>n DEF OperandDeeper, Call
<1>2. /\ f.at = "nth_deep" /\ f.tree = t /\ f.own[1] = o /\ f.op = Top.op /\ f.num = low
      /\ o \in 1 .. Len(heap) /\ 1 \in DOMAIN Top.own /\ p # -1
  <2>1. Top \in Frames(Len(heap)) /\ WellFormed(Top)
    BY <1>a, TopTyped DEF GoodFrames
  <2>2. /\ f.at = "nth_deep" /\ f.tree = t /\ f.own = Top.own /\ f.op = Top.op /\ f.num = low
        /\ Top.own \in Seq(1 .. Len(heap)) /\ Len(Top.own) = 1 /\ p # -1
    BY <1>a, <1>n, <2>1 DEF Resume, Frames, WellFormed
  <2> HIDE DEF f
  <2> QED
    BY <1>n, <2>2
<1>3. g.at = "nth" /\ g.tree = o /\ g.op = Cur /\ g.num = p + 1
  BY <1>n, NthFrameIs
<1> HIDE DEF f, g
<1>4. /\ pos \in Nat /\ Len(tokens) \in Nat /\ low \in Nat /\ p \in 1 .. 5 /\ Prec(Cur) \in 1 .. 5
  <2>1. Prec(Cur) \in {-1} \union 1 .. 5 /\ p \in {-1} \union 1 .. 5
    BY <1>n, PrecRange
  <2> QED
    BY <1>1, <1>2, <1>a, <1>n, <2>1, Tokens_, TopTyped
<1>5. Cur \notin {"SEMICOLON", "END"} /\ Cur = tokens[pos + 1] /\ pos + 1 <= Len(tokens)
  <2>1. Cur \notin {"SEMICOLON", "END"}
    BY <1>4 DEF Prec
  <2> QED
    BY <1>4, <2>1 DEF Cur
<1>6. Calm /\ Keeps /\ Cur' = Cur
  BY <1>1, <1>a, SameClimb
<1>7. Expects(tokens, pos, Top) /\ Settled(heap, Top)
  BY <1>a, StackBase DEF Climbing, ClimbInv
<1>8. low <= p /\ p <= Grade(heap[t]) /\ heap[o].type # "BINARY_OP"
  BY <1>7, <1>a, <1>n DEF Settled
<1>9. Above(tokens, pos, low - 1) /\ Rises(tokens, pos, p)
  BY <1>7, <1>a, <1>n DEF Expects, Chaining
<1>10. Above(tokens, pos, p)
  <2> SUFFICES ASSUME NEW k \in Soon(tokens, pos), Prec(tokens[k]) # -1
               PROVE  Prec(tokens[k]) > p
    BY DEF Above
  <2>1. k \in Nat /\ k >= pos + 1
    BY <1>4 DEF Soon
  <2>2. pos + 1 \in Soon(tokens, pos)
    <3>1. pos + 1 \in pos + 1 .. Len(tokens) /\ \A j \in pos + 1 .. pos + 1 : j = pos + 1
      BY <1>4, <1>5
    <3> QED
      BY <1>5, <3>1 DEF Soon
  <2>3. CASE k = pos + 1
    BY <1>1, <1>5, <2>3
  <2>4. CASE pos + 1 < k
    BY <1>1, <1>5, <1>9, <2>2, <2>4 DEF Rises
  <2> QED
    BY <1>4, <2>1, <2>3, <2>4
<1>11. Fits(f)
  BY <1>1, <1>2, <1>8, <1>9, <1>10, <1>n DEF Fits, Settled, Expects, Tame, Chaining
<1>12. Fits(g)
  <2>1. (p + 1) - 1 = p
    BY <1>4
  <2> QED
    BY <1>1, <1>3, <1>10, <2>1 DEF Fits, Settled, Expects, Tame, Chaining
<1>13. Facing(heap', g, Cur')
  <2>1. Grade(heap[o]) = 6
    BY <1>8, GradeIs
  <2>2. p + 1 <= 6 /\ Prec(Cur) <= 6 /\ p + 1 <= Prec(Cur)
    BY <1>1, <1>4
  <2> QED
    BY <1>1, <1>3, <1>6, <2>1, <2>2 DEF Facing
<1>14. Goes(f) /\ StandsOn(g) /\ Nests(f, g) /\ Inside(f, g) /\ OwnOrNew(f.tree)
  BY <1>2, <1>3, <1>a, <1>n DEF Goes, StandsOn, Nests, Inside, OwnOrNew, Atomic, Chaining
<1>15. \A k \in DOMAIN heap' : NodeClimbs(heap', heap'[k], TreesOf(stack) \union {f.tree, g.tree})
  <2>1. t \in TreesOf(stack)
    BY <1>a, <1>n, StackBase DEF TreesOf
  <2>2. TreesOf(stack) \union {f.tree, g.tree} = TreesOf(stack) \union {o}
    BY <1>2, <1>3, <2>1
  <2>3. \A k \in DOMAIN heap : NodeClimbs(heap, heap[k], TreesOf(stack) \union {o})
    BY <1>2, <1>n, HeldApart
  <2> QED
    BY <1>1, <2>2, <2>3
<1> QED
  BY <1>1, <1>6, <1>11, <1>12, <1>13, <1>14, <1>15, CalmCall

LEMMA OperatorsEndClimb ==
  ASSUME Climbing, OperatorsEnd
  PROVE  ClimbInv'
<1>a. ParserInv /\ stack # <<>> /\ Top.at = "nth" /\ ~Continues
  BY DEF OperatorsEnd, At, Climbing
<1>1. stack' = Below /\ heap' = heap /\ pos' = pos /\ tokens' = tokens
  BY DEF OperatorsEnd, Return
<1>2. Calm /\ Keeps /\ Cur' = Cur
  BY <1>1, <1>a, SameClimb
<1>3. ASSUME Len(stack) # 1 PROVE Facing(heap', stack[Len(stack) - 1], Cur')
  <2>1. PICK n, f : n = Len(stack) /\ f = stack[n - 1]
    OBVIOUS
  <2>2. n \in Nat \ {0} /\ n # 1 /\ Top = stack[n] /\ DOMAIN stack = 1 .. n
    BY <1>3, <1>a, <2>1, StackBase
  <2>3. n - 1 \in 1 .. n - 1 /\ n - 1 \in 1 .. n /\ (n - 1) + 1 = n /\ n \in 1 .. n
    BY <2>2
  <2>4. f.at \notin Working
    BY <2>1, <2>3, LowerFrame
  <2>5. Inside(f, Top)
    BY <2>1, <2>2, <2>3 DEF Climbing, ClimbInv
  <2>6. Facing(heap, Top, Cur)
    BY <1>a DEF Climbing, ClimbInv
  <2>7. f.at = "nth_deep" => Prec(Cur) = -1 /\ Prec(f.op) < Grade(heap[f.own[1]])
    <3> SUFFICES ASSUME f.at = "nth_deep"
                 PROVE  Prec(Cur) = -1 /\ Prec(f.op) < Grade(heap[f.own[1]])
      OBVIOUS
    <3>1. Top.tree = f.own[1] /\ Top.num = Prec(f.op) + 1
      BY <2>5 DEF Inside
    <3>2. PICK g : g = Grade(heap[f.own[1]])
      OBVIOUS
    <3>3. Top.num <= g /\ (Top.num <= Prec(Top.op) \/ Prec(Cur) = -1)
      BY <1>a, <2>6, <3>1, <3>2 DEF Facing
    <3>4. Prec(Cur) = -1
      <4>1. ~(Prec(Top.op) >= Top.num) \/ Prec(Cur) = -1
        BY <1>a DEF Continues
      <4>2. Top.num <= Prec(Top.op) => Prec(Top.op) >= Top.num
        OBVIOUS
      <4> QED
        BY <3>3, <4>1, <4>2
    <3>5. g \in 1 .. 6 /\ Prec(f.op) \in {-1} \union 1 .. 5
      BY <3>2, GradeIs, PrecRange
    <3>6. Prec(f.op) < g
      BY <3>1, <3>3, <3>5
    <3> QED
      BY <3>2, <3>4, <3>6
  <2>8. f.at # "nth"
    BY <2>4 DEF Working
  <2>9. Facing(heap', f, Cur')
    BY <1>1, <1>2, <2>7, <2>8 DEF Facing
  <2> QED
    BY <2>1, <2>9
<1> QED
  BY <1>1, <1>2, <1>3, CalmReturn

(* The right operand is nobody's node any more. *)
LEMMA OperandFree ==
  ASSUME ParserInv, NodesInv, OrderInv, stack # <<>>, Top.at \in {"nth_right", "nth_deep"},
         NEW o \in 1 .. Len(heap), 1 \in DOMAIN Top.own, Top.own[1] = o
  PROVE  o \notin TreesOf(stack) /\ o # Top.tree
<1>n. PICK n, t : n = Len(stack) /\ t = Top.tree
  OBVIOUS
<1>1. /\ n \in Nat \ {0} /\ n \in DOMAIN stack /\ stack[n] = Top
      /\ \A i \in DOMAIN stack : i = n \/ i \in 1 .. n - 1
      /\ \A i \in 1 .. n - 1 : i \in DOMAIN stack /\ i < n
      /\ t \in Nat /\ o \in Nat
  BY <1>n, StackBase, TopTyped, Tokens_
<1>2. PICK lo, hi : Ordered(lo, hi)
  BY DEF OrderInv
<1>3. t <= o /\ t # o
  <2>1. FrameOrder(Top, heap[t], lo, hi, Open)
    BY <1>1, <1>2, <1>n DEF Ordered
  <2>2. Last(Top) = o
    BY DEF Last
  <2> QED
    BY <1>n, <2>1, <2>2 DEF FrameOrder, Locals
<1>4. ASSUME NEW i \in 1 .. n - 1 PROVE stack[i].tree # o
  <2>1. CASE stack[i].at \in Holding
    <3>1. stack[i].tree \notin Near
      BY <1>n, <2>1, NearApart DEF NodesInv, FramesInv
    <3> QED
      BY <3>1 DEF Near
  <2>2. CASE stack[i].at \notin Holding
    <3>1. Last(stack[i]) = stack[i].tree
      BY <2>2 DEF Last, Holding
    <3>2. Last(stack[i]) <= stack[n].tree
      BY <1>1, <1>2 DEF Ordered
    <3>3. stack[i].tree <= t
      BY <1>1, <1>n, <3>1, <3>2
    <3> QED
      BY <1>1, <1>3, <3>3
  <2> QED
    BY <2>1, <2>2
<1> QED
  BY <1>1, <1>3, <1>4, <1>n DEF TreesOf

LEMMA CombineClimb ==
  ASSUME Climbing, OrderInv, Combine
  PROVE  ClimbInv'
<1> DEFINE f == [Resume("nth") EXCEPT !.own = <<>>]
<1>a. ParserInv /\ NodesInv /\ stack # <<>> /\ Top.at \in {"nth_right", "nth_deep"}
  BY DEF Combine, At, Climbing
<1>n. PICK n, t, low, o, p, op, y : /\ n = Len(stack) /\ t = Top.tree /\ low = Top.num /\ o = Top.own[1]
                                    /\ op = Top.op /\ p = Prec(op) /\ y = heap[t]
  OBVIOUS
<1>1. PICK x : /\ x = Node("BINARY_OP", 0, OpCode(op), <<New1, o>>)
               /\ heap' = Append(Write(t, x), y)
  BY <1>n DEF Combine
<1>2. GoOn(f) /\ pos' = pos /\ tokens' = tokens
  BY DEF Combine, GoOn
<1>3. /\ f.at = "nth" /\ f.tree = t /\ f.op = op /\ f.num = low
      /\ o \in 1 .. Len(heap) /\ 1 \in DOMAIN Top.own /\ p # -1
  <2>1. Top \in Frames(Len(heap)) /\ WellFormed(Top)
    BY <1>a, TopTyped DEF GoodFrames
  <2>2. /\ f.at = "nth" /\ f.tree = t /\ f.op = op /\ f.num = low
        /\ Top.own \in Seq(1 .. Len(heap)) /\ Len(Top.own) = 1 /\ p # -1
    BY <1>a, <1>n, <2>1 DEF Resume, Frames, WellFormed
  <2> HIDE DEF f
  <2> QED
    BY <1>n, <2>2
<1> HIDE DEF f
<1>4. p \in 1 .. 5 /\ low \in Nat
  <2>1. p \in {-1} \union 1 .. 5
    BY <1>n, PrecRange
  <2> QED
    BY <1>3, <1>a, <1>n, <2>1, TopTyped
<1>5. /\ Len(heap) \in Nat /\ t \in DOMAIN heap /\ DOMAIN heap = 1 .. Len(heap)
      /\ DOMAIN heap' = 1 .. Len(heap) + 1
      /\ heap'[t] = x /\ heap'[New1] = y
      /\ \A m \in DOMAIN heap : m # t => heap'[m] = heap[m]
      /\ New1 = Len(heap) + 1
  BY <1>1, <1>a, <1>n, HeapIs DEF New1
<1>6. /\ New1 \in DOMAIN heap' /\ New1 \notin DOMAIN heap /\ DOMAIN heap \subseteq DOMAIN heap'
      /\ \A m \in DOMAIN heap' : m \in DOMAIN heap \/ m = New1
  BY <1>5
<1>7. x.type = "BINARY_OP" /\ x.kids[1] = New1 /\ x.kids[2] = o /\ Grade(x) = p
  <2>1. x.type = "BINARY_OP" /\ x.kids = <<New1, o>>
    BY <1>1, TypeIs, NodeIs
  <2>2. Prec(op) # -1 /\ p = Prec(op)
    BY <1>3, <1>n
  <2>3. Grade(Node("BINARY_OP", 0, OpCode(op), <<New1, o>>)) = Prec(op)
    BY <2>2, GradeIs, Zenon
  <2>4. Grade(x) = p
    BY <1>1, <2>2, <2>3
  <2> QED
    BY <2>1, <2>4
<1>8. o \notin TreesOf(stack) /\ o # t
  BY <1>3, <1>a, <1>n, OperandFree
<1>9. Keeps /\ Cur' = Cur
  BY <1>2, <1>a, KeepsIf DEF Cur
<1>10. Settled(heap, Top) /\ Expects(tokens, pos, Top) /\ Facing(heap, Top, Cur)
  BY <1>a, StackBase DEF Climbing, ClimbInv
<1>11. low <= p /\ p <= Grade(y)
  BY <1>10, <1>a, <1>n DEF Settled
<1>12. Prec(Cur) <= p /\ Grade(heap[o]) > p
  <2>1. CASE Top.at = "nth_right"
    <3>1. Prec(Cur) <= p
      BY <1>n, <2>1 DEF Combine, At
    <3>2. Grade(heap[o]) = 6
      BY <1>10, <1>n, <2>1, GradeIs DEF Settled
    <3> QED
      BY <1>4, <3>1, <3>2
  <2>2. CASE Top.at = "nth_deep"
    <3>1. Prec(Cur) = -1 /\ p < Grade(heap[o])
      BY <1>10, <1>n, <2>2 DEF Facing
    <3>2. Grade(heap[o]) \in 1 .. 6
      BY GradeIs
    <3> QED
      BY <1>4, <3>1, <3>2
  <2> QED
    BY <1>a, <2>1, <2>2
<1>13. /\ n \in Nat \ {0} /\ DOMAIN stack = 1 .. n /\ stack[n] = Top /\ n \in DOMAIN stack
       /\ DOMAIN stack' = 1 .. n /\ stack'[n] = f
       /\ \A i \in 1 .. n - 1 : stack'[i] = stack[i]
  <2>1. n \in Nat \ {0} /\ DOMAIN stack = 1 .. n /\ Top = stack[n] /\ n \in DOMAIN stack
        /\ \A i \in 1 .. n - 1 : i \in 1 .. n /\ i < n
    BY <1>a, <1>n, StackBase, Upto
  <2>2. /\ DOMAIN stack' = 1 .. n /\ stack'[n] = f
        /\ \A i \in 1 .. n : i < n => stack'[i] = stack[i]
    BY <1>2, <1>a, <1>n, StackIs
  <2> QED
    BY <2>1, <2>2
<1>14. /\ \A i \in DOMAIN stack' : i >= n => i = n
       /\ n \in {n - 1, n, n + 1} /\ n + 1 \notin DOMAIN stack' /\ n # 0
  BY <1>13
<1>15. Local
  BY <1>1, <1>a, <1>n, LocalIs
<1>16. \A i \in 1 .. n - 1 : Fits(stack[i])
  BY <1>9, <1>15, <1>a, <1>n, LowerSettled, LowerExpects DEF Fits
<1>17. Fits(f)
  <2>1. Above(tokens, pos, low - 1)
    BY <1>10, <1>a, <1>n DEF Expects, Chaining
  <2> QED
    BY <1>2, <1>3, <2>1 DEF Fits, Settled, Expects, Tame, Chaining
<1>18. StandsOn(f) /\ Goes(f)
  BY <1>3, <1>a, <1>n DEF StandsOn, Goes, Atomic, Chaining
<1>19. Facing(heap', f, Cur')
  BY <1>3, <1>5, <1>7, <1>9, <1>11, <1>12, <1>n DEF Facing
<1>20. TreesOf(stack') \subseteq TreesOf(stack)
  <2> SUFFICES ASSUME NEW i \in DOMAIN stack' PROVE stack'[i].tree \in TreesOf(stack)
    BY DEF TreesOf
  <2>1. i = n \/ i \in 1 .. n - 1
    BY <1>13
  <2>2. stack'[i].tree = stack[i].tree /\ i \in DOMAIN stack
    BY <1>3, <1>13, <1>n, <2>1
  <2> QED
    BY <2>2 DEF TreesOf
<1>21. t \in TreesOf(stack) /\ TreesOf(stack) \subseteq DOMAIN heap
  <2>1. \A i \in DOMAIN stack : stack[i].tree \in DOMAIN heap
    BY <1>a, LocalExists
  <2> QED
    BY <1>13, <1>n, <2>1 DEF TreesOf
<1>22. ASSUME NEW m \in DOMAIN heap, heap[m].type = "BINARY_OP"
       PROVE  /\ \A k \in {1, 2} : heap[m].kids[k] \in DOMAIN heap' /\ heap[m].kids[k] \notin TreesOf(stack')
              /\ Grade(heap'[heap[m].kids[1]]) >= Grade(heap[m])
              /\ Grade(heap'[heap[m].kids[2]]) > Grade(heap[m])
  <2>1. /\ \A k \in {1, 2} : heap[m].kids[k] \in DOMAIN heap /\ heap[m].kids[k] \notin TreesOf(stack)
        /\ Grade(heap[heap[m].kids[1]]) >= Grade(heap[m])
        /\ Grade(heap[heap[m].kids[2]]) > Grade(heap[m])
    BY <1>22 DEF Climbing, ClimbInv, NodeClimbs
  <2>2. heap'[heap[m].kids[1]] = heap[heap[m].kids[1]] /\ heap'[heap[m].kids[2]] = heap[heap[m].kids[2]]
    BY <1>5, <1>21, <2>1
  <2> QED
    BY <1>6, <1>20, <2>1, <2>2
<1>23. ASSUME NEW k \in DOMAIN heap' PROVE NodeClimbs(heap', heap'[k], TreesOf(stack'))
  <2>1. CASE k = t
    <3>1. New1 \notin TreesOf(stack') /\ o \notin TreesOf(stack') /\ o \in DOMAIN heap /\ o \in DOMAIN heap'
      BY <1>3, <1>5, <1>6, <1>8, <1>20, <1>21
    <3>2. heap'[o] = heap[o]
      BY <1>5, <1>8, <3>1
    <3>3. Grade(y) >= p
      BY <1>4, <1>11, GradeIs
    <3> QED
      BY <1>5, <1>6, <1>7, <1>12, <2>1, <3>1, <3>2, <3>3 DEF NodeClimbs
  <2>2. CASE k # t
    <3>1. PICK m \in DOMAIN heap : heap'[k] = heap[m]
      BY <1>5, <1>6, <1>n, <2>2
    <3> QED
      BY <1>22, <3>1 DEF NodeClimbs
  <2> QED
    BY <2>1, <2>2
<1> QED
  BY <1>2, <1>13, <1>14, <1>16, <1>17, <1>18, <1>19, <1>23, <1>n, ClimbFrames

LEMMA ExpressionStepClimb ==
  ASSUME Climbing, ParserInv', ShapeInv, OrderInv, StaysUp(tokens), ExpressionStep
  PROVE  ClimbInv'
  BY OperatorClimb, OperandDeeperClimb, CombineClimb, OperatorsEndClimb, ExpressionClimb,
     ExpressionOperatorsClimb, ExpressionEndClimb DEF ExpressionStep

-----------------------------------------------------------------------------
(* ClimbInv is inductive while the operators stay up and no parenthesis    *)
(* has been gone past.                                                     *)
OperatorsInv == StaysUp(tokens) /\ NoParen => ClimbInv

LEMMA ClimbInit == Init => OperatorsInv
<1> SUFFICES ASSUME Init PROVE ClimbInv
  BY DEF OperatorsInv
<1>1. /\ stack = <<Frame("block", 1)>> /\ DOMAIN stack = {1} /\ stack[1] = Frame("block", 1)
      /\ heap = <<Fresh>> /\ DOMAIN heap = {1} /\ heap[1] = Fresh /\ Len(stack) = 1
  BY DEF Init
<1>2. PICK f : f = stack[1]
  OBVIOUS
<1>3. f.at = "block" /\ f.tree = 1 /\ Top = f
  BY <1>1, <1>2, FrameIs DEF Top
<1>4. Fresh.type # "BINARY_OP"
  BY DEF Fresh, Node
<1>5. Settled(heap, f) /\ Expects(tokens, pos, f) /\ Facing(heap, f, Cur)
  BY <1>1, <1>3, <1>4 DEF Settled, Expects, Facing, Chaining
<1>6. NodeClimbs(heap, heap[1], TreesOf(stack))
  BY <1>1, <1>4 DEF NodeClimbs
<1>7. \A i, j \in DOMAIN stack : i = 1 /\ j = 1 /\ ~(i < j) /\ i + 1 \notin DOMAIN stack
  BY <1>1
<1> QED
  BY <1>1, <1>2, <1>3, <1>5, <1>6, <1>7 DEF ClimbInv

LEMMA ParenKept ==
  ASSUME ParserInv, Next, NoParen'
  PROVE  NoParen
<1>1. pos \in Nat /\ tokens' = tokens /\ (pos' = pos \/ pos' = pos + 1 \/ pos' = pos + 2)
  BY Tokens_, StepConsumes DEF Consumes
<1>2. \A i \in 1 .. pos : i \in 1 .. pos'
  BY <1>1
<1> QED
  BY <1>1, <1>2 DEF NoParen

LEMMA ClimbStep ==
  ParserInv /\ NodesInv /\ ShapeInv /\ OrderInv /\ OperatorsInv /\ [Next]_vars => OperatorsInv'
<1> SUFFICES ASSUME ParserInv, NodesInv, ShapeInv, OrderInv, OperatorsInv, [Next]_vars,
                    StaysUp(tokens)', NoParen'
             PROVE  ClimbInv'
  BY DEF OperatorsInv
<1>1. CASE Next
  <2>1. tokens' = tokens /\ NoParen
    BY <1>1, StepConsumes, ParenKept
  <2>2. StaysUp(tokens)
    BY <2>1 DEF StaysUp
  <2>3. stack # <<>>
    BY <1>1, NextRuns
  <2>4. Climbing
    BY <2>1, <2>2, <2>3 DEF Climbing, OperatorsInv
  <2>5. ParserInv'
    BY ParserStep
  <2> QED
    BY <1>1, <2>2, <2>4, <2>5, SmallAtomClimb, AtomClimb, ExpressionStepClimb, StatementClimb,
       BlockClimb DEF Next
<1>2. CASE UNCHANGED vars
  <2>1. heap' = heap /\ stack' = stack /\ pos' = pos /\ tokens' = tokens
    BY <1>2 DEF vars
  <2>2. ClimbInv
    BY <2>1 DEF OperatorsInv, StaysUp, NoParen
  <2>3. Top' = Top /\ Cur' = Cur
    BY <2>1 DEF Top, Cur
  <2> QED
    BY <2>1, <2>2, <2>3 DEF ClimbInv
<1> QED
  BY <1>1, <1>2

LEMMA CountNone ==
  ASSUME ParserInv, Count("LPAREN") = 0
  PROVE  NoParen
<1> DEFINE S == {i \in 1 .. pos : tokens[i] = "LPAREN"}
<1>1. IsFiniteSet(1 .. pos)
  BY Tokens_, FS_Interval
<1>2. IsFiniteSet(S)
  BY <1>1, FS_Subset
<1>3. S = {}
  BY <1>2, FS_EmptySet DEF Count
<1> QED
  BY <1>3 DEF NoParen

LEMMA FinishedClimbs ==
  ASSUME ParserInv, OperatorsInv, StaysUp(tokens)
  PROVE  Climbs
<1> SUFFICES ASSUME Done, Count("LPAREN") = 0, NEW n \in Binaries
             PROVE  Rank(heap[n].kids[1]) >= Rank(n) /\ Rank(heap[n].kids[2]) > Rank(n)
  BY DEF Climbs
<1>1. ClimbInv
  BY CountNone DEF OperatorsInv
<1> QED
  BY <1>1 DEF ClimbInv, NodeClimbs, Binaries, Rank

(* While the operators of each statement stay up, that is, while none      *)
(* comes back to the precedence of one that a tighter one has followed,    *)
(* the loop of build_nth_entire_expression, which goes on by the           *)
(* precedence of the operator it consumed last (parse.c:238, 246), builds  *)
(* the tree the precedences ask for: an operator below another one binds   *)
(* tighter, or as tight and further left.  Of a comparison next to an      *)
(* operator that is none, of which the grammar says otherwise than the     *)
(* table of calc_precedence, nothing is claimed.                           *)
THEOREM OperatorsClimb == Spec => [](StaysUp(tokens) => Climbs)
<1>1. Spec => []ShapeInv
  BY ShapeInit, ShapeStep, ParserInvariant, PTL DEF Spec
<1>2. Spec => []OperatorsInv
  BY <1>1, ClimbInit, ClimbStep, OrderInvariant, NodesInvariant, ParserInvariant, PTL DEF Spec
<1>3. ParserInv /\ OperatorsInv => (StaysUp(tokens) => Climbs)
  BY FinishedClimbs
<1> QED
  BY <1>2, <1>3, ParserInvariant, PTL
=============================================================================
