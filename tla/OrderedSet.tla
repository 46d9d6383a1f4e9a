---------------------------- MODULE OrderedSet -----------------------------
(***************************************************************************)
(* Programs of calls on a set of lib/ctl/set.h.  A call is one step.  The  *)
(* set the source's functions of two sets take beside it is one that has   *)
(* been filled in ascending order; what they make takes its place.         *)
(***************************************************************************)
EXTENDS TreeSet

CONSTANTS
  Elements,    \* the keys, which are Nodes too
  Dangling,    \* an address where no node is
  Others,      \* bound: the sets it is combined with
  Matches      \* bound: the sets of keys that remove_if may match

ASSUME SetAssumption == Nodes = 1 .. Cardinality(Nodes) /\ Elements \subseteq Nodes

VARIABLES
  tree,
  members      \* the set of keys that the calls should have left

ovars == <<tree, members>>

Ascending(S) == SelectSeq([k \in 1 .. Cardinality(Nodes) |-> k], LAMBDA k : k \in S)
Filled(S) == InsertAll(NoTree, Ascending(S))

(* No code compares addresses, so that the nodes may be renamed between    *)
(* calls: each is given the address of its key.  An address that is not in *)
(* use stays one.                                                          *)
Renamed(t) ==
  LET ks == {t.key[n] : n \in t.alloc}
      node == [k \in ks |-> CHOOSE n \in t.alloc : t.key[n] = k]
      name(n) == IF n = NULL THEN NULL
                 ELSE IF n \in t.alloc THEN t.key[n] ELSE Dangling
      all(f, zero) == [m \in Nodes |-> IF m \in ks THEN f[node[m]] ELSE zero]
      named(f) == [m \in Nodes |-> name(all(f, NULL)[m])]
  IN [root |-> name(t.root), size |-> t.size, alloc |-> ks, stale |-> t.stale,
      kid |-> [s \in Sides |-> named(t.kid[s])], p |-> named(t.p),
      key |-> all(t.key, 0), red |-> all(t.red, FALSE)]

Becomes(t, S) == tree' = Renamed(t) /\ members' = S

InsertKey(k)  == Becomes(Insert(tree, k), members \union {k})
EraseKey(k)   == Becomes(Erase(tree, k), members \ {k})
ClearAll      == Becomes(Clear(tree), {})
RemoveSome(S) == Becomes(RemoveIf(tree, S), members \ S)

Combine(S) ==
  \/ Becomes(Copy(tree), members)
  \/ Becomes(Union(tree, Filled(S)), members \union S)
  \/ Becomes(Intersection(tree, Filled(S)), members \intersect S)
  \/ Becomes(Difference(tree, Filled(S)), members \ S)
  \/ Becomes(SymmetricDifference(tree, Filled(S)), (members \ S) \union (S \ members))

Init == tree = NoTree /\ members = {}

Next ==
  \/ \E k \in Elements : InsertKey(k) \/ EraseKey(k)
  \/ \E S \in Matches : RemoveSome(S)
  \/ \E S \in Others : Combine(S)
  \/ ClearAll

Spec == Init /\ [][Next]_ovars

-----------------------------------------------------------------------------
(* The properties that verify asserts (set.h:391, "Each node is either red *)
(* or black", to :395, "All paths from a node have the same number"): the  *)
(* root is black, a red node has black neighbours, and every path to NULL  *)
(* has as many black nodes.                                                *)
Depth(n) == LET RECURSIVE D(_)
                D(m) == IF m = NULL THEN 0 ELSE D(tree.p[m]) + (IF tree.red[m] THEN 0 ELSE 1)
            IN D(n)

RedBlack ==
  /\ ~Red(tree, tree.root)
  /\ \A n \in tree.alloc : tree.red[n] =>
       ~Red(tree, tree.p[n]) /\ \A s \in Sides : ~Red(tree, tree.kid[s][n])
  /\ \A n, m \in tree.alloc :
       (\E s \in Sides : tree.kid[s][n] = NULL) /\ (\E s \in Sides : tree.kid[s][m] = NULL)
         => Depth(n) = Depth(m)

FirstOf(S) == IF S = {} THEN NULL ELSE CHOOSE k \in S : \A j \in S : k <= j
KeyOf(n) == IF n = NULL THEN NULL ELSE tree.key[n]

(* foreach visits the members, in ascending order, each one once; the size *)
(* is their number; a set equals another one with the same members; and    *)
(* the searches find a key, the first one not below a key and the first    *)
(* one above it.                                                           *)
InOrder ==
  /\ Keys(tree) = Ascending(members) /\ tree.size = Cardinality(members)
  /\ \A S \in Others : Equal(tree, Filled(S)) <=> members = S
  /\ \A k \in Elements :
       /\ KeyOf(Find(tree, k)) = FirstOf(members \intersect {k})
       /\ KeyOf(LowerBound(tree, k)) = FirstOf({j \in members : k <= j})
       /\ KeyOf(UpperBound(tree, k)) = FirstOf({j \in members : k < j})

(* The tree is made of the nodes that are not freed, one for each member:  *)
(* none is lost, none is reached after it is freed; children and parents   *)
(* agree.                                                                  *)
NodesOwned ==
  /\ ~tree.stale
  /\ Cardinality(tree.alloc) = Cardinality(members)
  /\ tree.root # NULL => tree.root \in tree.alloc /\ tree.p[tree.root] = NULL
  /\ \A n \in tree.alloc :
       /\ n # tree.root => tree.p[n] \in tree.alloc /\ \E s \in Sides : tree.kid[s][tree.p[n]] = n
       /\ \A s \in Sides : tree.kid[s][n] # NULL => tree.p[tree.kid[s][n]] = n
=============================================================================
